---------------------------- MODULE Encoding8086 ----------------------------
(***************************************************************************)
(* The encodings of the 8086's instructions (instruction_table.cpp.inl)    *)
(* and the table built of them, in which an instruction is found by the    *)
(* literal bits of its first two bytes (encoding.cpp).                     *)
(*                                                                         *)
(* An encoding is an operation and its bit fields from the highest bit of  *)
(* the first byte on; a field without bits has an implied value.           *)
(***************************************************************************)
EXTENDS Integers, Sequences, FiniteSets
LOCAL INSTANCE FiniteSetsExt

Field(type, bits, val) == [type |-> type, bits |-> bits, val |-> val]
Literal(bits, val) == Field("literal", bits, val)
Read(type, bits) == Field(type, bits, 0)
Implied(type, val) == Field(type, 0, val)

W == Read("w", 1)
D == Read("d", 1)
S == Read("s", 1)
Z == Read("z", 1)
V == Read("v", 1)
MOD == Read("mod", 2)
REG == Read("reg", 3)
RM == Read("rm", 3)
SR == Read("sr", 2)

DISP == <<Implied("disp", 0)>>
ADDR == DISP \o <<Implied("disp_always_w", 1)>>
DATA == <<Implied("data", 0)>>
DataIfW == DATA \o <<Implied("data_w_if_w", 1)>>
Relative == <<Implied("jmp_rel_disp", 1)>>
FAR == <<Implied("far", 1)>>
ToReg == <<Implied("d", 1)>>
ToRm == <<Implied("d", 0)>>
Wide == <<Implied("w", 1)>>
Accumulator == <<Implied("reg", 0)>>
Direct == <<Implied("mod", 0), Implied("rm", 6)>>
PortInDx == <<Implied("mod", 3), Implied("rm", 2), Implied("rm_always_w", 1)>>

\* Bits by their position in the word that the first two bytes make: fields go
\* from the highest bit of a byte to the lowest.
Bit(n, k) == (n \div 2 ^ k) % 2
Position(i) == 8 * (i \div 8) + (7 - (i % 8))

\* The first bit of field k.
Start(fields, k) ==
    Cardinality({b \in (1..(k - 1)) \X (1..8) : b[2] <= fields[b[1]].bits})

LiteralBits(fields) ==
    LET literals == {k \in 1..Len(fields) : fields[k].type = "literal"}
    IN  UNION {{<<Position(Start(fields, k) + j),
                  Bit(fields[k].val, fields[k].bits - 1 - j)>> :
                j \in 0..(fields[k].bits - 1)} : k \in literals}

Row(op, fields) ==
    [op |-> op,
     fields |-> {[type |-> fields[k].type, bits |-> fields[k].bits,
                  val |-> fields[k].val, start |-> Start(fields, k)] :
                 k \in 1..Len(fields)},
     literals |-> LiteralBits(fields)]
Byte(op, code) == Row(op, <<Literal(8, code)>>)
\* Group k of a first byte that several instructions share.
InGroup(op, first, k, rest) ==
    Row(op, first \o <<MOD, Literal(3, k), RM>> \o rest)

\* add, or, adc, sbb, and, sub, xor, cmp: number k in this order.
BinaryRows(op, k) ==
    << Row(op, <<Literal(6, 2 * k), D, W, MOD, REG, RM>>),
       InGroup(op, <<Literal(6, 32), S, W>>, k, DataIfW \o ToRm),
       Row(op, <<Literal(7, 4 * k + 2), W>> \o DataIfW \o Accumulator \o ToReg) >>

UnaryRow(op, k) == InGroup(op, <<Literal(7, 123), W>>, k, ToRm)
ShiftRow(op, k) == InGroup(op, <<Literal(6, 52), V, W>>, k, ToRm)
PointerRow(op, k, far) == InGroup(op, <<Literal(8, 255)>>, k, ToRm \o Wide \o far)
LoadRow(op, code) == Row(op, <<Literal(8, code), MOD, REG, RM>> \o ToReg \o Wide)
StringRow(op, code) == Row(op, <<Literal(7, code), W>>)
RelativeRow(op, code) == Row(op, <<Literal(8, code)>> \o DISP \o Relative)
FarRow(op, code) == Row(op, <<Literal(8, code)>> \o ADDR \o DataIfW \o Wide)

\* The flags of the instruction k are tested by the jump 112 + k.
JumpNames == <<"jo", "jno", "jb", "jae", "je", "jne", "jbe", "ja",
               "js", "jns", "jp", "jnp", "jl", "jge", "jle", "jg">>

MovRows ==
    << Row("mov", <<Literal(6, 34), D, W, MOD, REG, RM>>),
       InGroup("mov", <<Literal(7, 99), W>>, 0, DataIfW \o ToRm),
       Row("mov", <<Literal(4, 11), W, REG>> \o DataIfW \o ToReg),
       Row("mov", <<Literal(7, 80), W>> \o ADDR \o Accumulator \o ToReg \o Direct),
       Row("mov", <<Literal(7, 81), W>> \o ADDR \o Accumulator \o ToRm \o Direct),
       Row("mov", <<Literal(6, 35), D, Literal(1, 0), MOD, Literal(1, 0), SR, RM>>
                  \o Wide) >>

StackRows ==
    << InGroup("push", <<Literal(8, 255)>>, 6, Wide \o ToRm),
       Row("push", <<Literal(5, 10), REG>> \o Wide \o ToReg),
       Row("push", <<Literal(3, 0), SR, Literal(3, 6)>> \o Wide \o ToReg),
       InGroup("pop", <<Literal(8, 143)>>, 0, Wide \o ToRm),
       Row("pop", <<Literal(5, 11), REG>> \o Wide \o ToReg),
       Row("pop", <<Literal(3, 0), SR, Literal(3, 7)>> \o Wide \o ToReg) >>

TransferRows ==
    << Row("xchg", <<Literal(7, 67), W, MOD, REG, RM>> \o ToReg),
       Row("xchg", <<Literal(5, 18), REG>> \o Wide
                   \o <<Implied("mod", 3), Implied("rm", 0)>> \o ToRm),
       Row("in", <<Literal(7, 114), W>> \o DATA \o Accumulator \o ToReg),
       Row("in", <<Literal(7, 118), W>> \o Accumulator \o PortInDx \o ToReg),
       Row("out", <<Literal(7, 115), W>> \o DATA \o Accumulator \o ToRm),
       Row("out", <<Literal(7, 119), W>> \o Accumulator \o PortInDx \o ToRm),
       Byte("xlat", 215),
       LoadRow("lea", 141), LoadRow("lds", 197), LoadRow("les", 196),
       Byte("lahf", 159), Byte("sahf", 158), Byte("pushf", 156), Byte("popf", 157) >>

ArithmeticRows ==
    BinaryRows("add", 0) \o BinaryRows("adc", 2)
    \o << InGroup("inc", <<Literal(7, 127), W>>, 0, ToRm),
          Row("inc", <<Literal(5, 8), REG>> \o Wide \o ToReg),
          Byte("aaa", 55), Byte("daa", 39) >>
    \o BinaryRows("sub", 5) \o BinaryRows("sbb", 3)
    \o << InGroup("dec", <<Literal(7, 127), W>>, 1, ToRm),
          Row("dec", <<Literal(5, 9), REG>> \o Wide \o ToReg),
          UnaryRow("neg", 3) >>
    \o BinaryRows("cmp", 7)
    \o << Byte("aas", 63), Byte("das", 47), UnaryRow("mul", 4),
          UnaryRow("imul", 5), UnaryRow("div", 6), UnaryRow("idiv", 7),
          Row("aam", <<Literal(8, 212), Literal(8, 10)>>),
          Row("aad", <<Literal(8, 213), Literal(8, 10)>>),
          Byte("cbw", 152), Byte("cwd", 153) >>

LogicRows ==
    << UnaryRow("not", 2), ShiftRow("shl", 4), ShiftRow("shr", 5),
       ShiftRow("sar", 7), ShiftRow("rol", 0), ShiftRow("ror", 1),
       ShiftRow("rcl", 2), ShiftRow("rcr", 3) >>
    \o BinaryRows("and", 4)
    \o << Row("test", <<Literal(7, 66), W, MOD, REG, RM>>),
          InGroup("test", <<Literal(7, 123), W>>, 0, DataIfW \o ToRm),
          Row("test", <<Literal(7, 84), W>> \o DataIfW \o Accumulator \o ToReg) >>
    \o BinaryRows("or", 1) \o BinaryRows("xor", 6)

PrefixAndStringRows ==
    << Row("rep", <<Literal(7, 121), Z>>), Byte("lock", 240),
       Row("segment", <<Literal(3, 1), SR, Literal(3, 6)>> \o ToReg),
       StringRow("movs", 82), StringRow("cmps", 83), StringRow("scas", 87),
       StringRow("lods", 86), StringRow("stos", 85) >>

TransferOfControlRows ==
    << Row("call", <<Literal(8, 232)>> \o ADDR \o Relative),
       PointerRow("call", 2, <<>>), FarRow("call", 154), PointerRow("call", 3, FAR),
       Row("jmp", <<Literal(8, 233)>> \o ADDR \o Relative),
       RelativeRow("jmp", 235), PointerRow("jmp", 4, <<>>), FarRow("jmp", 234),
       PointerRow("jmp", 5, FAR),
       Byte("ret", 195), Row("ret", <<Literal(8, 194)>> \o DataIfW \o Wide),
       Row("retf", <<Literal(8, 203)>> \o FAR),
       Row("retf", <<Literal(8, 202)>> \o DataIfW \o Wide \o FAR) >>
    \o [k \in 1..16 |-> RelativeRow(JumpNames[k], 111 + k)]
    \o << RelativeRow("loop", 226), RelativeRow("loopz", 225),
          RelativeRow("loopnz", 224), RelativeRow("jcxz", 227),
          Row("int", <<Literal(8, 205)>> \o DATA),
          Byte("int3", 204), Byte("into", 206), Byte("iret", 207) >>

ControlRows ==
    << Byte("clc", 248), Byte("cmc", 245), Byte("stc", 249), Byte("cld", 252),
       Byte("std", 253), Byte("cli", 250), Byte("sti", 251), Byte("hlt", 244),
       Byte("wait", 155),
       Row("esc", <<Literal(5, 27), Read("ext_opcode_lo", 3), MOD,
                    Read("ext_opcode_hi", 3), RM>> \o DISP \o ToReg),
       Byte("nop", 144) >>

\* Where encodings overlap, the later one counts: they are in the code's order.
Rows == MovRows \o StackRows \o TransferRows \o ArithmeticRows \o LogicRows
        \o PrefixAndStringRows \o TransferOfControlRows \o ControlRows

---------------------------------------------------------------------------
(* The table of the encodings list, a set of rows.                         *)

Mask(list) == {b[1] : b \in UNION {Rows[r].literals : r \in list}}

\* Where press_down_masked_bits puts the bit at a position of the mask.
Rank(mask, position) == Cardinality({p \in mask : p < position})

\* The number of an entry, as the set of its bits that are one.
press_down_masked_bits(word, mask) ==
    {p[2] : p \in {q \in mask : Bit(word, q[1]) = 1}}

\* id_mask and id_val.
\* FAULTY: the bits of an entry's number are not pressed together.
IdBitsUnpressed(mask, r) == Rows[r].literals
IdBits(mask, r) == {<<Rank(mask, b[1]), b[2]>> : b \in Rows[r].literals}

build_instruction_table(list) ==
    LET mask == Mask(list)
    IN  [mask |-> {<<p, Rank(mask, p)>> : p \in mask},
         rows |-> {[row |-> r, id |-> IdBits(mask, r)] : r \in list}]

\* The rows fill their entries one after the other; 0 is none.
Entry(table, id) ==
    LET filled == {x \in table.rows : \A b \in x.id : (b[1] \in id) <=> b[2] = 1}
    IN  Max({0} \cup {x.row : x \in filled})
=============================================================================
