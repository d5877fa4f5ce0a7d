--------------------------- MODULE OpcodeMap8086 ---------------------------
(***************************************************************************)
(* The 8086's instructions by the number of their first byte, as the       *)
(* opcode map of the User's Manual has them, and what the decoder and the  *)
(* validation make of every instruction compared with it.  Nothing of the  *)
(* table of encodings is used here but the names of the operations.        *)
(*                                                                         *)
(* Operands are named as in opcode maps: E is the register or memory of    *)
(* the second byte, G its register, S its segment register, M memory only  *)
(* (Mp: with a far pointer), Z a register in the first byte, I a number,   *)
(* J a displacement, O an address, A a far address; b, w: its size.        *)
(***************************************************************************)
EXTENDS Decoder8086

M(op, forms) == [op |-> op, forms |-> forms]

Binary == <<"add", "or", "adc", "sbb", "and", "sub", "xor", "cmp">>
ShiftNames == <<"rol", "ror", "rcl", "rcr", "shl", "shr", "?", "sar">>
Adjusts == <<"daa", "das", "aaa", "aas">>
UnaryNames == <<"test", "?", "not", "neg", "mul", "imul", "div", "idiv">>

\* The instructions from first on that have no operand.
Row144 == <<"nop", "xchg", "xchg", "xchg", "xchg", "xchg", "xchg", "xchg",
            "cbw", "cwd", "call", "wait", "pushf", "popf", "sahf", "lahf">>
Row164 == <<"movs", "movs", "cmps", "cmps", "test", "test", "stos", "stos",
            "lods", "lods", "scas", "scas">>
Row192 == <<"?", "?", "ret", "ret", "les", "lds", "mov", "mov",
            "?", "?", "retf", "retf", "int3", "int", "into", "iret">>
Row224 == <<"loopnz", "loopz", "loop", "jcxz", "in", "in", "out", "out",
            "call", "jmp", "jmp", "jmp", "in", "in", "out", "out",
            "lock", "?", "rep", "rep", "hlt", "cmc", "?", "?",
            "clc", "stc", "cli", "sti", "cld", "std", "?", "?">>

\* The instruction with the first byte b, and number ext and byte next in the
\* second one.
Manual(b, ext, next) ==
    LET low == b % 8
        sized(byte, word) == IF b % 2 = 0 THEN byte ELSE word
        E == sized("Eb", "Ew")
        G == sized("Gb", "Gw")
        A == sized("AL", "AX")
        I == sized("Ib", "Iw")
        O == sized("Ob", "Ow")
    IN  CASE b < 64 /\ low < 2 -> M(Binary[(b \div 8) + 1], <<E, G>>)
          [] b < 64 /\ low \in 2..3 -> M(Binary[(b \div 8) + 1], <<G, E>>)
          [] b < 64 /\ low \in 4..5 -> M(Binary[(b \div 8) + 1], <<A, I>>)
          [] b < 32 /\ low = 6 -> M("push", <<"Zs">>)
          [] b < 32 /\ low = 7 -> M("pop", <<"Zs">>)
          [] b \in 32..63 /\ low = 6 -> M("segment", <<"Zs">>)
          [] b \in 32..63 /\ low = 7 -> M(Adjusts[(b \div 8) - 3], <<>>)
          [] b \in 64..71 -> M("inc", <<"Zw">>)
          [] b \in 72..79 -> M("dec", <<"Zw">>)
          [] b \in 80..87 -> M("push", <<"Zw">>)
          [] b \in 88..95 -> M("pop", <<"Zw">>)
          [] b \in 112..127 -> M(JumpNames[b - 111], <<"Jb">>)
          [] b \in 128..129 -> M(Binary[ext + 1], <<E, I>>)
          [] b \in 130..131 -> M(Binary[ext + 1], <<E, "Is">>)
          [] b \in 132..133 -> M("test", <<E, G>>)
          [] b \in 134..135 -> M("xchg", <<G, E>>)
          [] b \in 136..137 -> M("mov", <<E, G>>)
          [] b \in 138..139 -> M("mov", <<G, E>>)
          [] b = 140 /\ ext < 4 -> M("mov", <<"Ew", "S">>)
          [] b = 141 -> M("lea", <<"Gw", "M">>)
          [] b = 142 /\ ext < 4 -> M("mov", <<"S", "Ew">>)
          [] b = 143 /\ ext = 0 -> M("pop", <<"Ew">>)
          [] b \in 145..151 -> M("xchg", <<"AX", "Zw">>)
          [] b = 154 -> M("call", <<"Ap">>)
          [] b \in (144..159) \ ((145..151) \cup {154}) -> M(Row144[b - 143], <<>>)
          [] b \in 160..161 -> M("mov", <<A, O>>)
          [] b \in 162..163 -> M("mov", <<O, A>>)
          [] b \in 168..169 -> M("test", <<A, I>>)
          [] b \in (164..175) \ (168..169) -> M(Row164[b - 163], <<>>)
          [] b \in 176..183 -> M("mov", <<"Zb", "Ib">>)
          [] b \in 184..191 -> M("mov", <<"Zw", "Iw">>)
          [] b \in {194, 202} -> M(Row192[b - 191], <<"Iw">>)
          [] b \in 196..197 -> M(Row192[b - 191], <<"Gw", "M">>)
          [] b \in 198..199 /\ ext = 0 -> M("mov", <<E, I>>)
          [] b = 205 -> M("int", <<"Ib">>)
          [] b \in {195, 203, 204, 206, 207} -> M(Row192[b - 191], <<>>)
          [] b \in 208..211 ->
                M(ShiftNames[ext + 1], <<E, IF b < 210 THEN "1" ELSE "CL">>)
          [] b \in 212..213 /\ next = 10 -> M(<<"aam", "aad">>[b - 211], <<"Ib">>)
          [] b = 215 -> M("xlat", <<>>)
          [] b \in 216..223 -> M("esc", <<"Ew">>)
          [] b \in (224..227) \cup {235} -> M(Row224[b - 223], <<"Jb">>)
          [] b \in 228..229 -> M("in", <<A, "Ib">>)
          [] b \in 230..231 -> M("out", <<"Ib", A>>)
          [] b \in 232..233 -> M(Row224[b - 223], <<"Jw">>)
          [] b = 234 -> M("jmp", <<"Ap">>)
          [] b \in 236..237 -> M("in", <<A, "DX">>)
          [] b \in 238..239 -> M("out", <<"DX", A>>)
          [] b \in (240..253) \ (246..247) -> M(Row224[b - 223], <<>>)
          [] b \in 246..247 -> M(UnaryNames[ext + 1], IF ext = 0 THEN <<E, I>> ELSE <<E>>)
          [] b \in 254..255 /\ ext < 2 -> M(<<"inc", "dec">>[ext + 1], <<E>>)
          [] b = 255 /\ ext \in {2, 4} -> M(<<"call", "jmp">>[ext \div 2], <<"Ew">>)
          [] b = 255 /\ ext \in {3, 5} -> M(<<"call", "jmp">>[ext \div 2], <<"Mp">>)
          [] b = 255 /\ ext = 6 -> M("push", <<"Ew">>)
          [] OTHER -> M("?", <<>>)

---------------------------------------------------------------------------
(* Lengths and operands.                                                   *)

InSecondByte == {"Eb", "Ew", "Gb", "Gw", "S", "M", "Mp"}
Addressed == {"Eb", "Ew", "M", "Mp"}

Map == Manual(bytes[1], (bytes[2] \div 8) % 8, bytes[2])

Mod == bytes[2] \div 64
Middle == (bytes[2] \div 8) % 8
Low == bytes[2] % 8

WordAt(k) == bytes[k] + 256 * bytes[k + 1]

\* A byte as a word of the same sign.  The processor extends the byte of 83 and of
\* the jumps; that of 82, an operation on bytes, the decoder alone (decoder.cpp
\* 20-21).  It is accepted here; ManualOperands8086 has what comes of it
\* (Stretched).
ByteToWord(byte) == IF byte < 128 THEN byte ELSE byte + 65280

FormsOf(m) == {m.forms[k] : k \in 1..Len(m.forms)}
HasModByte(m) == FormsOf(m) \cap InSecondByte # {}

Displacement(m) ==
    CASE FormsOf(m) \cap Addressed = {} \/ Mod = 3 -> 0
      [] Mod = 0 -> IF Low = 6 THEN 2 ELSE 0
      [] OTHER -> Mod

\* Where a number begins, and its bytes.
NumberAt(m) == 2 + (IF HasModByte(m) THEN 1 ELSE 0) + Displacement(m)
NumberBytes(form) ==
    CASE form \in {"Ib", "Is", "Jb"} -> 1
      [] form \in {"Iw", "Jw", "Ob", "Ow"} -> 2
      [] form = "Ap" -> 4
      [] OTHER -> 0
Length(m) ==
    NumberAt(m) - 1 + (IF Len(m.forms) > 0 THEN NumberBytes(m.forms[1]) ELSE 0)
    + (IF Len(m.forms) > 1 THEN NumberBytes(m.forms[2]) ELSE 0)

WordRegisters == <<"a", "c", "d", "b", "sp", "bp", "si", "di">>
ByteReg(k) == Reg(WordRegisters[(k % 4) + 1], IF k < 4 THEN 0 ELSE 1, 1)
WordReg(k) == Reg(WordRegisters[k + 1], 0, 2)
SegReg(k) == Reg(<<"es", "cs", "ss", "ds">>[k + 1], 0, 2)

EffectiveAddress ==
    LET base == <<"bx_si", "bx_di", "bp_si", "bp_di", "si", "di", "bp", "bx">>[Low + 1]
    IN  CASE Mod = 0 /\ Low = 6 -> Mem("direct", WordAt(3))
          [] Mod = 0 /\ Low # 6 -> Mem(base, 0)
          [] Mod = 1 -> Mem(base, ByteToWord(bytes[3]))
          [] OTHER -> Mem(base, WordAt(3))

Operand(m, form) ==
    LET at == NumberAt(m)
    IN  CASE form \in Addressed /\ Mod # 3 -> EffectiveAddress
          [] form = "Eb" /\ Mod = 3 -> ByteReg(Low)
          [] form \in Addressed \ {"Eb"} /\ Mod = 3 -> WordReg(Low)
          [] form = "Gb" -> ByteReg(Middle)
          [] form = "Gw" -> WordReg(Middle)
          [] form = "S" -> SegReg(Middle)
          [] form = "Zb" -> ByteReg(bytes[1] % 8)
          [] form = "Zw" -> WordReg(bytes[1] % 8)
          [] form = "Zs" -> SegReg((bytes[1] \div 8) % 4)
          [] form = "AL" -> ByteReg(0)
          [] form = "AX" -> WordReg(0)
          [] form = "CL" -> ByteReg(1)
          [] form = "DX" -> WordReg(2)
          [] form = "1" -> Imm(1)
          [] form = "Ib" -> Imm(bytes[at])
          [] form \in {"Is", "Jb"} -> Imm(ByteToWord(bytes[at]))
          [] form \in {"Iw", "Jw"} -> Imm(WordAt(at))
          [] form \in {"Ob", "Ow"} -> Mem("direct", WordAt(at))
          [] form = "Ap" -> CsIp(WordAt(at), WordAt(at + 2))

\* aam and aad have a number that is part of the operation.
OperandOf(m, k) ==
    IF k > Len(m.forms) \/ m.op \in {"aam", "aad"} THEN None
    ELSE Operand(m, m.forms[k])

MemoryIsWide(m) == FormsOf(m) \cap {"Ew", "Ow", "M", "Mp"} # {}

---------------------------------------------------------------------------
(* Prefixes, as the bytes before an instruction say.                       *)

Locking == {k \in 1..Len(prefixes) : prefixes[k] \in {240, 242, 243}}
Overriding == {k \in 1..Len(prefixes) : prefixes[k] \in {38, 46, 54, 62}}
Latest(ks) == CHOOSE k \in ks : \A j \in ks : j <= k

\* lock and rep exclude each other: the later one counts.
PendingLock ==
    IF Locking = {} THEN {}
    ELSE IF prefixes[Latest(Locking)] = 240 THEN {"lock"} ELSE {"rep"}
PendingOverride ==
    IF Overriding = {} THEN "max"
    ELSE SegReg((prefixes[Latest(Overriding)] \div 8) % 4).reg

\* The manual has the last rep decide; here a repz counts until a lock.
PendingZ ==
    \E k \in Locking : /\ prefixes[k] = 243
                       /\ \A j \in Locking : j > k => prefixes[j] # 240

---------------------------------------------------------------------------
(* Which instructions the manual allows, and where the validation departs. *)

IsPrefix(m) == m.op \in {"lock", "rep", "segment"}

NeedsMemory(m) == FormsOf(m) \cap {"M", "Mp"} # {}
LoadsCs == bytes[1] = 15 \/ (bytes[1] = 142 /\ Middle = 1)
Repeated == "rep" \in PendingLock

Legal(m) ==
    /\ NeedsMemory(m) => Mod # 3
    /\ ~LoadsCs
    /\ Repeated => m.op \in StringOps

\* Accepted although the manual has no such instruction: far jumps through a
\* register, loads of CS, repeated returns.
AcceptedToo(m) ==
    /\ NeedsMemory(m) /\ Mod = 3 => m.op \notin LoadOps
    /\ Repeated => m.op \in StringOps \cup {"ret", "retf"}

\* Rejected although the manual allows it: esc, and a lock or a segment before
\* an instruction without operands, which includes the segment of an xlat.
RejectedToo(m) == m.op = "esc" \/ (m.op \in BareOps /\ prefixes # <<>>)

---------------------------------------------------------------------------
(* Properties.                                                             *)

\* The table built of the literal bits finds, for any first two bytes, the
\* last encoding in the list whose literal bits they have, and none when no
\* encoding has them (encoding.cpp 11-114): whichever instructions the list
\* has, and so whichever bits are pressed together.
TableFindsEncoding ==
    bytes # <<>> =>
        LET word == bytes[1] + 256 * bytes[2]
            matching == {r \in Listed(omitted) : \A b \in Rows[r].literals : Bit(word, b[1]) = b[2]}
        IN  IF matching = {} THEN Found(omitted, bytes) = 0
            ELSE Found(omitted, bytes) = Latest(matching)

\* An instruction is decoded with the prefixes right before it, and with no
\* others (decoder.cpp 141-166): the latest of the locks and repetitions, the
\* latest segment, wherever they stand in the run of prefixes.
HasItsPrefixes ==
    instr.op # "invalid" =>
        /\ instr.flags \cap {"lock", "rep"} = PendingLock
        /\ instr.segment_override = PendingOverride
        /\ "seg_override" \in instr.flags <=> Overriding # {}
        /\ "z" \in instr.flags <=> PendingZ \/ bytes[1] = 243

\* An instruction of the opcode map, and no other, is decoded (decoder.cpp
\* 26-148): as the same operation, with the same length, the same operands in
\* the same order, with numbers extended to words alike, and with the size of
\* its memory operand, the kind of its jump and the prefixes before it.  Only
\* esc departs: its operands are not compared, and it is one byte longer where
\* it has no displacement.
DecodesAsManual ==
  /\ HasItsPrefixes
  /\ bytes # <<>> /\ omitted = {} =>
        LET m == Map
            own == instr.flags \ {"lock", "rep", "seg_override"}
        IN  IF m.op = "?" THEN instr.op = "invalid"
            ELSE /\ instr.op = m.op
                 /\ m.op = "esc" =>
                        instr.size = Length(m) + (IF Displacement(m) = 0 THEN 1 ELSE 0)
                 /\ m.op # "esc" =>
                        /\ instr.size = Length(m)
                        /\ \A k \in 1..2 : instr.operands[k] = OperandOf(m, k)
                        /\ (\E k \in 1..2 : instr.operands[k].type = "mem") =>
                                ("w" \in own <=> MemoryIsWide(m))
                        /\ "far" \in own <=> "Mp" \in FormsOf(m) \/ m.op = "retf"
                        /\ "rel_disp" \in own <=> FormsOf(m) \cap {"Jb", "Jw"} # {}

\* The validation lets through exactly the instructions that the manual allows
\* but for the departures above, with whatever prefixes are pending
\* (validation.cpp 7-256, main.cpp 46-49).
AcceptedWhereLegal ==
    bytes # <<>> /\ instr.op # "invalid" /\ ~IsPrefix(Map) =>
        ((status = "running") <=> (Legal(Map) \/ AcceptedToo(Map)) /\ ~RejectedToo(Map))
=============================================================================
