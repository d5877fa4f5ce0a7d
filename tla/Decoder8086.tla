---------------------------- MODULE Decoder8086 ----------------------------
(***************************************************************************)
(* How bytes become instructions: the decoder (decoder.cpp), the           *)
(* validation of what it decodes (validation.cpp) and the loop that passes *)
(* the pending prefixes from one to the other (main.cpp).  Machine8086     *)
(* starts where this ends, with instructions.                              *)
(*                                                                         *)
(* Words are numbers of 16 bits: a displacement is a word, too, with the   *)
(* bits of the i16 of the code.  Bytes the decoder reads past an           *)
(* instruction play no part and are there to be read.                      *)
(***************************************************************************)
EXTENDS Encoding8086
LOCAL INSTANCE FiniteSetsExt

CONSTANTS
    Omissions,          \* the sets of operations a table may be built without
    Streams(_, _)       \* the bytes tried after an instruction and its prefixes

VARIABLES
    omitted,    \* the operations that the table of this build is without
    ahead,      \* the bytes in memory from ip on
    bytes,      \* the bytes at the instruction decoded last
    instr,      \* the instruction decoded last
    ctx,        \* decoder_context_t
    prefixes,   \* history: the first bytes of the prefixes before instr
    status      \* of decode_and_process_instructions

vars == <<omitted, ahead, bytes, instr, ctx, prefixes, status>>

---------------------------------------------------------------------------
(* Operands.                                                               *)

None == [type |-> "none"]
Reg(reg, offset, size) ==
    [type |-> "reg", reg |-> reg, offset |-> offset, size |-> size]
Mem(base, disp) == [type |-> "mem", base |-> base, disp |-> disp]
Imm(val) == [type |-> "imm", imm |-> val]
CsIp(disp, data) == [type |-> "cs_ip", cs |-> data, ip |-> disp]

get_reg_operand(reg, wide) ==
    IF wide THEN Reg(<<"a", "c", "d", "b", "sp", "bp", "si", "di">>[reg + 1], 0, 2)
    ELSE Reg(<<"a", "c", "d", "b">>[(reg % 4) + 1], reg \div 4, 1)

get_segreg_operand(sr) == Reg(<<"es", "cs", "ss", "ds">>[sr + 1], 0, 2)

get_rm_operand(mod, rm, wide, disp) ==
    CASE mod = 3 -> get_reg_operand(rm, wide)
      [] mod = 0 /\ rm = 6 -> Mem("direct", disp)
      [] OTHER -> Mem(<<"bx_si", "bx_di", "bp_si", "bp_di",
                        "si", "di", "bp", "bx">>[rm + 1], disp)

---------------------------------------------------------------------------
(* Decoding.                                                               *)

Unknown == [op |-> "invalid", size |-> 0, flags |-> {},
            operands |-> <<None, None>>, operand_cnt |-> 0, segment_override |-> "max"]

\* The tables of the code and of what it would be without some operations.
Listed(o) == {r \in 1..Len(Rows) : Rows[r].op \notin o}
Tables == {[without |-> o, table |-> build_instruction_table(Listed(o))] :
             o \in Omissions}

\* The row found for the bytes b in the table without o, or 0.
FoundIn(table, word) == Entry(table, press_down_masked_bits(word, table.mask))
Found(o, b) ==
    FoundIn((CHOOSE t \in Tables : t.without = o).table, b[1] + 256 * b[2])

FieldTypes == {"w", "d", "s", "z", "v", "mod", "reg", "rm", "sr", "disp",
               "disp_always_w", "data", "data_w_if_w", "rm_always_w",
               "jmp_rel_disp", "far", "ext_opcode_lo", "ext_opcode_hi"}

FieldValue(field, b) ==
    LET byte == b[1 + (field.start \div 8)]
    IN  IF field.bits = 0 THEN field.val
        ELSE (byte \div 2 ^ (8 - (field.start % 8) - field.bits)) % (2 ^ field.bits)

Has(row, type) == \E field \in row.fields : field.type = type

fields(row, b) ==
    [type \in FieldTypes |->
        IF ~Has(row, type) THEN 0
        ELSE FieldValue(CHOOSE field \in row.fields : field.type = type, b)]

\* The bytes that the fields take.
FieldBytes(row) == Max({field.start + field.bits : field \in row.fields}) \div 8

DataSize(has_data, is_wide) == IF ~has_data THEN 0 ELSE IF is_wide THEN 2 ELSE 1

\* FAULTY: a byte is never extended by its sign.
parse_data_value_unsigned(b, offset, size, is_sign_extended) ==
    CASE size = 0 -> 0
      [] size = 1 -> b[offset + 1]
      [] size = 2 -> 256 * b[offset + 2] + b[offset + 1]
parse_data_value(b, offset, size, is_sign_extended) ==
    CASE size = 0 -> 0
      [] size = 1 -> IF is_sign_extended /\ b[offset + 1] > 127
                     THEN 65280 + b[offset + 1] ELSE b[offset + 1]
      [] size = 2 -> 256 * b[offset + 2] + b[offset + 1]

HasDirectAddress(f) == f["mod"] = 0 /\ f["rm"] = 6

DispSize(row, f) ==
    DataSize(Has(row, "disp") \/ f["mod"] \in {1, 2} \/ HasDirectAddress(f),
             f["mod"] = 2 \/ HasDirectAddress(f) \/ f["disp_always_w"] = 1)

ImmSize(row, f) ==
    DataSize(Has(row, "data"), f["w"] = 1 /\ f["s"] = 0 /\ f["data_w_if_w"] = 1)

\* The operand from the field reg, sr or ext_opcode, and the one from rm.
RegOperand(row, f) ==
    CASE Has(row, "ext_opcode_lo") -> Imm(8 * f["ext_opcode_hi"] + f["ext_opcode_lo"])
      [] Has(row, "sr") -> get_segreg_operand(f["sr"])
      [] Has(row, "reg") -> get_reg_operand(f["reg"], f["w"] = 1)
      [] OTHER -> None
RmOperand(row, f, disp) ==
    IF ~Has(row, "rm") THEN None
    ELSE get_rm_operand(f["mod"], f["rm"], f["w"] = 1 \/ f["rm_always_w"] = 1, disp)

\* The operand that takes a free place.
FreeOperand(row, f, disp, data) ==
    CASE Has(row, "disp") /\ Has(row, "data") /\ ~Has(row, "mod") -> CsIp(disp, data)
      [] Has(row, "data") /\ (Has(row, "disp") => Has(row, "mod")) -> Imm(data)
      [] ~Has(row, "data") /\ Has(row, "v") ->
            IF f["v"] = 1 THEN get_reg_operand(1, FALSE) ELSE Imm(1)
      [] ~Has(row, "data") /\ ~Has(row, "v") /\ f["jmp_rel_disp"] = 1 -> Imm(disp)
      [] OTHER -> None

Operands(row, f, disp, data) ==
    LET reg == RegOperand(row, f)
        rm == RmOperand(row, f, disp)
        two == IF f["d"] = 1 THEN <<reg, rm>> ELSE <<rm, reg>>
        free == FreeOperand(row, f, disp, data)
    IN  CASE two[1] = None -> <<free, two[2]>>
          [] two[1] # None /\ two[2] = None -> <<two[1], free>>
          [] OTHER -> two

OperandCount(operands) ==
    IF operands[2] # None THEN 2 ELSE IF operands[1] # None THEN 1 ELSE 0

Flags(f) ==
    {x \in {"w", "s", "z", "far"} : f[x] = 1}
    \cup (IF f["jmp_rel_disp"] = 1 THEN {"rel_disp"} ELSE {})
    \cup (IF f["rm_always_w"] = 1 THEN {"rm_always_w"} ELSE {})

Decoded(row, b, c) ==
    LET f == fields(row, b)
        disp_at == FieldBytes(row)
        data_at == disp_at + DispSize(row, f)
        disp == parse_data_value(b, disp_at, DispSize(row, f), TRUE)
        data == parse_data_value(b, data_at, ImmSize(row, f), f["s"] = 1)
        operands == Operands(row, f, disp, data)
    IN  [op |-> row.op, size |-> data_at + ImmSize(row, f),
         flags |-> Flags(f) \cup c.last_pref, operands |-> operands,
         operand_cnt |-> OperandCount(operands),
         segment_override |-> c.segment_override]

DecodedAt(r, b, c) == IF r = 0 THEN Unknown ELSE Decoded(Rows[r], b, c)
decode_next_instruction(o, b, c) == DecodedAt(Found(o, b), b, c)

instr_is_prefix(i) == i.op \in {"invalid", "lock", "rep", "segment"}

update_decoder_ctx(i, c) ==
    LET others == c.last_pref \ {"lock", "rep", "z"}
    IN  CASE i.op = "lock" -> [c EXCEPT !.last_pref = others \cup {"lock"}]
          [] i.op = "rep" ->
                [c EXCEPT !.last_pref = others \cup {"rep"} \cup (i.flags \cap {"z"})]
          [] i.op = "segment" -> [last_pref |-> c.last_pref \cup {"seg_override"},
                                  segment_override |-> i.operands[1].reg]
          [] OTHER -> [last_pref |-> {}, segment_override |-> "max"]

---------------------------------------------------------------------------
(* Validation.                                                             *)

TwoOperands == {"adc", "add", "sbb", "sub", "cmp", "and", "test", "or", "xor"}
Multiplicative == {"mul", "imul", "div", "idiv"}
InPlace == {"inc", "dec", "neg", "not"}
ShiftOps == {"shl", "shr", "sar", "rol", "ror", "rcl", "rcr"}
LoadOps == {"lea", "lds", "les"}
StringOps == {"movs", "cmps", "scas", "lods", "stos"}
Jumps == {JumpNames[k] : k \in 1..16} \cup {"loop", "loopz", "loopnz", "jcxz"}
BareOps == {"xlat", "lahf", "sahf", "pushf", "popf", "aaa", "aas", "daa", "das",
            "aam", "aad", "cbw", "cwd", "clc", "stc", "cmc", "cld", "std", "cli",
            "sti", "nop", "into", "iret", "int3", "hlt", "wait"}

ValidOperand(o) ==
    /\ o.type # "none"
    /\ o.type = "reg" => o.size = 2 \/ (o.size = 1 /\ o.offset <= 1)

ValidOverride(i) ==
    i.segment_override \in IF "seg_override" \in i.flags
                           THEN {"ds", "ss", "es", "cs"} ELSE {"max"}

Stored(o) == o.type \in {"mem", "reg"}
Without(i, flags) == i.flags \cap flags = {}
Extra == {"z", "rep", "rel_disp", "far", "rm_always_w"}

\* An accumulator, and a port: a number or DX.
InAcc(o) == o.type = "reg" /\ o.reg = "a"
Port(o) == o.type = "imm" \/ (o.type = "reg" /\ o.reg = "d" /\ o.offset = 0)

\* The count of a shift.
OneOrCl(o) ==
    \/ o.type = "imm" /\ o.imm = 1
    \/ o.type = "reg" /\ o = Reg("c", 0, 1)

ValidForOp(i) ==
    LET op0 == i.operands[1]
        op1 == i.operands[2]
        count == i.operand_cnt
    IN  \/ /\ i.op = "mov"
           /\ count = 2 /\ Stored(op0) /\ op1.type # "cs_ip"
           /\ Without(i, {"s"} \cup Extra)
        \/ /\ i.op \in {"push", "pop"}
           /\ count = 1 /\ "w" \in i.flags
           /\ IF i.op = "push" THEN op0.type # "cs_ip" ELSE Stored(op0)
           /\ Without(i, {"s"} \cup Extra)
        \/ /\ i.op = "xchg"
           /\ count = 2 /\ Stored(op0) /\ Stored(op1)
           /\ Without(i, {"s"} \cup Extra)
        \/ /\ i.op \in LoadOps
           /\ count = 2 /\ Stored(op0) /\ op1.type = "mem" /\ "w" \in i.flags
           /\ Without(i, {"s"} \cup Extra)
        \/ /\ i.op \in TwoOperands
           /\ count = 2 /\ Stored(op0) /\ op1.type # "cs_ip"
           /\ Without(i, Extra)
        \/ /\ i.op \in Multiplicative
           /\ count = 1 /\ op0.type # "cs_ip"
           /\ Without(i, {"s"} \cup Extra)
        \/ /\ i.op \in InPlace
           /\ count = 1 /\ Stored(op0)
           /\ Without(i, {"s"} \cup Extra)
        \/ /\ i.op \in ShiftOps
           /\ count = 2 /\ Stored(op0) /\ OneOrCl(op1)
           /\ Without(i, {"s"} \cup Extra)
        \/ /\ i.op \in StringOps
           /\ count = 0
           /\ Without(i, {"s", "rel_disp", "far", "rm_always_w"})
        \/ /\ i.op \in {"call", "jmp"}
           /\ count = 1 /\ (op0.type = "imm" => "rel_disp" \in i.flags)
           /\ Without(i, {"s", "z", "rep", "rm_always_w"})
        \/ /\ i.op \in {"ret", "retf"}
           /\ count <= 1 /\ (count = 1 => op0.type = "imm")
           /\ Without(i, {"rm_always_w"})
        \/ /\ i.op \in Jumps \cup {"int"}
           /\ count = 1 /\ op0.type = "imm"
           /\ Without(i, {"w", "s", "z", "rep", "far", "rm_always_w"})
        \/ /\ i.op \in {"in", "out"}
           /\ count = 2
           /\ IF i.op = "in" THEN InAcc(op0) /\ Port(op1) ELSE Port(op0) /\ InAcc(op1)
           /\ Without(i, {"s", "z", "rep", "rel_disp", "far"})
        \/ /\ i.op = "esc"
           /\ count = 2 /\ op0.type = "imm" /\ op0.imm < 64
           /\ op1.type = "reg" /\ op1.type = "mem"
           /\ i.flags = {}
        \/ /\ i.op \in BareOps
           /\ count = 0 /\ i.flags = {}

\* FAULTY: the flags of the prefixes are not looked at.
validate_instruction_prefixed(i) ==
    \/ instr_is_prefix(i)
    \/ ValidForOp([i EXCEPT !.flags = @ \ {"rep", "z", "lock", "seg_override"}])
validate_instruction(i) ==
    \/ instr_is_prefix(i)
    \/ /\ \A k \in 1..2 : IF k <= i.operand_cnt THEN ValidOperand(i.operands[k])
                          ELSE i.operands[k] = None
       /\ ValidOverride(i)
       /\ ValidForOp(i)

---------------------------------------------------------------------------
(* The loop.                                                               *)

Init ==
    /\ omitted \in Omissions
    /\ ahead \in Streams(<<>>, <<>>)
    /\ bytes = <<>>
    /\ instr = Unknown
    /\ ctx = [last_pref |-> {}, segment_override |-> "max"]
    /\ prefixes = <<>>
    /\ status = "running"

\* History: the prefixes pending when the next instruction is decoded.
Pending ==
    IF instr.op \in {"lock", "rep", "segment"} THEN Append(prefixes, bytes[1]) ELSE <<>>

Decode(i) ==
    /\ status = "running"
    /\ ahead # <<>>
    /\ bytes' = ahead
    /\ ahead' \in Streams(ahead, Pending)
    /\ instr' = i
    /\ prefixes' = Pending
    /\ UNCHANGED omitted

DecodeFails(i) ==
    /\ Decode(i)
    /\ i.op = "invalid"
    /\ status' = "unknown"
    /\ UNCHANGED ctx

Reject(i) ==
    /\ Decode(i)
    /\ i.op # "invalid"
    /\ ~validate_instruction(i)
    /\ status' = "rejected"
    /\ UNCHANGED ctx

Process(i) ==
    /\ Decode(i)
    /\ i.op # "invalid"
    /\ validate_instruction(i)
    /\ ctx' = update_decoder_ctx(i, ctx)
    /\ UNCHANGED status

Next ==
    LET i == decode_next_instruction(omitted, ahead, ctx)
    IN  DecodeFails(i) \/ Reject(i) \/ Process(i)

Spec == Init /\ [][Next]_vars
=============================================================================
