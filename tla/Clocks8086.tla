----------------------------- MODULE Clocks8086 -----------------------------
(***************************************************************************)
(* How many clocks an instruction takes: the estimate that the trace adds  *)
(* up (clocks.cpp), from the decoded instruction and from what its         *)
(* execution has left in instruction_metadata_t, which is the record x:    *)
(* how often a string instruction was repeated, whether a jump was taken,  *)
(* the second operand, and the transfers of words.                         *)
(***************************************************************************)
EXTENDS Decoder8086

estimate_ea_clocks(ea) ==
    IF ea.base = "direct" THEN 6
    ELSE (CASE ea.base \in {"bp_di", "bx_si"} -> 7
            [] ea.base \in {"bp_si", "bx_di"} -> 8
            [] OTHER -> 5)
         + (IF ea.disp # 0 THEN 4 ELSE 0)

\* An operand that is not there is zero, and so is the address read from it.
EA(o) == estimate_ea_clocks(IF o.type = "mem" THEN o ELSE Mem("bx_si", 0))

operand_is_seg_reg(o) == o.type = "reg" /\ o.reg \in {"cs", "ss", "ds", "es"}

operands_are_acc_and_type(i, type) ==
    LET first == IF InAcc(i.operands[1]) THEN 1 ELSE 2
        acc == i.operands[first]
    IN  InAcc(acc) /\ acc.offset = 0 /\ i.operands[3 - first].type = type

Kinds(i) == <<i.operands[1].type, i.operands[2].type>>

OneOperand(i, reg, mem) ==
    IF i.operands[1].type = "reg" THEN reg ELSE mem + EA(i.operands[1])

\* By the kinds of operands: register and register, and number, and memory;
\* memory and register, and number.
TwoOperand(i, rr, rn, rm, mr, mn) ==
    CASE Kinds(i) = <<"reg", "reg">> -> rr
      [] Kinds(i) = <<"reg", "imm">> -> rn
      [] Kinds(i) = <<"reg", "mem">> -> rm + EA(i.operands[2])
      [] Kinds(i) = <<"mem", "reg">> -> mr + EA(i.operands[1])
      [] OTHER -> mn + EA(i.operands[1])

\* FAULTY: a comparison is taken to write its result.
CompareWrites(i) == TwoOperand(i, 3, 4, 9, 16, 17)
Compare(i) == TwoOperand(i, 3, 4, 9, 9, 10)

MultiplyClocks(i) ==
    LET wide == "w" \in i.flags
        clocks == CASE i.op = "mul" -> IF wide THEN 133 ELSE 77
                    [] i.op = "imul" -> IF wide THEN 154 ELSE 98
                    [] i.op = "div" -> IF wide THEN 162 ELSE 90
                    [] i.op = "idiv" -> IF wide THEN 184 ELSE 112
    IN  OneOperand(i, clocks, clocks + 6)

\* The count of repetitions that string_instruction returns is never stepped.
rep_count(i) == IF "rep" \in i.flags THEN 0 ELSE 1

StringClocks(i) ==
    LET once == [movs |-> 18, cmps |-> 22, scas |-> 15, lods |-> 12, stos |-> 11]
        each == [movs |-> 17, cmps |-> 22, scas |-> 15, lods |-> 13, stos |-> 10]
    IN  IF "rep" \in i.flags THEN 9 + each[i.op] * rep_count(i) ELSE once[i.op]

\* The address of a far pointer in memory is not counted.
JumpClocks(i, reg, near, direct, far, mem) ==
    CASE i.operands[1].type = "reg" -> reg
      [] i.operands[1].type = "imm" -> near
      [] i.operands[1].type = "cs_ip" -> direct
      [] i.operands[1].type = "mem" ->
            IF "far" \in i.flags THEN far ELSE mem + EA(i.operands[1])

Taken(x, yes, no) == IF x.cond_action_happened THEN yes ELSE no

\* The operations with operands, and those without.
OperandClocks(i, x) ==
    CASE i.op = "mov" ->
            IF operands_are_acc_and_type(i, "mem") THEN 10
            ELSE TwoOperand(i, 2, 4, 8, 9, 10)
      [] i.op \in {"push", "pushf"} ->
            IF operand_is_seg_reg(i.operands[1]) THEN 10 ELSE OneOperand(i, 11, 16)
      [] i.op \in {"pop", "popf"} -> OneOperand(i, 8, 17)
      [] i.op = "xchg" ->
            IF operands_are_acc_and_type(i, "reg") /\ "w" \in i.flags THEN 3
            ELSE TwoOperand(i, 4, 0, 17, 17, 0)
      [] i.op \in {"in", "out"} -> IF Kinds(i) = <<"reg", "reg">> THEN 8 ELSE 10
      [] i.op = "lea" -> 2 + EA(i.operands[2])
      [] i.op \in {"lds", "les"} -> 16 + EA(i.operands[2])
      [] i.op \in TwoOperands \ {"cmp", "test"} -> TwoOperand(i, 3, 4, 9, 16, 17)
      [] i.op = "cmp" -> Compare(i)
      [] i.op = "test" ->
            IF operands_are_acc_and_type(i, "imm") THEN 4
            ELSE TwoOperand(i, 3, 5, 9, 11, 11)
      [] i.op \in Multiplicative -> MultiplyClocks(i)
      [] i.op \in {"inc", "dec"} -> OneOperand(i, 4 - i.operands[1].size, 15)
      [] i.op = "neg" -> OneOperand(i, 4, 16)
      [] i.op = "not" -> OneOperand(i, 3, 16)
      [] i.op \in ShiftOps ->
            IF i.operands[2].type = "imm" THEN OneOperand(i, 2, 15)
            ELSE OneOperand(i, 8, 20) + 4 * x.op1_val
      [] i.op \in StringOps -> StringClocks(i)
      [] i.op = "call" -> JumpClocks(i, 16, 19, 28, 37, 21)
      [] i.op = "jmp" -> JumpClocks(i, 11, 15, 15, 24, 18)
      [] i.op = "ret" -> IF i.operand_cnt > 0 THEN 12 ELSE 8
      [] i.op = "retf" -> IF i.operand_cnt > 0 THEN 17 ELSE 18
      [] i.op = "esc" ->
            IF i.operands[2].type = "mem" THEN 8 + EA(i.operands[2]) ELSE 2

BareClocks(i, x) ==
    CASE i.op = "xlat" -> 11
      [] i.op \in {"lahf", "sahf", "aaa", "daa", "aas", "das"} -> 4
      [] i.op \in {"cbw", "clc", "stc", "cmc", "cld", "std", "cli", "sti", "hlt"} -> 2
      [] i.op = "aam" -> 83
      [] i.op = "aad" -> 60
      [] i.op = "cwd" -> 5
      [] i.op = "int" -> 51
      [] i.op = "int3" -> 52
      [] i.op = "into" -> Taken(x, 53, 4)
      [] i.op = "iret" -> 24
      [] i.op = "loop" -> Taken(x, 17, 5)
      [] i.op = "loopnz" -> Taken(x, 19, 5)
      [] i.op \in {"loopz", "jcxz"} -> Taken(x, 18, 6)
      [] i.op \in Jumps \ {"loop", "loopnz", "loopz", "jcxz"} -> Taken(x, 16, 4)
      [] i.op = "wait" -> 3 + 5 * x.wait_n
      [] i.op = "nop" -> 3

HasOperandClocks(i) ==
    i.op \notin (BareOps \ {"pushf", "popf"}) \cup Jumps \cup {"int"}

TransferClocks(x, proc_type) ==
    4 * (IF proc_type = "8086" THEN x.wide_odd_transfer_cnt ELSE x.wide_transfer_cnt)

estimate_instruction_clocks(i, x, proc_type) ==
    2 * Cardinality(i.flags \cap {"rep", "lock", "seg_override"})
    + TransferClocks(x, proc_type)
    + (IF HasOperandClocks(i) THEN OperandClocks(i, x) ELSE BareClocks(i, x))
=============================================================================
