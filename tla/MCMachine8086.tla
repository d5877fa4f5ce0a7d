--------------------------- MODULE MCMachine8086 ---------------------------
EXTENDS MachineCalls

\* Instructions with the sizes and fields of the instruction table.
I(op, size, operand, imm) ==
    [op |-> op, size |-> size, operand |-> operand, imm |-> imm, cs |-> 0,
     far |-> FALSE, z |-> FALSE]

B(op) == I(op, 1, "none", 0)

CallNear == I("call", 3, "imm", 5)
CallFar == [I("call", 5, "cs_ip", 0) EXCEPT !.cs = 1]
CallMem == I("call", 2, "mem", 0)
CallFarMem == [CallMem EXCEPT !.far = TRUE]
IntN == I("int", 2, "imm", 3)
Div == I("div", 2, "reg", 0)
PushCx == I("push", 1, "reg", 0)
PopCx == I("pop", 1, "reg", 0)
Mov == I("compute", 2, "reg", 0)
Load == I("compute", 4, "mem", 0)
JmpReg == I("jmp", 2, "reg", 0)
JmpOutside == [I("jmp", 5, "cs_ip", 65535) EXCEPT !.cs = 65535]
Repz == [B("rep") EXCEPT !.z = TRUE]
Segment == I("segment", 1, "reg", 0)

\* A main program at 0, a near routine at 8 and a far one at 16, each made of
\* alternatives; vectors lead to 0, 1, 16 and 17.
MCProgram == [a \in 0..17 |->
    CASE a = 0 -> {CallNear, CallFar, Div, PushCx, B("rep")}
      [] a = 1 -> {B("lock"), Repz, B("scas"), B("movs"), CallMem, PopCx,
                   B("popf"), Mov, B("iret")}
      [] a = 2 -> {B("into"), B("scas"), I("jcxz", 2, "imm", 1), Segment}
      [] a = 3 -> {CallFarMem, I("loopnz", 2, "imm", 0)}
      [] a = 4 -> {I("jmp", 2, "mem", 0), B("ret")}
      [] a = 5 -> {B("cmc"), B("hlt")}
      [] a = 6 -> {I("jae", 2, "imm", 10), Load, JmpReg, JmpOutside}
      [] a = 8 -> {B("ret"), I("ret", 3, "imm", 2), B("retf"), PushCx, IntN}
      [] a \in {9, 10} -> {PopCx, B("ret"), B("iret"), Segment}
      [] a = 16 -> {B("retf"), B("iret"), B("ret"), B("nop"), B("pushf")}
      [] a = 17 -> {B("iret"), B("popf"), B("retf")}
      [] OTHER -> {}]

\* Load a register, jump where it points.
MCRegisterProgram == [a \in 0..3 |->
    CASE a = 0 -> {Mov} [] a = 2 -> {JmpReg} [] OTHER -> {}]

\* Words below SP are not read before they are overwritten.
Live ==
    <<[machine EXCEPT !.mem = [c \in {d \in Cells : 0 < machine.sp /\ machine.sp <= d}
                               |-> machine.mem[c]]],
      ctx, prefix_bytes, traced, status, stop_on_ret, entries, lost>>

\* What a lost program does is not followed further, nor one that counts CX
\* down below 65535.
Followed == ~lost /\ machine.cx \in {0, 1, 65535}

MCComputedFlags == {0, ZF + OF}
=============================================================================
