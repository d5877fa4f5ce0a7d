-------------------------- MODULE ManualClocks8086 --------------------------
(***************************************************************************)
(* The clocks of the User's Manual (its table of instructions), by the     *)
(* forms of operands of the opcode map and by the bytes, and what the      *)
(* estimate is where it departs from them.                                 *)
(***************************************************************************)
EXTENDS OpcodeMap8086, Clocks8086

CONSTANT Executions     \* what executions leave, and how often they repeated

InMemory == FormsOf(Map) \cap Addressed # {} /\ Mod # 3
MapForm(k) == IF k <= Len(Map.forms) THEN Map.forms[k] ELSE "none"
ToMemory == InMemory /\ MapForm(1) \in Addressed
Immediate == FormsOf(Map) \cap {"Ib", "Iw", "Is"} # {}
WithAccumulator == FormsOf(Map) \cap {"AL", "AX"} # {}
IsWord == FormsOf(Map) \cap {"Ew", "Gw", "Zw", "AX"} # {}

\* Of the address: a base or an index, both, and a displacement that is there.
AddressClocks ==
    CASE Mod = 0 /\ Low = 6 -> 6
      [] Mod = 0 /\ Low # 6 -> <<7, 8, 8, 7, 5, 5, 5, 5>>[Low + 1]
      [] OTHER -> <<7, 8, 8, 7, 5, 5, 5, 5>>[Low + 1] + 4

ByPlace(reg, mem) == IF InMemory THEN mem + AddressClocks ELSE reg

\* To a register from one, from memory, from a number; to memory.
ByPlaces(rr, rm, rn, mr, mn) ==
    CASE ToMemory -> AddressClocks + IF Immediate THEN mn ELSE mr
      [] InMemory /\ ~ToMemory -> AddressClocks + rm
      [] ~InMemory -> IF Immediate THEN rn ELSE rr

ManualString(n) ==
    LET k == CHOOSE j \in 1..5 : <<"movs", "cmps", "scas", "lods", "stos">>[j] = Map.op
    IN  IF Repeated THEN 9 + n * <<17, 22, 15, 13, 10>>[k] ELSE <<18, 22, 15, 12, 11>>[k]

\* The operations of the table in its groups.
ManualClocks(x) ==
    LET op == Map.op
    IN  CASE op = "mov" /\ FormsOf(Map) \cap {"Ob", "Ow"} # {} -> 10
          [] op = "mov" /\ FormsOf(Map) \cap {"Ob", "Ow"} = {} -> ByPlaces(2, 8, 4, 9, 10)
          [] op \in {"add", "adc", "sub", "sbb", "and", "or", "xor"} ->
                ByPlaces(3, 9, 4, 16, 17)
          [] op = "cmp" -> ByPlaces(3, 9, 4, 9, 10)
          [] op = "test" -> ByPlaces(3, 9, IF WithAccumulator THEN 4 ELSE 5, 9, 11)
          [] op = "xchg" -> ByPlace(IF WithAccumulator THEN 3 ELSE 4, 17)
          [] op = "push" -> IF "Zs" \in FormsOf(Map) THEN 10 ELSE ByPlace(11, 16)
          [] op = "pop" -> ByPlace(8, 17)
          [] op \in {"inc", "dec"} -> ByPlace(IF IsWord THEN 2 ELSE 3, 15)
          [] op \in {"neg", "not"} -> ByPlace(3, 16)
          [] op \in {"mul", "imul", "div", "idiv"} ->
                LET most == [mul |-> <<77, 133>>, imul |-> <<98, 154>>,
                             div |-> <<90, 162>>, idiv |-> <<112, 184>>][op]
                    clocks == most[IF IsWord THEN 2 ELSE 1]
                IN  ByPlace(clocks, clocks + 6)
          [] op \in {"rol", "ror", "rcl", "rcr", "shl", "shr", "sar"} ->
                IF MapForm(2) = "CL" THEN ByPlace(8, 20) + 4 * x.op1_val ELSE ByPlace(2, 15)
          [] op \in {"lea", "lds", "les"} -> AddressClocks + IF op = "lea" THEN 2 ELSE 16
          [] op \in {"in", "out"} -> IF "DX" \in FormsOf(Map) THEN 8 ELSE 10
          [] op \in StringOps -> ManualString(x.repetitions)
          [] op = "call" -> CASE MapForm(1) = "Ap" -> 28
                              [] MapForm(1) = "Jw" -> 19
                              [] MapForm(1) = "Mp" -> 37 + AddressClocks
                              [] OTHER -> ByPlace(16, 21)
          [] op = "jmp" -> CASE MapForm(1) \in {"Ap", "Jb", "Jw"} -> 15
                             [] MapForm(1) = "Mp" -> 24 + AddressClocks
                             [] OTHER -> ByPlace(11, 18)
          [] op = "ret" -> IF Immediate THEN 12 ELSE 8
          [] op = "retf" -> IF Immediate THEN 17 ELSE 18
          [] op \in {"pushf", "int3", "into", "int", "iret"} ->
                [pushf |-> 10, int3 |-> 52, int |-> 51, iret |-> 24,
                 into |-> Taken(x, 53, 4)][op]
          [] op \in {"popf", "aam", "aad", "cwd", "xlat", "nop"} ->
                [popf |-> 8, aam |-> 83, aad |-> 60, cwd |-> 5, xlat |-> 11, nop |-> 3][op]
          [] bytes[1] \in 112..127 -> Taken(x, 16, 4)
          [] bytes[1] \in 224..227 ->
                LET k == bytes[1] - 223 IN Taken(x, <<19, 18, 17, 18>>[k], <<5, 6, 5, 6>>[k])
          [] op = "wait" -> 3 + 5 * x.wait_n
          [] op \in {"lahf", "sahf", "daa", "das", "aaa", "aas"} -> 4
          [] OTHER -> 2

---------------------------------------------------------------------------
(* The departures.                                                         *)

\* Which register is the accumulator is seen, but not which encoding it is.
AccInSecondByte == WordReg(0) \in {OperandOf(Map, 1), OperandOf(Map, 2)}
                   \/ ByteReg(0) \in {OperandOf(Map, 1), OperandOf(Map, 2)}

\* An address whose displacement is there but zero costs nothing for it.
ZeroDisplacement ==
    IF InMemory /\ Mod \in {1, 2} /\ EffectiveAddress.disp = 0 THEN 4 ELSE 0

\* What the estimate is in the place of the manual's number.
Estimated(x) ==
    LET op == Map.op
    IN  CASE op = "mov" /\ InMemory /\ ~Immediate /\ AccInSecondByte -> 10
          [] op = "xchg" /\ ~InMemory /\ IsWord /\ AccInSecondByte -> 3
          [] op = "test" /\ ~InMemory /\ Immediate /\ AccInSecondByte -> 4
          [] op = "test" /\ ToMemory /\ ~Immediate ->
                ManualClocks(x) + 2 - ZeroDisplacement
          [] op = "neg" /\ ~InMemory -> 4
          [] op \in {"pushf", "popf"} -> IF op = "pushf" THEN 16 + 7 ELSE 17 + 7
          [] "Mp" \in FormsOf(Map) -> IF op = "call" THEN 37 ELSE 24
          [] op \in StringOps /\ Repeated -> 9
          [] OTHER -> ManualClocks(x) - ZeroDisplacement

(* The clocks of an instruction that is simulated are those of the manual, *)
(* with 2 for each kind of prefix and 4 for each transfer of a word that   *)
(* the bus takes in two (clocks.cpp 49-392), except: no clocks for the     *)
(* repetitions of a string instruction, however many there were            *)
(* (simulator.cpp 716-730), nor for the address of a far pointer; pushf    *)
(* and popf as if they had an operand at [bx+si]; the accumulator's short  *)
(* encodings taken for granted; a test of memory and a neg dearer by a few *)
(* clocks; and a displacement of zero for nothing.                         *)
ClocksDepartWhereKnown ==
    status = "running" /\ bytes # <<>> /\ omitted = {} /\ ~IsPrefix(Map) /\ Legal(Map) =>
        \A x \in Executions, proc_type \in {"8086", "8088"} :
            estimate_instruction_clocks(instr, x, proc_type)
                = Estimated(x) + 2 * Cardinality(PendingLock)
                  + (IF PendingOverride = "max" THEN 0 ELSE 2)
                  + 4 * (IF proc_type = "8086" THEN x.wide_odd_transfer_cnt
                         ELSE x.wide_transfer_cnt)
=============================================================================
