---------------------------- MODULE MachineCalls ----------------------------
(***************************************************************************)
(* The 8086 simulator with a record of what its program put on the stack.  *)
(* The words the machine keeps in memory, and SP, implement a CallStack    *)
(* for every program that takes off what it put on.                        *)
(***************************************************************************)
EXTENDS Machine8086, Sequences, SequencesExt, FiniteSets

VARIABLES
    entries,    \* what the program put on the stack and did not take off
    lost        \* the program took off something else

callVars == <<vars, entries, lost>>

CallsInit == Init /\ entries = <<>> /\ lost = FALSE

Kept == UNCHANGED <<entries, lost>>

Opened(kind, instr) ==
    /\ entries' = IF lost THEN <<>>
                  ELSE Append(entries,
                    [kind |-> kind, flags |-> machine.flags,
                     at |-> [cs |-> machine.cs,
                             ip |-> Plus(machine.ip, instr.size)]])
    /\ UNCHANGED lost

\* A program keeps its promise if it takes off the kind of entry on top.
Closed(kind) ==
    IF ~lost /\ entries # <<>> /\ Last(entries).kind = kind
    THEN entries' = Front(entries) /\ UNCHANGED lost
    ELSE entries' = <<>> /\ lost' = TRUE

\* The operand of a return is added to IP: with another one than 0 the program
\* does not return to the call, and is lost.
ReturnKind(instr) ==
    IF instr.operand = "imm" /\ instr.imm # 0 THEN "displaced"
    ELSE IF instr.op = "ret" THEN "near" ELSE "far"

CallsStep(instr) ==
    /\ Decodes(instr)
    /\ \/ UncondJump(instr)
          /\ IF instr.op = "jmp" THEN Kept
             ELSE Opened(IF IsFar(instr) THEN "far" ELSE "near", instr)
       \/ (Interrupt(instr) \/ DivideThrows(instr))
          /\ Opened("interrupt", instr)
       \/ Pushf(instr) /\ Opened("flags", instr)
       \/ Push(instr) /\ Opened("data", instr)
       \/ Return(instr) /\ Closed(ReturnKind(instr))
       \/ Iret(instr) /\ Closed("interrupt")
       \/ Popf(instr) /\ Closed("flags")
       \/ Pop(instr) /\ Closed("data")
       \/ (\/ Prefix(instr) \/ JumpFails(instr) \/ CondJump(instr)
           \/ CountJump(instr) \/ ReturnStops(instr) \/ NoOverflow(instr)
           \/ Divide(instr) \/ Compute(instr) \/ OperandFails(instr)
           \/ String(instr) \/ FlagOp(instr) \/ Nop(instr) \/ Halt(instr))
          /\ Kept

CallsNext ==
    \/ \E instr \in Instructions : CallsStep(instr)
    \/ (Finish \/ DecodeFails \/ DecodeAborts) /\ Kept

CallsSpec == CallsInit /\ [][CallsNext]_callVars

---------------------------------------------------------------------------
Stack == INSTANCE CallStack WITH
    Longest <- 6,
    at <- [cs |-> machine.cs, ip |-> machine.ip],
    flags <- machine.flags

\* Every call, interrupt and exception comes back to where it came from, with
\* the right code segment and flags, through any nesting (push_to_stack,
\* pop_from_stack, uncond_jump and the returns of simulator.cpp).
ImplementsCallStack == Stack!Spec

\* The words an entry takes.
EntryWords(kind) ==
    CASE kind = "interrupt" -> 3 [] kind = "far" -> 2 [] OTHER -> 1

\* The words of the first n entries of s, and how many they are.
OpenWords(s, n) == {w \in (1..n) \X (1..3) : w[2] <= EntryWords(s[w[1]].kind)}
WordsOf(s, n) == Cardinality(OpenWords(s, n))

\* SP has moved by exactly the words of the open entries, and each lies where
\* its return will look for it (the orders of pushes and pops match).
StackHoldsEntries ==
    ~lost /\ status = "running" =>
        /\ machine.sp = Plus(0, -2 * WordsOf(entries, Len(entries)))
        /\ \A n \in 1..Len(entries) :
              LET sp == Plus(0, -2 * WordsOf(entries, n))
                  entry == entries[n]
              IN  /\ entry.kind \in {"near", "far", "interrupt"} =>
                        machine.mem[sp] = entry.at.ip
                  /\ entry.kind \in {"far", "interrupt"} =>
                        machine.mem[sp + 2] = entry.at.cs
                  /\ entry.kind = "interrupt" =>
                        machine.mem[sp + 4] = entry.flags
                  /\ entry.kind = "flags" => machine.mem[sp] = entry.flags
=============================================================================
