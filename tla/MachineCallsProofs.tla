-------------------------- MODULE MachineCallsProofs --------------------------
(***************************************************************************)
(* The machine and its stack, for every program and every size of its code *)
(* and stack.                                                              *)
(*                                                                         *)
(* First part: the registers of the machine stay words, decoder and        *)
(* simulator agree on the pending prefixes, and the trace has no gap.      *)
(* The three are inductive together.  Every instruction but a prefix ends  *)
(* in Executed, Terminated or Aborted, so that the proof of a step has two *)
(* parts: what these three preserve, once for all (ExecutedKeeps and the   *)
(* lemmas after it), and for each instruction that the machine it leaves   *)
(* is one (IsMachine).                                                     *)
(*                                                                         *)
(* Second part: all this holds with the record of what the program put on  *)
(* the stack; the words of the stack and SP hold what the record says; and *)
(* so the machine implements a CallStack.                                  *)
(* The inductive invariant StackInv speaks of depths instead of addresses: *)
(* the word at depth d lies 2 * d bytes below the top of the segment, the  *)
(* depth of an entry is the number of words of the entries up to it, and   *)
(* no depth exceeds StackWords, so that addresses do not wrap and words of *)
(* different depths do not overlap.                                        *)
(***************************************************************************)
EXTENDS MachineCalls, FiniteSetTheorems, TLAPS

\* The inductive invariant.
MachineInv == TypeOK /\ PrefixesAgree /\ TraceIsGapless

---------------------------------------------------------------------------
(* Words.  The number of words is used through these two facts only.       *)

LEMMA WordsFacts == Words \in Nat \ {0} /\ Words % 2 = 0
BY SMT DEF Words

LEMMA WordsBits == \E k \in Nat : Words = 4096 * k
<1>1. Words = 4096 * 16
  BY SMT DEF Words
<1> QED BY <1>1

LEMMA WordsInt == Word \subseteq Int
BY WordsFacts DEF Word

\* A register that wraps holds a word.
LEMMA PlusWord ==
    ASSUME NEW w \in Word, NEW n \in Int
    PROVE  Plus(w, n) \in Word
BY WordsFacts DEF Plus, Word

\* SP stays on the words of the stack segment.
LEMMA PlusEven ==
    ASSUME NEW w \in Word, w % 2 = 0, NEW n \in {-2, 2}
    PROVE  Plus(w, n) % 2 = 0
<1> PICK k \in Int : Words = 2 * k
  BY WordsFacts
<1> PICK j \in Int : w = 2 * j
  BY WordsFacts DEF Word
<1> QED BY WordsFacts DEF Plus, Word

LEMMA ModSum == \A a, b \in Int : ((a % Words) + b) % Words = (a + b) % Words
BY SMTT(20) DEF Words

\* A prefix moves the end of the instruction, and not its beginning.
LEMMA PlusBack ==
    ASSUME NEW w \in Word, NEW p \in Nat, NEW n \in Nat
    PROVE  Plus(Plus(w, n), -(p + n)) = Plus(w, -p)
<1>1. (((w + n) % Words) + (-(p + n))) % Words = (w + n + (-(p + n))) % Words
  BY ModSum DEF Word
<1>2. w + n + (-(p + n)) = w + (-p)
  BY DEF Word
<1> QED BY <1>1, <1>2 DEF Plus

LEMMA PlusNothing ==
    ASSUME NEW w \in Word
    PROVE  Plus(w, -0) = w
BY WordsFacts DEF Plus, Word

---------------------------------------------------------------------------
(* Flags.                                                                  *)

FlagBits == {CF, PF, AF, ZF, SF, DF, IF_, OF}

\* A flag is a bit of the word: its multiples come in pairs.
LEMMA FlagPairs ==
    ASSUME NEW flag \in FlagBits
    PROVE  flag \in Nat \ {0} /\ \E k \in Nat : Words = 2 * (k * flag)
<1> PICK j \in Nat : Words = 4096 * j
  BY WordsBits
<1>1. CASE flag = CF
  <2>1. Words = 2 * ((2048 * j) * 1)
    BY SMT
  <2> QED BY <1>1, <2>1 DEF CF
<1>2. CASE flag = PF
  <2>1. Words = 2 * ((512 * j) * 4)
    BY SMT
  <2> QED BY <1>2, <2>1 DEF PF
<1>3. CASE flag = AF
  <2>1. Words = 2 * ((128 * j) * 16)
    BY SMT
  <2> QED BY <1>3, <2>1 DEF AF
<1>4. CASE flag = ZF
  <2>1. Words = 2 * ((32 * j) * 64)
    BY SMT
  <2> QED BY <1>4, <2>1 DEF ZF
<1>5. CASE flag = SF
  <2>1. Words = 2 * ((16 * j) * 128)
    BY SMT
  <2> QED BY <1>5, <2>1 DEF SF
<1>6. CASE flag = DF
  <2>1. Words = 2 * ((8 * j) * 256)
    BY SMT
  <2> QED BY <1>6, <2>1 DEF DF
<1>7. CASE flag = IF_
  <2>1. Words = 2 * ((4 * j) * 512)
    BY SMT
  <2> QED BY <1>7, <2>1 DEF IF_
<1>8. CASE flag = OF
  <2>1. Words = 2 * (j * 2048)
    BY SMT
  <2> QED BY <1>8, <2>1 DEF OF
<1> QED BY <1>1, <1>2, <1>3, <1>4, <1>5, <1>6, <1>7, <1>8 DEF FlagBits

\* A flag that is set can be taken away.
LEMMA ClearRoom ==
    ASSUME NEW w \in Nat, NEW flag \in Nat \ {0}, (w \div flag) % 2 = 1
    PROVE  w - flag \in Nat
<1>1. CASE w < flag
  <2>1. w \div flag = 0
    BY <1>1, SMT
  <2> QED BY <2>1, SMT
<1> QED BY <1>1, SMT

\* For one that is not set there is room.
LEMMA SetRoom ==
    ASSUME NEW w \in Nat, NEW flag \in Nat \ {0}, NEW k \in Nat,
           w < 2 * (k * flag), (w \div flag) % 2 # 1
    PROVE  w + flag < 2 * (k * flag)
<1> DEFINE q == w \div flag
<1>1. q \in Nat /\ w >= q * flag /\ w < q * flag + flag
  BY SMT
<1> HIDE DEF q
<1>2. q < 2 * k
  BY <1>1, SMT
<1>3. q + 1 <= 2 * k - 1
  BY <1>1, <1>2, SMT DEF q
<1>4. (q + 1) * flag <= (2 * k - 1) * flag
  BY <1>1, <1>3, SMT
<1> QED BY <1>1, <1>4, SMT

\* Setting or clearing a flag leaves a word.
LEMMA SetWord ==
    ASSUME NEW w \in Word, NEW flag \in FlagBits, NEW on \in BOOLEAN
    PROVE  Set(w, flag, on) \in Word
<1> PICK k \in Nat : Words = 2 * (k * flag)
  BY FlagPairs
<1>1. flag \in Nat \ {0} /\ w \in Nat /\ w < Words
  BY FlagPairs, WordsFacts DEF Word
<1>2. CASE Get(w, flag)
  <2>1. w - flag \in Nat
    BY <1>1, <1>2, ClearRoom DEF Get
  <2>2. Set(w, flag, on) = w - flag + (IF on THEN flag ELSE 0)
    BY <1>2 DEF Set
  <2> QED BY <1>1, <2>1, <2>2, WordsFacts DEF Word
<1>3. CASE ~Get(w, flag)
  <2>1. w + flag < Words
    BY <1>1, <1>3, SetRoom DEF Get
  <2>2. Set(w, flag, on) = w - 0 + (IF on THEN flag ELSE 0)
    BY <1>3 DEF Set
  <2> QED BY <1>1, <2>1, <2>2, WordsFacts DEF Word
<1> QED BY <1>2, <1>3

LEMMA GetBoolean == \A w, flag : Get(w, flag) \in BOOLEAN
BY DEF Get

\* The status flags of anything leave a word.
LEMMA StatusWord ==
    ASSUME NEW w \in Word, NEW f
    PROVE  WithStatus(w, f) \in Word
<1> DEFINE a == Set(w, OF, Get(f, OF))
           b == Set(a, SF, Get(f, SF))
           c == Set(b, ZF, Get(f, ZF))
           d == Set(c, AF, Get(f, AF))
           e == Set(d, PF, Get(f, PF))
<1>f. /\ OF \in FlagBits /\ SF \in FlagBits /\ ZF \in FlagBits
      /\ AF \in FlagBits /\ PF \in FlagBits /\ CF \in FlagBits
  BY DEF FlagBits
<1>1. a \in Word
  BY <1>f, SetWord, GetBoolean
<1> HIDE DEF a
<1>2. b \in Word
  BY <1>f, <1>1, SetWord, GetBoolean
<1> HIDE DEF b
<1>3. c \in Word
  BY <1>f, <1>2, SetWord, GetBoolean
<1> HIDE DEF c
<1>4. d \in Word
  BY <1>f, <1>3, SetWord, GetBoolean
<1> HIDE DEF d
<1>5. e \in Word
  BY <1>f, <1>4, SetWord, GetBoolean
<1> HIDE DEF e
<1>6. Set(e, CF, Get(f, CF)) \in Word
  BY <1>f, <1>5, SetWord, GetBoolean
<1> QED BY <1>6 DEF WithStatus, a, b, c, d, e

---------------------------------------------------------------------------
(* What instructions do to a machine leaves a machine.                     *)

LEMMA IpMachine ==
    ASSUME NEW m, IsMachine(m), NEW w \in Word
    PROVE  IsMachine([m EXCEPT !.ip = w])
BY DEF IsMachine

LEMMA CsMachine ==
    ASSUME NEW m, IsMachine(m), NEW w \in Word
    PROVE  IsMachine([m EXCEPT !.cs = w])
BY DEF IsMachine

LEMMA CxMachine ==
    ASSUME NEW m, IsMachine(m), NEW w \in Word
    PROVE  IsMachine([m EXCEPT !.cx = w])
BY DEF IsMachine

LEMMA FlagsMachine ==
    ASSUME NEW m, IsMachine(m), NEW w \in Word
    PROVE  IsMachine([m EXCEPT !.flags = w])
BY DEF IsMachine

LEMMA AtMachine ==
    ASSUME NEW m, IsMachine(m), NEW cs \in Word, NEW ip \in Word
    PROVE  IsMachine(At(m, cs, ip))
BY DEF IsMachine, At

LEMMA PushMachine ==
    ASSUME NEW m, IsMachine(m), NEW w \in Word
    PROVE  IsMachine(push_to_stack(m, w))
<1> DEFINE sp == Plus(m.sp, -2)
<1>1. m.sp \in Word /\ m.sp % 2 = 0 /\ m.mem \in [Cells -> Word]
  BY DEF IsMachine
<1>2. sp \in Word /\ sp % 2 = 0
  BY <1>1, PlusWord, PlusEven
<1> HIDE DEF sp
<1>3. [m.mem EXCEPT ![sp] = w] \in [Cells -> Word]
  BY <1>1
<1>4. IsMachine([m EXCEPT !.sp = sp, !.mem = [m.mem EXCEPT ![sp] = w]])
  BY <1>2, <1>3 DEF IsMachine
<1> QED BY <1>4 DEF push_to_stack, sp

LEMMA PopMachine ==
    ASSUME NEW m, IsMachine(m)
    PROVE  IsMachine(Popped(m))
<1> DEFINE sp == Plus(m.sp, 2)
<1>1. m.sp \in Word /\ m.sp % 2 = 0
  BY DEF IsMachine
<1>2. sp \in Word /\ sp % 2 = 0
  BY <1>1, PlusWord, PlusEven
<1> HIDE DEF sp
<1>3. IsMachine([m EXCEPT !.sp = sp])
  BY <1>2 DEF IsMachine
<1> QED BY <1>3 DEF Popped, sp

LEMMA LoadedWords ==
    /\ Loaded \subseteq Word
    /\ ComputedFlags \subseteq Word
    /\ ComputedCounts \subseteq Word
    /\ ScanStops \subseteq Word
BY MachineAssumption

LEMMA InstructionKnown == Instructions \subseteq Instruction
<1>1. Program \in [0..(CodeBytes - 1) -> SUBSET Instruction]
  BY MachineAssumption
<1> QED BY <1>1 DEF Instructions

LEMMA TopIsWord ==
    ASSUME NEW m, IsMachine(m)
    PROVE  TopWord(m) \subseteq Word
<1>1. m.mem \in [Cells -> Word]
  BY DEF IsMachine
<1> QED BY <1>1, LoadedWords DEF TopWord

LEMMA FetchedMachine ==
    ASSUME IsMachine(machine), NEW instr \in Instructions
    PROVE  IsMachine(Fetched(instr))
<1>1. instr.size \in Int /\ machine.ip \in Word
  BY InstructionKnown DEF Instruction, IsMachine
<1>2. Plus(machine.ip, instr.size) \in Word
  BY <1>1, PlusWord
<1> QED BY <1>2, IpMachine DEF Fetched

---------------------------------------------------------------------------
(* What the ends of an instruction preserve.                               *)

LEMMA PrefixesForgotten ==
    ASSUME NEW instr, instr.op \notin PrefixOps
    PROVE  Remembered(instr) = {}
BY DEF PrefixOps, Remembered

LEMMA ExecutedKeeps ==
    ASSUME MachineInv, NEW instr, instr.op \notin PrefixOps,
           NEW m, IsMachine(m), Executed(instr, m)
    PROVE  MachineInv'
<1>1. /\ machine' = m /\ ctx' = {} /\ prefix_bytes' = 0 /\ traced' = m.ip
      /\ UNCHANGED <<status, stop_on_ret>>
  BY PrefixesForgotten DEF Executed
<1>2. m.ip \in Word
  BY DEF IsMachine
<1>3. TypeOK'
  BY <1>1, <1>2 DEF MachineInv, TypeOK, IsMachine
<1>4. PrefixesAgree'
  BY <1>1 DEF PrefixesAgree
<1>5. TraceIsGapless'
  BY <1>1, <1>2, PlusNothing DEF TraceIsGapless, PrevIp
<1> QED BY <1>3, <1>4, <1>5 DEF MachineInv

LEMMA TerminatedKeeps ==
    ASSUME MachineInv, NEW instr, instr.op \notin PrefixOps,
           NEW m, IsMachine(m), NEW n \in Nat, Terminated(instr, m, n)
    PROVE  MachineInv'
<1>1. /\ machine' = m /\ ctx' = {} /\ prefix_bytes' = n
      /\ status' = "ended" /\ UNCHANGED <<traced, stop_on_ret>>
  BY PrefixesForgotten DEF Terminated
<1> QED BY <1>1
  DEF MachineInv, TypeOK, PrefixesAgree, TraceIsGapless, IsMachine

LEMMA AbortedKeeps ==
    ASSUME MachineInv, NEW instr, instr.op \notin PrefixOps, Aborted(instr)
    PROVE  MachineInv'
<1>1. /\ status' = "aborted" /\ ctx' = {}
      /\ UNCHANGED <<machine, prefix_bytes, traced, stop_on_ret>>
  BY PrefixesForgotten DEF Aborted
<1> QED BY <1>1
  DEF MachineInv, TypeOK, PrefixesAgree, TraceIsGapless, IsMachine

\* The loop ends between two instructions.
LEMMA LoopEndKeeps ==
    ASSUME MachineInv, Finish \/ DecodeFails \/ DecodeAborts
    PROVE  MachineInv'
<1>1. /\ status' \in {"ended", "failed", "aborted"}
      /\ UNCHANGED <<machine, ctx, prefix_bytes, traced, stop_on_ret>>
  BY DEF Finish, DecodeFails, DecodeAborts
<1> QED BY <1>1
  DEF MachineInv, TypeOK, PrefixesAgree, TraceIsGapless, IsMachine

\* A prefix is remembered by the decoder and by the simulator.
LEMMA PrefixKeeps ==
    ASSUME MachineInv, NEW instr \in Instructions, Prefix(instr)
    PROVE  MachineInv'
<1>1. /\ instr.op \in {"lock", "rep", "segment"}
      /\ machine' = Fetched(instr) /\ ctx' = Remembered(instr)
      /\ prefix_bytes' = prefix_bytes + instr.size
      /\ UNCHANGED <<traced, status, stop_on_ret>>
  BY DEF Prefix, PrefixOps
<1>2. /\ machine.ip \in Word /\ prefix_bytes \in Nat
      /\ ctx \subseteq {"lock", "rep", "z", "seg"} /\ IsMachine(machine)
  BY DEF MachineInv, TypeOK, IsMachine
<1>3. instr.size \in 1..6
  BY InstructionKnown DEF Instruction
<1>4. IsMachine(Fetched(instr))
  BY <1>2, FetchedMachine
<1>5. /\ prefix_bytes' \in Nat /\ prefix_bytes' # 0
  BY <1>1, <1>2, <1>3
<1>6. Remembered(instr) \subseteq {"lock", "rep", "z", "seg"}
  BY <1>1, <1>2 DEF Remembered
<1>7. TypeOK'
  BY <1>1, <1>4, <1>5, <1>6 DEF MachineInv, TypeOK, IsMachine
<1>8. ASSUME status = "running"
      PROVE  /\ Remembered(instr) # {}
             /\ ~ {"lock", "rep"} \subseteq Remembered(instr)
             /\ "z" \in Remembered(instr) => "rep" \in Remembered(instr)
  <2>1. /\ ~ {"lock", "rep"} \subseteq ctx
        /\ "z" \in ctx => "rep" \in ctx
    BY <1>8 DEF MachineInv, PrefixesAgree
  <2> QED BY <1>1, <2>1 DEF Remembered
<1>9. PrefixesAgree'
  BY <1>1, <1>5, <1>8 DEF PrefixesAgree
<1>10. TraceIsGapless'
  <2>1. Fetched(instr).ip = Plus(machine.ip, instr.size)
    BY <1>2 DEF Fetched, IsMachine
  <2>2. Plus(Plus(machine.ip, instr.size), -(prefix_bytes + instr.size))
        = Plus(machine.ip, -prefix_bytes)
    BY <1>2, <1>3, PlusBack
  <2> QED BY <1>1, <2>1, <2>2 DEF MachineInv, TraceIsGapless, PrevIp
<1> QED BY <1>7, <1>9, <1>10 DEF MachineInv

---------------------------------------------------------------------------
(* The instructions.                                                       *)

LEMMA Fetching ==
    ASSUME MachineInv, NEW instr \in Instructions
    PROVE  /\ IsMachine(machine) /\ IsMachine(Fetched(instr))
           /\ instr \in Instruction
BY FetchedMachine, InstructionKnown DEF MachineInv, TypeOK

\* A call leaves the return address on the stack.
LEMMA SavedMachine ==
    ASSUME NEW instr, NEW m, IsMachine(m)
    PROVE  IsMachine(Saved(instr, m))
<1>1. m.ip \in Word /\ m.cs \in Word
  BY DEF IsMachine
<1>2. /\ IsMachine(push_to_stack(m, m.ip))
      /\ IsMachine(push_to_stack(push_to_stack(m, m.cs), m.ip))
  BY <1>1, PushMachine
<1> QED BY <1>2 DEF Saved

LEMMA JumpedMachine ==
    ASSUME NEW instr \in Instruction, NEW m, IsMachine(m),
           NEW n \in Jumped(instr, m)
    PROVE  IsMachine(n)
<1>1. /\ m.ip \in Word /\ m.cs \in Word
      /\ instr.cs \in Word /\ instr.imm \in Word
  BY DEF IsMachine, Instruction
<1>2. CASE instr.operand = "imm"
  <2>1. n = [m EXCEPT !.ip = Plus(m.ip, instr.imm)]
    BY <1>2 DEF Jumped
  <2>2. Plus(m.ip, instr.imm) \in Word
    BY <1>1, WordsInt, PlusWord
  <2> QED BY <2>1, <2>2, IpMachine
<1>3. CASE instr.operand # "imm"
  <2>1. \/ n = At(m, instr.cs, instr.imm)
        \/ \E cs \in Loaded, ip \in Loaded : n = At(m, cs, ip)
        \/ \E ip \in Loaded : n = At(m, m.cs, ip)
    <3> HIDE DEF At
    <3>1. CASE instr.operand = "cs_ip"
      BY <3>1 DEF Jumped
    <3>2. CASE instr.operand = "mem" /\ instr.far
      BY <3>2 DEF Jumped
    <3>3. CASE instr.operand # "cs_ip" /\ ~ (instr.operand = "mem" /\ instr.far)
      BY <1>3, <3>3 DEF Jumped
    <3> QED BY <3>1, <3>2, <3>3
  <2> QED BY <1>1, <2>1, LoadedWords, AtMachine
<1> QED BY <1>2, <1>3

LEMMA InterruptedMachine ==
    ASSUME NEW m, IsMachine(m), NEW n \in Interrupted(m)
    PROVE  IsMachine(n)
<1> DEFINE saved == push_to_stack(push_to_stack(push_to_stack(
                       m, m.flags), m.cs), m.ip)
<1>1. m.ip \in Word /\ m.cs \in Word /\ m.flags \in Word
  BY DEF IsMachine
<1>2. IsMachine(push_to_stack(push_to_stack(m, m.flags), m.cs))
  BY <1>1, PushMachine
<1>3. IsMachine(saved)
  BY <1>1, <1>2, PushMachine
<1>4. \E cs \in Word, ip \in Word : n = At(saved, cs, ip)
  BY LoadedWords DEF Interrupted
<1> QED BY <1>3, <1>4, AtMachine

LEMMA JumpsKeep ==
    ASSUME MachineInv, NEW instr \in Instructions,
           UncondJump(instr) \/ CondJump(instr) \/ CountJump(instr)
    PROVE  MachineInv'
<1> DEFINE m == Fetched(instr)
<1>1. IsMachine(m) /\ instr \in Instruction
  BY Fetching
<1> HIDE DEF m
<1>2. /\ m.ip \in Word /\ m.cx \in Word
      /\ Plus(m.ip, instr.imm) \in Word
  BY <1>1, WordsInt, PlusWord DEF IsMachine, Instruction
<1>3. instr.op \notin PrefixOps
  BY DEF UncondJump, CondJump, CountJump, CondJumps, CountJumps, PrefixOps
<1>4. CASE UncondJump(instr)
  <2>1. PICK n \in Jumped(instr, Saved(instr, m)) : Executed(instr, n)
    BY <1>4 DEF UncondJump, m
  <2>2. IsMachine(n)
    BY <1>1, SavedMachine, JumpedMachine
  <2> QED BY <1>3, <2>1, <2>2, ExecutedKeeps
<1>5. CASE CondJump(instr)
  <2>1. \/ Executed(instr, m)
        \/ Executed(instr, [m EXCEPT !.ip = Plus(m.ip, instr.imm)])
    BY <1>5 DEF CondJump, m
  <2> QED BY <1>1, <1>2, <1>3, <2>1, ExecutedKeeps, IpMachine
<1>6. CASE CountJump(instr)
  <2>1. \E cx \in Word, ip \in Word :
           Executed(instr, [m EXCEPT !.cx = cx, !.ip = ip])
    <3> DEFINE cx == Plus(m.cx, IF instr.op = "jcxz" THEN 0 ELSE -1)
    <3>1. cx \in Word
      BY <1>2, PlusWord
    <3>2. \/ Executed(instr, [m EXCEPT !.cx = cx,
                                       !.ip = Plus(m.ip, instr.imm)])
          \/ Executed(instr, [m EXCEPT !.cx = cx, !.ip = m.ip])
      BY <1>6 DEF CountJump, m
    <3> HIDE DEF cx
    <3> QED BY <1>2, <3>1, <3>2
  <2> QED BY <1>1, <1>3, <2>1, ExecutedKeeps, CxMachine, IpMachine
<1> QED BY <1>4, <1>5, <1>6

\* The words on top of the stack, and the machine without them.
LEMMA Popping ==
    ASSUME NEW m, IsMachine(m)
    PROVE  /\ IsMachine(Popped(m))
           /\ IsMachine(Popped(Popped(m)))
           /\ IsMachine(Popped(Popped(Popped(m))))
           /\ TopWord(m) \subseteq Word
           /\ TopWord(Popped(m)) \subseteq Word
           /\ TopWord(Popped(Popped(m))) \subseteq Word
<1>1. IsMachine(Popped(m))
  BY PopMachine
<1>2. IsMachine(Popped(Popped(m)))
  BY <1>1, PopMachine
<1> QED BY <1>1, <1>2, PopMachine, TopIsWord

LEMMA ReturnsKeep ==
    ASSUME MachineInv, NEW instr \in Instructions,
           Return(instr) \/ ReturnStops(instr) \/ Iret(instr)
    PROVE  MachineInv'
<1> DEFINE m == Fetched(instr)
<1>1. IsMachine(machine) /\ IsMachine(m) /\ instr \in Instruction
  BY Fetching
<1> HIDE DEF m
<1>2. instr.op \notin PrefixOps
  BY DEF Return, ReturnStops, Iret, Returns, PrefixOps
<1>3. CASE Return(instr)
  <2> DEFINE offset == IF instr.operand = "imm" THEN instr.imm ELSE 0
  <2>1. offset \in Int
    <3>1. instr.imm \in Word
      BY <1>1 DEF Instruction
    <3>2. instr.imm \in Int
      BY <3>1, WordsInt
    <3> QED BY <3>2
  <2>2. \A ip \in Word : Plus(ip, offset) \in Word
    BY <2>1, PlusWord
  <2>3. m.cs \in Word
    BY <1>1 DEF IsMachine
  <2>4. \/ \E ip \in TopWord(m) :
              Executed(instr, At(Popped(m), m.cs, Plus(ip, offset)))
        \/ \E ip \in TopWord(m), cs \in TopWord(Popped(m)) :
              Executed(instr, At(Popped(Popped(m)), cs, Plus(ip, offset)))
    BY <1>3 DEF Return, m
  <2> HIDE DEF offset
  <2>5. \/ \E ip \in Word, cs \in Word : Executed(instr, At(Popped(m), cs, ip))
        \/ \E ip \in Word, cs \in Word :
              Executed(instr, At(Popped(Popped(m)), cs, ip))
    BY <1>1, <2>2, <2>3, <2>4, Popping
  <2> QED BY <1>1, <1>2, <2>5, Popping, AtMachine, ExecutedKeeps
<1>4. CASE ReturnStops(instr)
  <2>1. Terminated(instr, machine, prefix_bytes) /\ prefix_bytes \in Nat
    BY <1>4 DEF ReturnStops, MachineInv, TypeOK
  <2> QED BY <1>1, <1>2, <2>1, TerminatedKeeps
<1>5. CASE Iret(instr)
  <2> DEFINE n == Popped(Popped(Popped(m)))
  <2>1. \E ip \in TopWord(m), cs \in TopWord(Popped(m)),
           flags \in TopWord(Popped(Popped(m))) :
              Executed(instr, [At(n, cs, ip) EXCEPT !.flags = flags])
    BY <1>5 DEF Iret, m
  <2>2. PICK ip \in Word, cs \in Word, flags \in Word :
           Executed(instr, [At(n, cs, ip) EXCEPT !.flags = flags])
    BY <1>1, <2>1, Popping
  <2>3. IsMachine(At(n, cs, ip))
    BY <1>1, Popping, AtMachine
  <2>4. IsMachine([At(n, cs, ip) EXCEPT !.flags = flags])
    BY <2>3, FlagsMachine
  <2> QED BY <1>2, <2>2, <2>4, ExecutedKeeps
<1> QED BY <1>3, <1>4, <1>5

LEMMA InterruptsKeep ==
    ASSUME MachineInv, NEW instr \in Instructions,
           \/ Interrupt(instr) \/ NoOverflow(instr)
           \/ Divide(instr) \/ DivideThrows(instr)
    PROVE  MachineInv'
<1> DEFINE m == Fetched(instr)
<1>1. IsMachine(m)
  BY Fetching
<1> HIDE DEF m
<1>2. instr.op \notin PrefixOps
  BY DEF Interrupt, NoOverflow, Divide, DivideThrows, Interrupts, PrefixOps
<1>3. CASE Interrupt(instr) \/ DivideThrows(instr)
  <2>1. PICK n \in Interrupted(m) : Executed(instr, n)
    BY <1>3 DEF Interrupt, DivideThrows, m
  <2> QED BY <1>1, <1>2, <2>1, InterruptedMachine, ExecutedKeeps
<1>4. CASE NoOverflow(instr)
  <2>1. Executed(instr, m)
    BY <1>4 DEF NoOverflow, m
  <2> QED BY <1>1, <1>2, <2>1, ExecutedKeeps
<1>5. CASE Divide(instr)
  <2>1. Executed(instr, [m EXCEPT !.flags = WithStatus(m.flags, 0)])
    BY <1>5 DEF Divide, m
  <2>2. m.flags \in Word
    BY <1>1 DEF IsMachine
  <2>3. WithStatus(m.flags, 0) \in Word
    BY <2>2, StatusWord
  <2>4. IsMachine([m EXCEPT !.flags = WithStatus(m.flags, 0)])
    BY <1>1, <2>3, FlagsMachine
  <2> QED BY <1>2, <2>1, <2>4, ExecutedKeeps
<1> QED BY <1>3, <1>4, <1>5

LEMMA StackKeeps ==
    ASSUME MachineInv, NEW instr \in Instructions,
           Push(instr) \/ Pop(instr) \/ Pushf(instr) \/ Popf(instr)
    PROVE  MachineInv'
<1> DEFINE m == Fetched(instr)
<1>1. IsMachine(machine) /\ IsMachine(m)
  BY Fetching
<1> HIDE DEF m
<1>2. instr.op \notin PrefixOps
  BY DEF Push, Pop, Pushf, Popf, PrefixOps
<1>3. IsMachine(Popped(m)) /\ TopWord(m) \subseteq Word
  BY <1>1, Popping
<1>4. CASE Push(instr)
  <2>1. PICK word \in Loaded : Executed(instr, push_to_stack(m, word))
    BY <1>4 DEF Push, m
  <2>2. IsMachine(push_to_stack(m, word))
    BY <1>1, LoadedWords, PushMachine
  <2> QED BY <1>2, <2>1, <2>2, ExecutedKeeps
<1>5. CASE Pop(instr)
  <2>1. PICK word \in TopWord(m) :
           \/ Executed(instr, Popped(m))
           \/ Executed(instr, [Popped(m) EXCEPT !.cx = word])
    BY <1>5 DEF Pop, m
  <2>2. IsMachine([Popped(m) EXCEPT !.cx = word])
    BY <1>3, CxMachine
  <2> QED BY <1>2, <1>3, <2>1, <2>2, ExecutedKeeps
<1>6. CASE Pushf(instr)
  <2>1. Executed(instr, push_to_stack(m, machine.flags))
    BY <1>6 DEF Pushf, m
  <2>2. machine.flags \in Word
    BY <1>1 DEF IsMachine
  <2>3. IsMachine(push_to_stack(m, machine.flags))
    BY <1>1, <2>2, PushMachine
  <2> QED BY <1>2, <2>1, <2>3, ExecutedKeeps
<1>7. CASE Popf(instr)
  <2>1. PICK flags \in TopWord(m) :
           Executed(instr, [Popped(m) EXCEPT !.flags = flags])
    BY <1>7 DEF Popf, m
  <2>2. IsMachine([Popped(m) EXCEPT !.flags = flags])
    BY <1>3, FlagsMachine
  <2> QED BY <1>2, <2>1, <2>2, ExecutedKeeps
<1> QED BY <1>4, <1>5, <1>6, <1>7

LEMMA ZeroWord == 0 \in Word
BY WordsFacts DEF Word

LEMMA ComputedMachine ==
    ASSUME NEW m, IsMachine(m), NEW cx \in Word, NEW f
    PROVE  IsMachine(Computed(m, cx, f))
<1>1. m.flags \in Word
  BY DEF IsMachine
<1>2. WithStatus(m.flags, f) \in Word
  BY <1>1, StatusWord
<1> QED BY <1>2 DEF Computed, IsMachine

\* A string instruction leaves CX as it is, at zero, or where a scan stopped.
LEMMA RepeatedIs ==
    ASSUME NEW instr, NEW m, NEW n \in Repeated(instr, m)
    PROVE  \/ n = m
           \/ n = [m EXCEPT !.cx = 0]
           \/ \E f \in ComputedFlags :
                 \/ n = Computed(m, m.cx, f)
                 \/ n = Computed(m, 0, f)
                 \/ \E cx \in ScanStops : n = Computed(m, cx, f)
<1>1. CASE instr.op \in StringMoves /\ "rep" \notin ctx
  BY <1>1 DEF Repeated
<1>2. CASE instr.op \in StringScans /\ "rep" \notin ctx
  BY <1>2 DEF Repeated, StringMoves, StringScans
<1>3. CASE "rep" \in ctx /\ m.cx = 0
  BY <1>3 DEF Repeated
<1>4. CASE instr.op \in StringMoves /\ "rep" \in ctx /\ m.cx > 0
  BY <1>4 DEF Repeated
<1>5. CASE /\ ~ (instr.op \in StringMoves /\ "rep" \notin ctx)
           /\ ~ (instr.op \in StringScans /\ "rep" \notin ctx)
           /\ ~ ("rep" \in ctx /\ m.cx = 0)
           /\ ~ (instr.op \in StringMoves /\ "rep" \in ctx /\ m.cx > 0)
  BY <1>5 DEF Repeated
<1> QED BY <1>1, <1>2, <1>3, <1>4, <1>5

LEMMA RepeatedMachine ==
    ASSUME NEW instr, NEW m, IsMachine(m), NEW n \in Repeated(instr, m)
    PROVE  IsMachine(n)
<1>1. m.cx \in Word
  BY DEF IsMachine
<1>2. IsMachine([m EXCEPT !.cx = 0])
  BY ZeroWord, CxMachine
<1> QED BY <1>1, <1>2, RepeatedIs, ZeroWord, LoadedWords, ComputedMachine

LEMMA DataKeeps ==
    ASSUME MachineInv, NEW instr \in Instructions,
           Compute(instr) \/ String(instr)
    PROVE  MachineInv'
<1> DEFINE m == Fetched(instr)
<1>1. IsMachine(m)
  BY Fetching
<1> HIDE DEF m
<1>2. instr.op \notin PrefixOps
  BY DEF Compute, String, StringOps, StringMoves, StringScans, PrefixOps
<1>3. m.cx \in Word
  BY <1>1 DEF IsMachine
<1>4. CASE Compute(instr)
  <2>1. PICK f \in ComputedFlags \cup {m.flags},
             cx \in ComputedCounts \cup {m.cx} :
           Executed(instr, Computed(m, cx, f))
    BY <1>4 DEF Compute, m
  <2>2. IsMachine(Computed(m, cx, f))
    BY <1>1, <1>3, LoadedWords, ComputedMachine
  <2> QED BY <1>2, <2>1, <2>2, ExecutedKeeps
<1>5. CASE String(instr)
  <2>1. PICK n \in Repeated(instr, m) : Executed(instr, n)
    BY <1>5 DEF String, m
  <2>2. IsMachine(n)
    BY <1>1, RepeatedMachine
  <2> QED BY <1>2, <2>1, <2>2, ExecutedKeeps
<1> QED BY <1>4, <1>5

LEMMA OthersKeep ==
    ASSUME MachineInv, NEW instr \in Instructions,
           FlagOp(instr) \/ Nop(instr) \/ Halt(instr)
    PROVE  MachineInv'
<1> DEFINE m == Fetched(instr)
<1>1. IsMachine(m)
  BY Fetching
<1> HIDE DEF m
<1>2. instr.op \notin PrefixOps
  BY DEF FlagOp, Nop, Halt, FlagOps, PrefixOps
<1>3. CASE FlagOp(instr)
  <2>1. PICK flag \in FlagBits, on \in BOOLEAN :
           Executed(instr, [m EXCEPT !.flags = Set(m.flags, flag, on)])
    BY <1>3, GetBoolean DEF FlagOp, FlagOps, FlagBits, m
  <2>2. m.flags \in Word
    BY <1>1 DEF IsMachine
  <2>3. Set(m.flags, flag, on) \in Word
    BY <2>2, SetWord
  <2>4. IsMachine([m EXCEPT !.flags = Set(m.flags, flag, on)])
    BY <1>1, <2>3, FlagsMachine
  <2> QED BY <1>2, <2>1, <2>4, ExecutedKeeps
<1>4. CASE Nop(instr)
  <2>1. Executed(instr, m)
    BY <1>4 DEF Nop, m
  <2> QED BY <1>1, <1>2, <2>1, ExecutedKeeps
<1>5. CASE Halt(instr)
  <2>1. Terminated(instr, m, 0)
    BY <1>5 DEF Halt, m
  <2> QED BY <1>1, <1>2, <2>1, TerminatedKeeps
<1> QED BY <1>3, <1>4, <1>5

LEMMA FailuresKeep ==
    ASSUME MachineInv, NEW instr, JumpFails(instr) \/ OperandFails(instr)
    PROVE  MachineInv'
<1>1. instr.op \notin PrefixOps /\ Aborted(instr)
  BY DEF JumpFails, OperandFails, PrefixOps
<1> QED BY <1>1, AbortedKeeps

---------------------------------------------------------------------------
(* The invariant, and the theorems.                                        *)

LEMMA MachineStarts == Init => MachineInv
<1> SUFFICES ASSUME Init PROVE MachineInv
  OBVIOUS
<1>1. /\ machine = [ip |-> 0, cs |-> 0, sp |-> 0, cx |-> 0, flags |-> 0,
                    mem |-> [c \in Cells |-> 0]]
      /\ ctx = {} /\ prefix_bytes = 0 /\ traced = 0 /\ status = "running"
      /\ stop_on_ret \in BOOLEAN
  BY DEF Init
<1>2. IsMachine(machine)
  BY <1>1, ZeroWord DEF IsMachine
<1>3. TypeOK
  BY <1>1, <1>2, ZeroWord DEF TypeOK
<1>4. PrefixesAgree
  BY <1>1 DEF PrefixesAgree
<1>5. TraceIsGapless
  BY <1>1, ZeroWord, PlusNothing DEF TraceIsGapless, PrevIp
<1> QED BY <1>3, <1>4, <1>5 DEF MachineInv

LEMMA MachineSteps == MachineInv /\ [Next]_vars => MachineInv'
<1> SUFFICES ASSUME MachineInv, [Next]_vars PROVE MachineInv'
  OBVIOUS
<1>1. CASE UNCHANGED vars
  BY <1>1 DEF vars, MachineInv, TypeOK, PrefixesAgree, TraceIsGapless,
              PrevIp, IsMachine
<1>2. CASE Finish \/ DecodeFails \/ DecodeAborts
  BY <1>2, LoopEndKeeps
<1>3. ASSUME NEW instr \in Instructions, Execute(instr) PROVE MachineInv'
  <2>1. CASE Prefix(instr)
    BY <2>1, PrefixKeeps
  <2>2. CASE UncondJump(instr) \/ CondJump(instr) \/ CountJump(instr)
    BY <2>2, JumpsKeep
  <2>3. CASE Return(instr) \/ ReturnStops(instr) \/ Iret(instr)
    BY <2>3, ReturnsKeep
  <2>4. CASE \/ Interrupt(instr) \/ NoOverflow(instr)
             \/ Divide(instr) \/ DivideThrows(instr)
    BY <2>4, InterruptsKeep
  <2>5. CASE Push(instr) \/ Pop(instr) \/ Pushf(instr) \/ Popf(instr)
    BY <2>5, StackKeeps
  <2>6. CASE Compute(instr) \/ String(instr)
    BY <2>6, DataKeeps
  <2>7. CASE FlagOp(instr) \/ Nop(instr) \/ Halt(instr)
    BY <2>7, OthersKeep
  <2>8. CASE JumpFails(instr) \/ OperandFails(instr)
    BY <2>8, FailuresKeep
  <2> QED BY <1>3, <2>1, <2>2, <2>3, <2>4, <2>5, <2>6, <2>7, <2>8 DEF Execute
<1> QED BY <1>1, <1>2, <1>3 DEF Next, Step

LEMMA MachineInvariant == Spec => []MachineInv
BY MachineStarts, MachineSteps, PTL DEF Spec

\* Whatever the program does, IP, CS, SP, CX and the words of the stack stay
\* words of 16 bits, and SP on the words of its segment.
THEOREM TypeCorrect == Spec => []TypeOK
<1>1. MachineInv => TypeOK
  BY DEF MachineInv
<1> QED BY <1>1, MachineInvariant, PTL

\* The prefixes that decoder and simulator remember each on their own are
\* those of the same instruction, through every exit of the execution.
THEOREM PrefixesStayTogether == Spec => []PrefixesAgree
<1>1. MachineInv => PrefixesAgree
  BY DEF MachineInv
<1> QED BY <1>1, MachineInvariant, PTL

\* The addresses the trace prints join up, for every program.
THEOREM TraceJoins == Spec => []TraceIsGapless
<1>1. MachineInv => TraceIsGapless
  BY DEF MachineInv
<1> QED BY <1>1, MachineInvariant, PTL

(***************************************************************************)
(* Second part: the stack.                                                 *)
(***************************************************************************)

\* The address of the word at a depth, and the depth of all entries of s.
Top(d) == Plus(0, -2 * d)
Depth(s) == WordsOf(s, Len(s))

\* Entry n of s lies in mem where its return will look for it.
InMemory(mem, s, n) ==
    LET d == WordsOf(s, n)
    IN  /\ s[n].kind \in {"near", "far", "interrupt"} =>
              mem[Top(d)] = s[n].at.ip
        /\ s[n].kind \in {"far", "interrupt"} => mem[Top(d - 1)] = s[n].at.cs
        /\ s[n].kind = "interrupt" => mem[Top(d - 2)] = s[n].flags
        /\ s[n].kind = "flags" => mem[Top(d)] = s[n].flags

Holds(m, s) ==
    /\ m.sp = Top(Depth(s)) /\ Depth(s) <= StackWords
    /\ \A n \in 1..Len(s) : InMemory(m.mem, s, n)

StackInv ==
    /\ entries \in Seq(Stack!Entry)
    /\ lost \in BOOLEAN
    /\ lost => entries = <<>>
    /\ ~lost => Holds(machine, entries)

---------------------------------------------------------------------------
(* The record changes nothing of the machine.                              *)

LEMMA RecordedStep ==
    ASSUME NEW instr, CallsStep(instr)
    PROVE  Step(instr)
BY DEF CallsStep, Step, Execute

LEMMA RecordedNext == [CallsNext]_callVars => [Next]_vars
<1>1. CASE UNCHANGED callVars
    BY <1>1 DEF callVars
<1>2. CASE \E instr \in Instructions : CallsStep(instr)
    BY <1>2, RecordedStep DEF Next
<1>3. CASE Finish \/ DecodeFails \/ DecodeAborts
    BY <1>3 DEF Next
<1> QED
    BY <1>1, <1>2, <1>3 DEF CallsNext

LEMMA MachinePart == CallsSpec => Spec
<1>1. CallsInit => Init
    BY DEF CallsInit
<1> QED
    BY <1>1, RecordedNext, PTL DEF CallsSpec, Spec

\* With the record, too, decoder and simulator have the same prefixes pending
\* before every instruction (decoder.cpp and simulator.cpp keep them apart),
THEOREM PrefixesWithRecord == CallsSpec => []PrefixesAgree
BY MachinePart, PrefixesStayTogether, PTL

\* ... and the addresses that the trace prints join up.
THEOREM TraceWithRecord == CallsSpec => []TraceIsGapless
BY MachinePart, TraceJoins, PTL

---------------------------------------------------------------------------
(* Counting the words of entries.                                          *)

LEMMA WordsFinite ==
    ASSUME NEW s, NEW n \in Nat
    PROVE  IsFiniteSet(OpenWords(s, n)) /\ WordsOf(s, n) \in Nat
<1>1. IsFiniteSet(1..n)
  BY FS_Interval
<1>2. IsFiniteSet((1..n) \X (1..3))
  <2>1. 1 \in Int /\ 3 \in Int
    OBVIOUS
  <2>2. IsFiniteSet(1..3)
    BY ONLY <2>1, FS_Interval
  <2> QED BY <1>1, <2>2, FS_Product
<1>3. OpenWords(s, n) \in SUBSET ((1..n) \X (1..3))
  BY DEF OpenWords
<1> QED BY <1>2, <1>3, FS_Subset, FS_CardinalityType DEF WordsOf

LEMMA WordsNone == \A s : WordsOf(s, 0) = 0
<1>1. \A s : OpenWords(s, 0) = {}
  BY DEF OpenWords
<1> QED BY <1>1, FS_EmptySet DEF WordsOf

\* Only the entries counted matter.
LEMMA WordsSame ==
    ASSUME NEW s, NEW t, NEW n \in Nat, \A i \in 1..n : s[i] = t[i]
    PROVE  WordsOf(s, n) = WordsOf(t, n)
<1>1. OpenWords(s, n) = OpenWords(t, n)
  BY DEF OpenWords
<1> QED BY <1>1 DEF WordsOf

LEMMA WordsUpTo ==
    ASSUME NEW s, NEW m \in Nat, NEW n \in Nat, m <= n
    PROVE  WordsOf(s, m) <= WordsOf(s, n)
<1>1. OpenWords(s, m) \in SUBSET OpenWords(s, n)
  BY DEF OpenWords
<1> QED BY <1>1, WordsFinite, FS_Subset DEF WordsOf

LEMMA EntryTakes ==
    /\ \A kind : EntryWords(kind) \in 1..3
    /\ EntryWords("interrupt") = 3 /\ EntryWords("far") = 2
    /\ \A kind : kind \notin {"interrupt", "far"} => EntryWords(kind) = 1
BY DEF EntryWords

\* The next entry adds its own words.
LEMMA WordsNext ==
    ASSUME NEW s, NEW n \in Nat
    PROVE  WordsOf(s, n + 1) = WordsOf(s, n) + EntryWords(s[n + 1].kind)
<1> DEFINE W == OpenWords(s, n)
           k == EntryWords(s[n + 1].kind)
           w1 == <<n + 1, 1>>
           w2 == <<n + 1, 2>>
           w3 == <<n + 1, 3>>
<1>1. OpenWords(s, n + 1) = W \cup {w \in {w1, w2, w3} : w[2] <= k}
  BY DEF OpenWords
<1>2. k \in 1..3
  BY EntryTakes
<1>3. w1 \notin W /\ w2 \notin W /\ w3 \notin W
  BY DEF OpenWords
<1>4. IsFiniteSet(W) /\ Cardinality(W) \in Nat
  BY WordsFinite DEF WordsOf
<1>5. w1 # w2 /\ w1 # w3 /\ w2 # w3 /\ w1[2] = 1 /\ w2[2] = 2 /\ w3[2] = 3
  OBVIOUS
<1> HIDE DEF W, k, w1, w2, w3
<1> DEFINE A == W \cup {w1}
           B == A \cup {w2}
<1>6. IsFiniteSet(A) /\ Cardinality(A) = Cardinality(W) + 1
  BY <1>3, <1>4, FS_AddElement
<1>7. IsFiniteSet(B) /\ Cardinality(B) = Cardinality(W) + 2
  <2>1. w2 \notin A
    BY <1>3, <1>5
  <2> HIDE DEF A
  <2> QED BY <1>4, <1>6, <2>1, FS_AddElement
<1>8. Cardinality(B \cup {w3}) = Cardinality(W) + 3
  <2>1. w3 \notin B
    BY <1>3, <1>5
  <2> HIDE DEF B
  <2>2. Cardinality(B \cup {w3}) = Cardinality(B) + 1
    BY <1>7, <2>1, FS_AddElement
  <2> QED BY <1>4, <1>7, <2>2
<1>9. CASE k = 1
  <2>1. {w \in {w1, w2, w3} : w[2] <= k} = {w1}
    BY <1>5, <1>9
  <2> QED BY <1>1, <1>6, <1>9, <2>1 DEF WordsOf, W, k
<1>10. CASE k = 2
  <2>1. W \cup {w \in {w1, w2, w3} : w[2] <= k} = B
    BY <1>5, <1>10
  <2> QED BY <1>1, <1>7, <1>10, <2>1 DEF WordsOf, W, k
<1>11. CASE k = 3
  <2>1. W \cup {w \in {w1, w2, w3} : w[2] <= k} = B \cup {w3}
    BY <1>5, <1>11
  <2> QED BY <1>1, <1>8, <1>11, <2>1 DEF WordsOf, W, k
<1> QED BY <1>2, <1>9, <1>10, <1>11

LEMMA DepthNat ==
    ASSUME NEW S, NEW s \in Seq(S)
    PROVE  Depth(s) \in Nat /\ \A n \in 1..Len(s) : WordsOf(s, n) \in 1..Depth(s)
<1>1. Len(s) \in Nat /\ Depth(s) \in Nat
  BY WordsFinite DEF Depth
<1>2. ASSUME NEW n \in 1..Len(s) PROVE WordsOf(s, n) \in 1..Depth(s)
  <2>1. n - 1 \in Nat /\ (n - 1) + 1 = n /\ n \in Nat
    BY <1>1
  <2>2. WordsOf(s, n) = WordsOf(s, n - 1) + EntryWords(s[n].kind)
    BY <2>1, WordsNext
  <2>3. WordsOf(s, n) <= Depth(s)
    BY <1>1, <2>1, WordsUpTo DEF Depth
  <2>4. WordsOf(s, n - 1) \in Nat /\ WordsOf(s, n) \in Nat
    BY <2>1, WordsFinite
  <2> QED BY <1>1, <2>2, <2>3, <2>4, EntryTakes
<1> QED BY <1>1, <1>2

LEMMA DepthOfPut ==
    ASSUME NEW S, NEW s \in Seq(S), NEW e
    PROVE  /\ Depth(Append(s, e)) = Depth(s) + EntryWords(e.kind)
           /\ \A n \in 1..Len(s) : WordsOf(Append(s, e), n) = WordsOf(s, n)
<1> DEFINE t == Append(s, e)
<1>1. /\ Len(s) \in Nat /\ Len(t) = Len(s) + 1 /\ t[Len(s) + 1] = e
      /\ \A n \in 1..Len(s) : t[n] = s[n]
  OBVIOUS
<1> HIDE DEF t
<1>2. \A n \in 0..Len(s) : WordsOf(t, n) = WordsOf(s, n)
  BY <1>1, WordsSame
<1>3. Depth(t) = WordsOf(t, Len(s)) + EntryWords(e.kind)
  BY <1>1, WordsNext DEF Depth
<1> QED BY <1>1, <1>2, <1>3 DEF Depth, t

LEMMA DepthOfRest ==
    ASSUME NEW S, NEW s \in Seq(S), s # <<>>
    PROVE  /\ Front(s) \in Seq(S) /\ Last(s) \in S /\ Len(s) \in 1..Len(s)
           /\ Last(s) = s[Len(s)]
           /\ Len(Front(s)) = Len(s) - 1
           /\ \A n \in 1..Len(Front(s)) : Front(s)[n] = s[n]
           /\ Depth(s) = Depth(Front(s)) + EntryWords(Last(s).kind)
           /\ \A n \in 1..Len(Front(s)) : WordsOf(Front(s), n) = WordsOf(s, n)
<1> DEFINE t == Front(s)
           l == Len(s) - 1
<1>1. /\ t \in Seq(S) /\ Len(t) = l /\ Last(s) = s[Len(s)] /\ Last(s) \in S
      /\ \A n \in 1..l : t[n] = s[n]
      /\ l \in Nat /\ Len(s) = l + 1 /\ Len(s) \in 1..Len(s)
  <2>1. Len(s) \in Nat \ {0} /\ l \in Nat
    OBVIOUS
  <2>2. t = SubSeq(s, 1, l)
    BY DEF Front
  <2> HIDE DEF t
  <2>3. \A n \in 1..l : n \in 1..Len(s) /\ s[n] \in S
    BY <2>1
  <2>4. t \in Seq(S)
    BY <2>1, <2>2, <2>3
  <2>5. Len(t) = l
    <3>1. Len(SubSeq(s, 1, l)) = l
      BY <2>1, SMTT(30)
    <3> QED BY <2>2, <3>1
  <2>6. \A n \in 1..l : t[n] = s[n]
    <3>1. \A n \in 1..l : SubSeq(s, 1, l)[n] = s[n]
      BY <2>1
    <3> QED BY <2>2, <3>1
  <2> QED BY <2>1, <2>4, <2>5, <2>6 DEF Last
<1> HIDE DEF t, l
<1>2. \A n \in 0..l : WordsOf(t, n) = WordsOf(s, n)
  BY <1>1, WordsSame
<1>3. Depth(s) = WordsOf(s, l) + EntryWords(Last(s).kind)
  BY <1>1, WordsNext DEF Depth
<1> QED BY <1>1, <1>2, <1>3 DEF Depth, t, l

---------------------------------------------------------------------------
(* Addresses of words.                                                     *)

LEMMA ModBelow ==
    ASSUME NEW q \in Int, -Words <= q, q < 0
    PROVE  q % Words = q + Words
BY Z3 DEF Words

\* Depths up to StackWords have addresses of their own in the stack.
LEMMA TopIs ==
    /\ Top(0) = 0 /\ 0 \notin Cells
    /\ \A d \in 1..StackWords : Top(d) = Words - 2 * d /\ Top(d) \in Cells
<1>1. StackWords \in Nat /\ 2 * StackWords < Words
  BY MachineAssumption
<1>2. Top(0) = 0 /\ 0 \notin Cells
  BY <1>1, WordsFacts DEF Top, Plus, Cells
<1>3. ASSUME NEW d \in 1..StackWords PROVE Top(d) = Words - 2 * d
  <2>1. Words - 2 * d \in 0..(Words - 1)
    BY <1>1, WordsFacts
  <2>2. (0 + (-2 * d)) % Words = Words - 2 * d
    BY <2>1, WordsFacts, ModBelow
  <2> QED BY <2>2 DEF Top, Plus
<1> QED BY <1>2, <1>3 DEF Cells

LEMMA TopUp ==
    ASSUME NEW d \in 1..StackWords
    PROVE  Plus(Top(d), 2) = Top(d - 1) /\ (d > 1 => Top(d) + 2 = Top(d - 1))
<1>1. StackWords \in Nat /\ 2 * StackWords < Words /\ Words \in Nat
  BY MachineAssumption, WordsFacts
<1>2. Top(d) = Words - 2 * d
  BY TopIs
<1>3. CASE d = 1
  BY <1>1, <1>2, <1>3, TopIs DEF Plus
<1>4. CASE d # 1
  <2>1. Top(d - 1) = Words - 2 * (d - 1)
    BY <1>1, <1>4, TopIs
  <2> QED BY <1>1, <1>2, <1>4, <2>1 DEF Plus
<1> QED BY <1>3, <1>4

LEMMA TopDown ==
    ASSUME NEW d \in Nat, NEW n \in Nat
    PROVE  Plus(Top(d), -2 * n) = Top(d + n)
<1>1. (((0 + (-2 * d)) % Words) + (-2 * n)) % Words
      = ((0 + (-2 * d)) + (-2 * n)) % Words
  BY ModSum
<1>2. (0 + (-2 * d)) + (-2 * n) = 0 + (-2 * (d + n))
  OBVIOUS
<1> QED BY <1>1, <1>2 DEF Top, Plus

\* The address below the last word of the stack is not one of it.
LEMMA TopEnds == Top(StackWords + 1) \notin Cells
<1> DEFINE d == StackWords + 1
<1>1. StackWords \in Nat /\ 2 * StackWords < Words /\ Words \in Nat
  BY MachineAssumption, WordsFacts
<1>2. PICK j \in Int : Words = 2 * j
  BY WordsFacts
<1>3. 2 * d <= Words /\ 0 < d /\ d \in Nat
  BY <1>1, <1>2
<1>4. 0 + (-2 * d) \in Int /\ -Words <= 0 + (-2 * d) /\ 0 + (-2 * d) < 0
  BY <1>1, <1>3
<1>5. Top(d) = Words - 2 * d
  BY <1>1, <1>3, <1>4, ModBelow DEF Top, Plus
<1> QED BY <1>1, <1>5 DEF Cells

\* HasRoom, the bound on the stack, leaves room for that many words.
LEMMA RoomFor ==
    ASSUME NEW d \in Nat, d <= StackWords, machine.sp = Top(d),
           NEW n \in 1..3, HasRoom(n)
    PROVE  d + n <= StackWords
<1>1. \A k \in 1..n : Top(d + k) \in Cells
  BY TopDown DEF HasRoom
<1>2. \A k \in 1..n : d + k # StackWords + 1
  BY <1>1, TopEnds
<1>3. StackWords \in Nat
  BY MachineAssumption
<1>4. 1 \in 1..n /\ n \in 1..n
  OBVIOUS
<1>5. d + 1 <= StackWords
  BY <1>2, <1>3, <1>4
<1>6. CASE n = 1
  BY <1>5, <1>6
<1>7. CASE n = 2
  BY <1>2, <1>3, <1>4, <1>5, <1>7
<1>8. CASE n = 3
  <2>1. 2 \in 1..n
    BY <1>8
  <2> QED BY <1>2, <1>3, <1>4, <1>5, <1>8, <2>1
<1> QED BY <1>6, <1>7, <1>8

---------------------------------------------------------------------------
(* What instructions do to the stack of a machine.                         *)

\* A push writes the word below the others and keeps them.
LEMMA PushPuts ==
    ASSUME NEW m, IsMachine(m), NEW d \in Nat, d + 1 <= StackWords,
           m.sp = Top(d), NEW w \in Word, NEW n, n = push_to_stack(m, w)
    PROVE  /\ IsMachine(n)
           /\ n.ip = m.ip /\ n.cs = m.cs /\ n.flags = m.flags
           /\ n.sp = Top(d + 1) /\ n.mem[Top(d + 1)] = w
           /\ \A e \in 1..d : n.mem[Top(e)] = m.mem[Top(e)]
<1>1. StackWords \in Nat
  BY MachineAssumption
<1>2. Plus(m.sp, -2) = Top(d + 1)
  <2>1. Plus(Top(d), -2 * 1) = Top(d + 1) /\ -2 * 1 = -2
    BY TopDown
  <2> QED BY <2>1
<1>3. d + 1 \in 1..StackWords
  BY <1>1
<1>4. \A e \in 1..d : e \in 1..StackWords /\ e # d + 1
  BY <1>1
<1>5. \A e \in 1..d : Top(e) \in Cells /\ Top(e) # Top(d + 1)
  BY <1>1, <1>3, <1>4, TopIs, WordsFacts
<1>6. m.mem \in [Cells -> Word] /\ Top(d + 1) \in Cells
  BY <1>3, TopIs DEF IsMachine
<1>7. n = [m EXCEPT !.sp = Top(d + 1), !.mem = [m.mem EXCEPT ![Top(d + 1)] = w]]
  BY <1>2 DEF push_to_stack
<1>8. /\ n.ip = m.ip /\ n.cs = m.cs /\ n.flags = m.flags
      /\ n.sp = Top(d + 1) /\ n.mem = [m.mem EXCEPT ![Top(d + 1)] = w]
  BY <1>7 DEF IsMachine
<1> QED BY <1>5, <1>6, <1>8, PushMachine

\* What is popped is the word on top.
LEMMA PopTakes ==
    ASSUME NEW m, IsMachine(m), NEW d \in 1..StackWords, m.sp = Top(d)
    PROVE  /\ TopWord(m) = {m.mem[Top(d)]}
           /\ IsMachine(Popped(m)) /\ Popped(m).sp = Top(d - 1)
           /\ Popped(m).mem = m.mem /\ Popped(m).flags = m.flags
           /\ Popped(m).cs = m.cs
<1>1. Top(d) \in Cells /\ Plus(m.sp, 2) = Top(d - 1)
  BY TopIs, TopUp
<1>2. Popped(m) = [m EXCEPT !.sp = Top(d - 1)]
  BY <1>1 DEF Popped
<1> QED BY <1>1, <1>2, PopMachine DEF TopWord, IsMachine

LEMMA AtKeeps ==
    ASSUME NEW m, IsMachine(m), NEW cs, NEW ip, NEW n, n = At(m, cs, ip)
    PROVE  /\ n.sp = m.sp /\ n.mem = m.mem /\ n.flags = m.flags
           /\ n.cs = cs /\ n.ip = ip
BY DEF At, IsMachine

LEMMA FetchedKeeps ==
    ASSUME IsMachine(machine), NEW instr
    PROVE  /\ Fetched(instr).sp = machine.sp /\ Fetched(instr).mem = machine.mem
           /\ Fetched(instr).cs = machine.cs
           /\ Fetched(instr).flags = machine.flags
           /\ Fetched(instr).ip = Plus(machine.ip, instr.size)
BY DEF Fetched, IsMachine

LEMMA JumpedKeeps ==
    ASSUME NEW instr, NEW m, IsMachine(m), NEW n \in Jumped(instr, m)
    PROVE  /\ n.sp = m.sp /\ n.mem = m.mem /\ n.flags = m.flags
           /\ ~IsFar(instr) => n.cs = m.cs
<1>1. CASE instr.operand = "imm"
  BY <1>1 DEF Jumped, IsMachine
<1>2. CASE instr.operand = "cs_ip"
  BY <1>2, AtKeeps DEF Jumped, IsFar
<1>3. CASE instr.operand = "mem" /\ instr.far
  BY <1>3, AtKeeps DEF Jumped, IsFar
<1>4. CASE /\ instr.operand \notin {"imm", "cs_ip"}
           /\ ~ (instr.operand = "mem" /\ instr.far)
  BY <1>4, AtKeeps DEF Jumped
<1> QED BY <1>1, <1>2, <1>3, <1>4

LEMMA ComputedKeeps ==
    ASSUME NEW m, IsMachine(m), NEW cx, NEW f
    PROVE  Computed(m, cx, f).sp = m.sp /\ Computed(m, cx, f).mem = m.mem
BY DEF Computed, IsMachine

---------------------------------------------------------------------------
(* What an instruction does to stack and record preserves StackInv, and is *)
(* a step of the CallStack.                                                *)

StackStep == [Stack!Next]_(Stack!vars)

LEMMA AddressOf ==
    ASSUME IsMachine(machine)
    PROVE  /\ [cs |-> machine.cs, ip |-> machine.ip] \in Stack!Address
           /\ machine.flags \in Word
BY DEF IsMachine, Stack!Address

\* Neither stack nor record are touched.
LEMMA NothingPut ==
    ASSUME StackInv, IsMachine(machine), IsMachine(machine)', Kept,
           machine'.sp = machine.sp, machine'.mem = machine.mem
    PROVE  StackInv' /\ StackStep
<1>1. StackInv'
  BY DEF StackInv, Kept, Holds
<1>2. /\ [cs |-> machine'.cs, ip |-> machine'.ip] \in Stack!Address
      /\ machine'.flags \in Word
  BY DEF IsMachine, Stack!Address
<1>3. Stack!Go
  BY <1>2 DEF Stack!Go, Kept
<1> QED BY <1>1, <1>3 DEF StackStep, Stack!Next

\* A lost program is not followed.
LEMMA LostStays ==
    ASSUME StackInv, IsMachine(machine)', lost' = TRUE, entries' = <<>>
    PROVE  StackInv' /\ StackStep
<1>1. StackInv'
  BY DEF StackInv
<1>2. /\ [cs |-> machine'.cs, ip |-> machine'.ip] \in Stack!Address
      /\ machine'.flags \in Word
  BY DEF IsMachine, Stack!Address
<1>3. Stack!GetLost
  BY <1>2 DEF Stack!GetLost
<1> QED BY <1>1, <1>3 DEF StackStep, Stack!Next

\* What an instruction that opens an entry has to show: the words of the
\* entry are below the others, in the order in which they are taken off.
Puts(kind, instr) ==
    LET d == Depth(entries) + EntryWords(kind)
    IN  /\ d <= StackWords
        /\ machine'.sp = Top(d)
        /\ \A c \in 1..Depth(entries) : machine'.mem[Top(c)] = machine.mem[Top(c)]
        /\ kind \in {"near", "far", "interrupt"} =>
              machine'.mem[Top(d)] = Plus(machine.ip, instr.size)
        /\ kind \in {"far", "interrupt"} => machine'.mem[Top(d - 1)] = machine.cs
        /\ kind = "interrupt" => machine'.mem[Top(d - 2)] = machine.flags
        /\ kind = "flags" => machine'.mem[Top(d)] = machine.flags
        /\ machine'.flags = machine.flags
        /\ kind \in {"near", "flags", "data"} => machine'.cs = machine.cs
        /\ kind \in {"flags", "data"} => machine'.ip = Plus(machine.ip, instr.size)

\* The entry of an instruction.
Entering(kind, instr) ==
    [kind |-> kind, flags |-> machine.flags,
     at |-> [cs |-> machine.cs, ip |-> Plus(machine.ip, instr.size)]]

LEMMA EnteringTyped ==
    ASSUME IsMachine(machine), NEW instr \in Instruction, NEW kind \in Stack!Kinds
    PROVE  Entering(kind, instr) \in Stack!Entry
<1>1. Plus(machine.ip, instr.size) \in Word
  BY PlusWord DEF IsMachine, Instruction
<1>2. machine.cs \in Word /\ machine.flags \in Word
  BY DEF IsMachine
<1> QED BY <1>1, <1>2 DEF Entering, Stack!Entry, Stack!Address

LEMMA PutHolds ==
    ASSUME StackInv, IsMachine(machine), NEW instr \in Instruction,
           NEW kind \in Stack!Kinds, ~lost, Opened(kind, instr), Puts(kind, instr)
    PROVE  StackInv'
<1> DEFINE e == Entering(kind, instr)
           s == Append(entries, e)
           d == Depth(entries) + EntryWords(kind)
<1>1. e \in Stack!Entry
  BY EnteringTyped
<1>2. e.kind = kind /\ e.flags = machine.flags /\ e.at.cs = machine.cs
      /\ e.at.ip = Plus(machine.ip, instr.size)
  BY DEF Entering
<1>3. entries' = s /\ lost' = lost
  BY DEF Opened, Entering
<1> HIDE DEF e
<1>4. entries \in Seq(Stack!Entry) /\ s \in Seq(Stack!Entry)
  BY <1>1 DEF StackInv
<1>5. /\ Len(entries) \in Nat /\ Len(s) = Len(entries) + 1
      /\ s[Len(entries) + 1] = e
      /\ \A n \in 1..Len(entries) : s[n] = entries[n]
  BY <1>4
<1>6. /\ Depth(s) = d
      /\ \A n \in 1..Len(entries) : WordsOf(s, n) = WordsOf(entries, n)
  BY <1>2, <1>4, DepthOfPut
<1>7. WordsOf(s, Len(s)) = d
  BY <1>6 DEF Depth
<1> HIDE DEF s
<1>8. InMemory(machine'.mem, s, Len(s))
  BY <1>2, <1>5, <1>7 DEF Puts, InMemory
<1>9. ASSUME NEW n \in 1..Len(entries)
      PROVE  InMemory(machine'.mem, s, n)
  <2> DEFINE w == WordsOf(entries, n)
  <2>1. InMemory(machine.mem, entries, n)
    BY DEF StackInv, Holds
  <2>2. w \in 1..Depth(entries) /\ Depth(entries) \in Nat
    BY <1>4, DepthNat
  <2>3. w = WordsOf(entries, n - 1) + EntryWords(entries[n].kind)
        /\ WordsOf(entries, n - 1) \in Nat
    <3>1. n - 1 \in Nat /\ (n - 1) + 1 = n
      BY <1>5
    <3> QED BY <3>1, WordsNext, WordsFinite
  <2>4. WordsOf(s, n) = w /\ s[n] = entries[n]
    BY <1>5, <1>6
  <2> HIDE DEF w
  <2>5. machine'.mem[Top(w)] = machine.mem[Top(w)]
    BY <2>2 DEF Puts
  <2>6. entries[n].kind \in {"far", "interrupt"} =>
            w - 1 \in 1..Depth(entries)
    BY <2>2, <2>3, EntryTakes
  <2>7. entries[n].kind = "interrupt" => w - 2 \in 1..Depth(entries)
    BY <2>2, <2>3, EntryTakes
  <2>8. entries[n].kind \in {"far", "interrupt"} =>
            machine'.mem[Top(w - 1)] = machine.mem[Top(w - 1)]
    BY <2>6 DEF Puts
  <2>9. entries[n].kind = "interrupt" =>
            machine'.mem[Top(w - 2)] = machine.mem[Top(w - 2)]
    BY <2>7 DEF Puts
  <2>10. WordsOf(entries, n) = w
    BY DEF w
  <2> QED BY <2>1, <2>4, <2>5, <2>8, <2>9, <2>10 DEF InMemory
<1>10. Holds(machine', s)
  <2>1. \A n \in 1..Len(s) : InMemory(machine'.mem, s, n)
    BY <1>5, <1>8, <1>9
  <2> QED BY <1>6, <2>1 DEF Holds, Puts
<1> QED BY <1>3, <1>4, <1>10 DEF StackInv

\* ... and it enters, or saves.
LEMMA PutSteps ==
    ASSUME IsMachine(machine), IsMachine(machine)', NEW instr \in Instruction,
           NEW kind \in Stack!Kinds, ~lost, Opened(kind, instr), Puts(kind, instr)
    PROVE  Stack!Next
<1> DEFINE e == Entering(kind, instr)
<1>1. entries' = Append(entries, e) /\ lost' = lost
  BY DEF Opened, Entering
<1>2. /\ [cs |-> machine'.cs, ip |-> machine'.ip] \in Stack!Address
      /\ machine'.flags = machine.flags
  BY DEF IsMachine, Stack!Address, Puts
<1>3. instr.size \in 1..6
  BY DEF Instruction
<1>4. e \in {[kind |-> kind, flags |-> machine.flags,
              at |-> [cs |-> machine.cs, ip |-> (machine.ip + n) % 65536]] :
              n \in 1..6}
  BY <1>3 DEF Entering, Plus, Words
<1>5. /\ kind \notin Stack!Calls =>
             [cs |-> machine'.cs, ip |-> machine'.ip] = e.at
      /\ kind = "near" => machine'.cs = machine.cs
  BY DEF Puts, Entering, Stack!Kinds, Stack!Calls
<1> HIDE DEF e
<1>6. Stack!PutOn(kind)
  BY <1>1, <1>4, <1>5 DEF Stack!PutOn
<1>7. CASE kind \in Stack!Calls
  <2>1. Stack!Enter(kind)
    BY <1>1, <1>2, <1>6, <1>7 DEF Stack!Enter
  <2> QED BY <2>1 DEF Stack!Next
<1>8. CASE kind \notin Stack!Calls
  <2>1. Stack!Save(kind)
    BY <1>1, <1>2, <1>6, <1>8 DEF Stack!Save
  <2> QED BY <2>1 DEF Stack!Next
<1> QED BY <1>7, <1>8

LEMMA EntryPut ==
    ASSUME StackInv, IsMachine(machine), IsMachine(machine)',
           NEW instr \in Instruction,
           NEW kind \in Stack!Kinds, Opened(kind, instr),
           ~lost => Puts(kind, instr)
    PROVE  StackInv' /\ StackStep
<1>1. CASE lost
  BY <1>1, LostStays DEF Opened, StackInv
<1>2. CASE ~lost
  BY <1>2, PutHolds, PutSteps DEF StackStep
<1> QED BY <1>1, <1>2

\* What an instruction that closes an entry has to show: it leaves the words
\* below, and goes on as the entry says, if it is what lies in memory.
Takes(kind) ==
    LET d == Depth(entries)
        w == EntryWords(kind)
        mem == machine.mem
    IN  /\ machine'.sp = Top(d - w)
        /\ machine'.mem = mem
        /\ kind \in {"near", "far", "interrupt"} => machine'.ip = mem[Top(d)]
        /\ kind = "near" => machine'.cs = machine.cs
        /\ kind \in {"far", "interrupt"} => machine'.cs = mem[Top(d - 1)]
        /\ kind = "interrupt" => machine'.flags = mem[Top(d - 2)]
        /\ kind = "flags" => machine'.flags = mem[Top(d)]
        /\ kind \in {"near", "far", "data"} => machine'.flags = machine.flags

\* The entry of this kind is the last one.
Tops(kind) == ~lost /\ entries # <<>> /\ Last(entries).kind = kind

LEMMA TakeHolds ==
    ASSUME StackInv, NEW kind, Tops(kind), Closed(kind), Takes(kind)
    PROVE  StackInv'
<1> DEFINE s == Front(entries)
<1>1. entries \in Seq(Stack!Entry) /\ entries # <<>> /\ ~lost
  BY DEF StackInv, Tops
<1>2. entries' = s /\ lost' = lost
  BY DEF Closed, Tops
<1>3. /\ s \in Seq(Stack!Entry) /\ Len(s) = Len(entries) - 1
      /\ \A n \in 1..Len(s) : s[n] = entries[n]
      /\ Depth(entries) = Depth(s) + EntryWords(kind)
      /\ \A n \in 1..Len(s) : WordsOf(s, n) = WordsOf(entries, n)
      /\ Len(entries) \in Nat
  BY <1>1, DepthOfRest DEF Tops
<1> HIDE DEF s
<1>4. Depth(s) \in Nat /\ EntryWords(kind) \in 1..3
  BY <1>3, DepthNat, EntryTakes
<1>5. machine'.sp = Top(Depth(s)) /\ Depth(s) <= StackWords
  <2>1. Depth(entries) <= StackWords /\ StackWords \in Nat
    BY <1>1, MachineAssumption DEF StackInv, Holds
  <2>2. Depth(entries) - EntryWords(kind) = Depth(s) /\ Depth(s) <= StackWords
    BY <1>3, <1>4, <2>1
  <2> QED BY <2>2 DEF Takes
<1>6. ASSUME NEW n \in 1..Len(s) PROVE InMemory(machine'.mem, s, n)
  <2>1. n \in 1..Len(entries)
    BY <1>3
  <2>2. InMemory(machine.mem, entries, n)
    BY <1>1, <2>1 DEF StackInv, Holds
  <2> QED BY <1>3, <2>2 DEF InMemory, Takes
<1>7. Holds(machine', s)
  BY <1>5, <1>6 DEF Holds
<1> QED BY <1>1, <1>2, <1>3, <1>7 DEF StackInv

\* ... and it leaves, or restores.
LEMMA TakeSteps ==
    ASSUME StackInv, IsMachine(machine), IsMachine(machine)',
           NEW kind \in Stack!Kinds, Tops(kind), Closed(kind), Takes(kind)
    PROVE  Stack!Next
<1> DEFINE e == Last(entries)
<1>1. entries \in Seq(Stack!Entry) /\ entries # <<>> /\ ~lost
  BY DEF StackInv, Tops
<1>2. entries' = Front(entries) /\ lost' = lost
  BY DEF Closed, Tops
<1>3. /\ e = entries[Len(entries)] /\ e.kind = kind
      /\ Len(entries) \in 1..Len(entries) /\ e \in Stack!Entry
  BY <1>1, DepthOfRest DEF Tops
<1>4. InMemory(machine.mem, entries, Len(entries))
  BY <1>1, <1>3 DEF StackInv, Holds
<1>5. WordsOf(entries, Len(entries)) = Depth(entries)
  BY DEF Depth
<1>6. Stack!Open(kind)
  BY <1>1, <1>3 DEF Stack!Open, Stack!Last, Last
<1> HIDE DEF e
<1>7. /\ kind \in {"near", "far", "interrupt"} => machine'.ip = e.at.ip
      /\ kind \in {"far", "interrupt"} => machine'.cs = e.at.cs
      /\ kind \in {"flags", "interrupt"} => machine'.flags = e.flags
      /\ kind = "near" => machine'.cs = machine.cs
      /\ kind \in {"near", "far", "data"} => machine'.flags = machine.flags
  BY <1>3, <1>4, <1>5 DEF InMemory, Takes
<1>8. e.at = [cs |-> e.at.cs, ip |-> e.at.ip]
  BY <1>3 DEF Stack!Entry, Stack!Address
<1>9. [cs |-> machine'.cs, ip |-> machine'.ip] \in Stack!Address
  BY DEF IsMachine, Stack!Address
<1>10. CASE kind \in Stack!Calls
  <2>1. [cs |-> machine'.cs, ip |-> machine'.ip]
        = IF kind = "near" THEN [cs |-> machine.cs, ip |-> e.at.ip] ELSE e.at
    BY <1>7, <1>8, <1>10 DEF Stack!Calls
  <2>2. machine'.flags = IF kind = "interrupt" THEN e.flags ELSE machine.flags
    BY <1>7, <1>10 DEF Stack!Calls
  <2>3. [[cs |-> machine.cs, ip |-> machine.ip] EXCEPT !.ip = e.at.ip]
        = [cs |-> machine.cs, ip |-> e.at.ip]
    OBVIOUS
  <2>4. Stack!Leave(kind)
    BY <1>2, <1>6, <1>10, <2>1, <2>2, <2>3 DEF Stack!Leave, Stack!Last, Last, Stack!Front, Front, e
  <2> QED BY <2>4 DEF Stack!Next
<1>11. CASE kind \notin Stack!Calls
  <2>1. machine'.flags = IF kind = "flags" THEN e.flags ELSE machine.flags
    BY <1>7, <1>11 DEF Stack!Calls, Stack!Kinds
  <2>2. Stack!Restore(kind)
    BY <1>2, <1>6, <1>9, <1>11, <2>1 DEF Stack!Restore, Stack!Last, Last, Stack!Front, Front, e
  <2> QED BY <2>2 DEF Stack!Next
<1> QED BY <1>10, <1>11

LEMMA EntryTaken ==
    ASSUME StackInv, IsMachine(machine), IsMachine(machine)',
           NEW kind, Closed(kind), Tops(kind) => Takes(kind)
    PROVE  StackInv' /\ StackStep
<1>1. CASE ~ Tops(kind)
  BY <1>1, LostStays DEF Closed, Tops
<1>2. CASE Tops(kind)
  <2>1. kind \in Stack!Kinds
    <3>1. entries \in Seq(Stack!Entry) /\ entries # <<>>
      BY <1>2 DEF StackInv, Tops
    <3>2. Last(entries) \in Stack!Entry
      BY <3>1, DepthOfRest
    <3> QED BY <1>2, <3>2 DEF Tops, Stack!Entry
  <2> QED BY <1>2, <2>1, TakeHolds, TakeSteps DEF StackStep
<1> QED BY <1>1, <1>2

---------------------------------------------------------------------------
(* The instructions.                                                       *)

CallsInv == MachineInv /\ StackInv

\* What the lemmas on instructions start from.
LEMMA CallsFetch ==
    ASSUME CallsInv, NEW instr \in Instructions
    PROVE  /\ instr \in Instruction
           /\ IsMachine(machine) /\ IsMachine(Fetched(instr))
           /\ Fetched(instr).sp = machine.sp /\ Fetched(instr).mem = machine.mem
           /\ Fetched(instr).cs = machine.cs
           /\ Fetched(instr).flags = machine.flags
           /\ Fetched(instr).ip = Plus(machine.ip, instr.size)
           /\ machine.cs \in Word /\ machine.flags \in Word
           /\ Plus(machine.ip, instr.size) \in Word
<1>1. IsMachine(machine) /\ IsMachine(Fetched(instr)) /\ instr \in Instruction
  BY Fetching DEF CallsInv
<1>2. Fetched(instr).ip \in Word /\ machine.cs \in Word /\ machine.flags \in Word
  BY <1>1 DEF IsMachine
<1> QED BY <1>1, <1>2, FetchedKeeps

LEMMA DepthBounds ==
    ASSUME StackInv, ~lost
    PROVE  /\ Depth(entries) \in Nat /\ Depth(entries) <= StackWords
           /\ machine.sp = Top(Depth(entries))
BY DepthNat DEF StackInv, Holds

LEMMA KindsAre == {"near", "far", "interrupt", "flags", "data"} \subseteq Stack!Kinds
BY DEF Stack!Kinds, Stack!Calls

LEMMA CallPuts ==
    ASSUME CallsInv, IsMachine(machine)', NEW instr \in Instructions,
           UncondJump(instr), instr.op = "call",
           NEW kind, kind = IF IsFar(instr) THEN "far" ELSE "near",
           Opened(kind, instr)
    PROVE  StackInv' /\ StackStep
<1> DEFINE m == Fetched(instr)
           d == Depth(entries)
<1>1. instr \in Instruction /\ IsMachine(machine) /\ kind \in Stack!Kinds
  BY CallsFetch, KindsAre
<1>2. ASSUME ~lost PROVE Puts(kind, instr)
  <2>1. /\ d \in Nat /\ d <= StackWords /\ machine.sp = Top(d)
    BY <1>2, DepthBounds DEF CallsInv
  <2>2. /\ IsMachine(m) /\ m.sp = machine.sp /\ m.mem = machine.mem
        /\ m.cs = machine.cs /\ m.flags = machine.flags
        /\ m.ip = Plus(machine.ip, instr.size)
        /\ m.cs \in Word /\ m.ip \in Word
    BY CallsFetch
  <2>3. PICK n \in Jumped(instr, Saved(instr, m)) : machine' = n
    BY DEF UncondJump, Executed
  <2>4. HasRoom(IF IsFar(instr) THEN 2 ELSE 1)
    BY DEF UncondJump
  <2> HIDE DEF m, d
  <2>5. CASE ~IsFar(instr)
    <3> DEFINE n1 == push_to_stack(m, m.ip)
    <3>1. d + 1 <= StackWords
      BY <2>1, <2>4, <2>5, RoomFor
    <3>2. /\ IsMachine(n1) /\ n1.cs = m.cs /\ n1.flags = m.flags
          /\ n1.sp = Top(d + 1) /\ n1.mem[Top(d + 1)] = m.ip
          /\ \A e \in 1..d : n1.mem[Top(e)] = m.mem[Top(e)]
      BY <2>1, <2>2, <3>1, PushPuts
    <3>3. n \in Jumped(instr, n1)
      BY <2>3, <2>5 DEF Saved
    <3> HIDE DEF n1
    <3>4. n.sp = n1.sp /\ n.mem = n1.mem /\ n.flags = n1.flags /\ n.cs = n1.cs
      BY <2>5, <3>2, <3>3, JumpedKeeps
    <3>5. kind = "near" /\ EntryWords(kind) = 1
      BY <2>5, EntryTakes
    <3> QED BY <2>2, <2>3, <3>1, <3>2, <3>4, <3>5 DEF Puts, d
  <2>6. CASE IsFar(instr)
    <3> DEFINE n1 == push_to_stack(m, m.cs)
               n2 == push_to_stack(n1, m.ip)
    <3>1. d + 2 <= StackWords /\ d + 1 <= StackWords /\ (d + 1) + 1 = d + 2
          /\ d + 1 \in Nat /\ (d + 2) - 1 = d + 1
      BY <2>1, <2>4, <2>6, RoomFor, MachineAssumption
    <3>2. /\ IsMachine(n1) /\ n1.ip = m.ip /\ n1.flags = m.flags
          /\ n1.sp = Top(d + 1) /\ n1.mem[Top(d + 1)] = m.cs
          /\ \A e \in 1..d : n1.mem[Top(e)] = m.mem[Top(e)]
      BY <2>1, <2>2, <3>1, PushPuts
    <3>3. n \in Jumped(instr, n2)
      BY <2>3, <2>6 DEF Saved
    <3> HIDE DEF n1
    <3>4. /\ IsMachine(n2) /\ n2.flags = n1.flags
          /\ n2.sp = Top(d + 2) /\ n2.mem[Top(d + 2)] = m.ip
          /\ \A e \in 1..(d + 1) : n2.mem[Top(e)] = n1.mem[Top(e)]
      BY <2>2, <3>1, <3>2, PushPuts
    <3> HIDE DEF n2
    <3>5. n.sp = n2.sp /\ n.mem = n2.mem /\ n.flags = n2.flags
      BY <3>3, <3>4, JumpedKeeps
    <3>6. kind = "far" /\ EntryWords(kind) = 2
      BY <2>6, EntryTakes
    <3>7. /\ d + 1 \in 1..(d + 1)
          /\ \A e \in 1..d : e \in 1..(d + 1)
      BY <2>1
    <3>8. /\ n.mem[Top(d + 1)] = m.cs
          /\ \A e \in 1..d : n.mem[Top(e)] = m.mem[Top(e)]
      BY <3>2, <3>4, <3>5, <3>7
    <3> QED BY <2>2, <2>3, <3>1, <3>2, <3>4, <3>5, <3>6, <3>8 DEF Puts, d
  <2> QED BY <2>5, <2>6
<1> QED BY <1>1, <1>2, EntryPut DEF CallsInv

LEMMA InterruptPuts ==
    ASSUME CallsInv, IsMachine(machine)', NEW instr \in Instructions,
           Interrupt(instr) \/ DivideThrows(instr), Opened("interrupt", instr)
    PROVE  StackInv' /\ StackStep
<1> DEFINE m == Fetched(instr)
           d == Depth(entries)
<1>1. /\ instr \in Instruction /\ IsMachine(machine)
      /\ "interrupt" \in Stack!Kinds
  BY CallsFetch, KindsAre
<1>2. ASSUME ~lost PROVE Puts("interrupt", instr)
  <2>1. /\ d \in Nat /\ d <= StackWords /\ machine.sp = Top(d)
    BY <1>2, DepthBounds DEF CallsInv
  <2>2. /\ IsMachine(m) /\ m.sp = machine.sp /\ m.mem = machine.mem
        /\ m.cs = machine.cs /\ m.flags = machine.flags
        /\ m.ip = Plus(machine.ip, instr.size)
        /\ m.cs \in Word /\ m.ip \in Word /\ m.flags \in Word
    BY CallsFetch
  <2>3. machine' \in Interrupted(m) /\ HasRoom(3)
    BY DEF Interrupt, DivideThrows, Executed
  <2> HIDE DEF m, d
  <2> DEFINE n1 == push_to_stack(m, m.flags)
             n2 == push_to_stack(n1, n1.cs)
             n3 == push_to_stack(n2, n2.ip)
             saved == push_to_stack(push_to_stack(push_to_stack(
                        m, m.flags), m.cs), m.ip)
  <2>4. /\ d + 1 <= StackWords /\ d + 2 <= StackWords /\ d + 3 <= StackWords
        /\ d + 1 \in Nat /\ (d + 1) + 1 = d + 2 /\ d + 2 \in Nat
        /\ (d + 2) + 1 = d + 3 /\ (d + 3) - 1 = d + 2 /\ (d + 3) - 2 = d + 1
    BY <2>1, <2>3, RoomFor, MachineAssumption
  <2>5. /\ IsMachine(n1) /\ n1.ip = m.ip /\ n1.cs = m.cs /\ n1.flags = m.flags
        /\ n1.sp = Top(d + 1) /\ n1.mem[Top(d + 1)] = m.flags
        /\ \A e \in 1..d : n1.mem[Top(e)] = m.mem[Top(e)]
    BY <2>1, <2>2, <2>4, PushPuts
  <2>6. /\ IsMachine(n2) /\ n2.ip = m.ip /\ n2.flags = m.flags
        /\ n2.sp = Top(d + 2) /\ n2.mem[Top(d + 2)] = m.cs
        /\ \A e \in 1..(d + 1) : n2.mem[Top(e)] = n1.mem[Top(e)]
    <3> HIDE DEF n1
    <3> QED BY <2>2, <2>4, <2>5, PushPuts
  <2>7. /\ IsMachine(n3) /\ n3.flags = m.flags
        /\ n3.sp = Top(d + 3) /\ n3.mem[Top(d + 3)] = m.ip
        /\ \A e \in 1..(d + 2) : n3.mem[Top(e)] = n2.mem[Top(e)]
    <3> HIDE DEF n2
    <3> QED BY <2>2, <2>4, <2>6, PushPuts
  <2>8. saved = n3
    BY <2>5, <2>6
  <2>9. PICK cs \in Loaded, ip \in Loaded : machine' = At(saved, cs, ip)
    BY <2>3 DEF Interrupted
  <2> HIDE DEF n1, n2, n3, saved
  <2>10. /\ machine'.sp = n3.sp /\ machine'.mem = n3.mem
         /\ machine'.flags = n3.flags
    BY <2>7, <2>8, <2>9, AtKeeps
  <2>11. /\ d + 1 \in 1..(d + 1) /\ d + 1 \in 1..(d + 2) /\ d + 2 \in 1..(d + 2)
         /\ \A e \in 1..d : e \in 1..(d + 1) /\ e \in 1..(d + 2)
    BY <2>1
  <2>12. /\ n3.mem[Top(d + 1)] = m.flags /\ n3.mem[Top(d + 2)] = m.cs
         /\ \A e \in 1..d : n3.mem[Top(e)] = m.mem[Top(e)]
    BY <2>5, <2>6, <2>7, <2>11
  <2>13. EntryWords("interrupt") = 3
    BY EntryTakes
  <2> QED BY <2>2, <2>4, <2>7, <2>10, <2>12, <2>13 DEF Puts, d
<1> QED BY <1>1, <1>2, EntryPut DEF CallsInv

LEMMA PushPutsEntry ==
    ASSUME CallsInv, IsMachine(machine)', NEW instr \in Instructions,
           NEW kind \in {"flags", "data"}, Opened(kind, instr),
           kind = "flags" => Pushf(instr), kind = "data" => Push(instr)
    PROVE  StackInv' /\ StackStep
<1> DEFINE m == Fetched(instr)
           d == Depth(entries)
<1>1. instr \in Instruction /\ IsMachine(machine) /\ kind \in Stack!Kinds
  BY CallsFetch, KindsAre
<1>2. ASSUME ~lost PROVE Puts(kind, instr)
  <2>1. /\ d \in Nat /\ d <= StackWords /\ machine.sp = Top(d)
    BY <1>2, DepthBounds DEF CallsInv
  <2>2. /\ IsMachine(m) /\ m.sp = machine.sp /\ m.mem = machine.mem
        /\ m.cs = machine.cs /\ m.flags = machine.flags
        /\ m.ip = Plus(machine.ip, instr.size) /\ machine.flags \in Word
    BY CallsFetch
  <2>3. HasRoom(1)
    BY DEF Push, Pushf
  <2>4. PICK w \in Word : /\ machine' = push_to_stack(m, w)
                          /\ kind = "flags" => w = machine.flags
    BY <2>2, LoadedWords DEF Push, Pushf, Executed
  <2> HIDE DEF m, d
  <2>5. d + 1 <= StackWords
    BY <2>1, <2>3, RoomFor
  <2>6. /\ machine'.ip = m.ip /\ machine'.cs = m.cs /\ machine'.flags = m.flags
        /\ machine'.sp = Top(d + 1) /\ machine'.mem[Top(d + 1)] = w
        /\ \A e \in 1..d : machine'.mem[Top(e)] = m.mem[Top(e)]
    BY <2>1, <2>2, <2>4, <2>5, PushPuts
  <2>7. EntryWords(kind) = 1
    BY EntryTakes
  <2> QED BY <2>2, <2>4, <2>5, <2>6, <2>7 DEF Puts, d
<1> QED BY <1>1, <1>2, EntryPut DEF CallsInv

LEMMA PlusZero ==
    ASSUME NEW w \in Word
    PROVE  Plus(w, 0) = w
BY WordsFacts DEF Plus, Word

\* What lies below the entry on top.
LEMMA TopEntry ==
    ASSUME StackInv, NEW kind, Tops(kind)
    PROVE  /\ kind \in Stack!Kinds
           /\ Depth(entries) \in EntryWords(kind)..StackWords
           /\ machine.sp = Top(Depth(entries))
<1>1. entries \in Seq(Stack!Entry) /\ entries # <<>> /\ ~lost
  BY DEF StackInv, Tops
<1>2. /\ Last(entries) \in Stack!Entry /\ Front(entries) \in Seq(Stack!Entry)
      /\ Depth(entries) = Depth(Front(entries)) + EntryWords(kind)
  BY <1>1, DepthOfRest DEF Tops
<1>3. Depth(Front(entries)) \in Nat
  BY <1>2, DepthNat
<1>4. StackWords \in Nat
  BY MachineAssumption
<1> QED BY <1>1, <1>2, <1>3, <1>4, DepthBounds, EntryTakes
    DEF Tops, Stack!Entry

LEMMA ReturnTakes ==
    ASSUME CallsInv, IsMachine(machine)', NEW instr \in Instructions,
           Return(instr), Closed(ReturnKind(instr))
    PROVE  StackInv' /\ StackStep
<1> DEFINE m == Fetched(instr)
           d == Depth(entries)
           kind == ReturnKind(instr)
           offset == IF instr.operand = "imm" THEN instr.imm ELSE 0
<1>1. ASSUME Tops(kind) PROVE Takes(kind)
  <2>1. /\ kind \in Stack!Kinds /\ d \in EntryWords(kind)..StackWords
        /\ machine.sp = Top(d) /\ d \in Int
    BY <1>1, TopEntry, EntryTakes, MachineAssumption DEF CallsInv
  <2>2. /\ IsMachine(m) /\ m.sp = machine.sp /\ m.mem = machine.mem
        /\ m.cs = machine.cs /\ m.flags = machine.flags
    BY CallsFetch
  <2>3. /\ offset = 0
        /\ \/ kind = "near" /\ instr.op = "ret"
           \/ kind = "far" /\ instr.op # "ret"
    BY <2>1 DEF ReturnKind, Stack!Kinds, Stack!Calls
  <2>4. d \in 1..StackWords
    BY <2>1, <2>3, EntryTakes
  <2>5. \/ /\ kind = "near"
           /\ \E ip \in TopWord(m) : machine' = At(Popped(m), m.cs, Plus(ip, 0))
        \/ /\ kind = "far"
           /\ \E ip \in TopWord(m), cs \in TopWord(Popped(m)) :
                 machine' = At(Popped(Popped(m)), cs, Plus(ip, 0))
    BY <2>3 DEF Return, Executed
  <2> HIDE DEF m, kind, d
  <2>6. /\ TopWord(m) = {m.mem[Top(d)]} /\ TopWord(m) \subseteq Word
        /\ IsMachine(Popped(m)) /\ Popped(m).sp = Top(d - 1)
        /\ Popped(m).mem = m.mem /\ Popped(m).flags = m.flags
        /\ Popped(m).cs = m.cs
    BY <2>1, <2>2, <2>4, PopTakes, TopIsWord
  <2>7. Plus(m.mem[Top(d)], 0) = m.mem[Top(d)]
    BY <2>6, PlusZero
  <2>8. CASE kind = "near"
    <3>1. machine' = At(Popped(m), m.cs, m.mem[Top(d)])
      BY <2>5, <2>6, <2>7, <2>8
    <3>2. EntryWords(kind) = 1
      BY <2>8, EntryTakes
    <3> QED BY <2>2, <2>6, <2>8, <3>1, <3>2, AtKeeps DEF Takes, d
  <2>9. CASE kind = "far"
    <3> DEFINE n == Popped(m)
    <3>1. d - 1 \in 1..StackWords /\ (d - 1) - 1 = d - 2 /\ EntryWords(kind) = 2
      BY <2>1, <2>9, EntryTakes, MachineAssumption
    <3>2. IsMachine(n) /\ n.sp = Top(d - 1) /\ n.mem = m.mem /\ n.flags = m.flags
      BY <2>6
    <3>3. PICK cs \in TopWord(n) : machine' = At(Popped(n), cs, m.mem[Top(d)])
      BY <2>5, <2>6, <2>7, <2>9
    <3> HIDE DEF n
    <3>4. /\ TopWord(n) = {n.mem[Top(d - 1)]}
          /\ IsMachine(Popped(n)) /\ Popped(n).sp = Top(d - 2)
          /\ Popped(n).mem = n.mem /\ Popped(n).flags = n.flags
      BY <3>1, <3>2, PopTakes
    <3> QED BY <2>2, <2>9, <3>1, <3>2, <3>3, <3>4, AtKeeps DEF Takes, d
  <2> QED BY <2>3, <2>8, <2>9 DEF kind
<1>2. IsMachine(machine) /\ StackInv
  BY CallsFetch DEF CallsInv
<1> QED BY <1>1, <1>2, EntryTaken

LEMMA IretTakes ==
    ASSUME CallsInv, IsMachine(machine)', NEW instr \in Instructions,
           Iret(instr), Closed("interrupt")
    PROVE  StackInv' /\ StackStep
<1> DEFINE m == Fetched(instr)
           d == Depth(entries)
           kind == "interrupt"
<1>1. ASSUME Tops(kind) PROVE Takes(kind)
  <2>1. /\ d \in 3..StackWords /\ machine.sp = Top(d) /\ d \in Int
        /\ EntryWords(kind) = 3
    BY <1>1, TopEntry, EntryTakes, MachineAssumption DEF CallsInv
  <2>2. /\ IsMachine(m) /\ m.sp = machine.sp /\ m.mem = machine.mem
    BY CallsFetch
  <2> DEFINE n1 == Popped(m)
             n2 == Popped(n1)
             n3 == Popped(n2)
  <2>3. PICK ip \in TopWord(m), cs \in TopWord(n1), flags \in TopWord(n2) :
           machine' = [At(n3, cs, ip) EXCEPT !.flags = flags]
    BY DEF Iret, Executed
  <2> HIDE DEF m, d
  <2>4. /\ d \in 1..StackWords /\ d - 1 \in 1..StackWords
        /\ d - 2 \in 1..StackWords /\ (d - 1) - 1 = d - 2 /\ (d - 2) - 1 = d - 3
    BY <2>1, MachineAssumption
  <2>5. /\ TopWord(m) = {m.mem[Top(d)]} /\ IsMachine(n1)
        /\ n1.sp = Top(d - 1) /\ n1.mem = m.mem
    BY <2>1, <2>2, <2>4, PopTakes
  <2>6. /\ TopWord(n1) = {m.mem[Top(d - 1)]} /\ IsMachine(n2)
        /\ n2.sp = Top(d - 2) /\ n2.mem = m.mem
    <3> HIDE DEF n1
    <3> QED BY <2>4, <2>5, PopTakes
  <2>7. /\ TopWord(n2) = {m.mem[Top(d - 2)]} /\ IsMachine(n3)
        /\ n3.sp = Top(d - 3) /\ n3.mem = m.mem
    <3> HIDE DEF n2
    <3> QED BY <2>4, <2>6, PopTakes
  <2> DEFINE n == At(n3, cs, ip)
  <2>8. /\ IsMachine(n) /\ n.sp = n3.sp /\ n.mem = n3.mem /\ n.cs = cs /\ n.ip = ip
    <3>1. ip \in Word /\ cs \in Word
      BY <2>2, <2>3, <2>5, TopIsWord
    <3> HIDE DEF n1, n2, n3
    <3> QED BY <2>7, <3>1, AtKeeps, AtMachine
  <2>9. machine' = [n EXCEPT !.flags = flags]
    BY <2>3
  <2> HIDE DEF n1, n2, n3, n
  <2>10. /\ machine'.sp = n.sp /\ machine'.mem = n.mem /\ machine'.cs = n.cs
         /\ machine'.ip = n.ip /\ machine'.flags = flags
    BY <2>8, <2>9 DEF IsMachine
  <2> QED BY <2>1, <2>2, <2>3, <2>5, <2>6, <2>7, <2>8, <2>10 DEF Takes, d
<1>2. IsMachine(machine) /\ StackInv
  BY CallsFetch DEF CallsInv
<1> QED BY <1>1, <1>2, EntryTaken

LEMMA PopTakesEntry ==
    ASSUME CallsInv, IsMachine(machine)', NEW instr \in Instructions,
           NEW kind \in {"flags", "data"}, Closed(kind),
           kind = "flags" => Popf(instr), kind = "data" => Pop(instr)
    PROVE  StackInv' /\ StackStep
<1> DEFINE m == Fetched(instr)
           d == Depth(entries)
<1>1. ASSUME Tops(kind) PROVE Takes(kind)
  <2>1. /\ d \in 1..StackWords /\ machine.sp = Top(d) /\ EntryWords(kind) = 1
    BY <1>1, TopEntry, EntryTakes DEF CallsInv
  <2>2. /\ IsMachine(m) /\ m.sp = machine.sp /\ m.mem = machine.mem
        /\ m.flags = machine.flags
    BY CallsFetch
  <2> DEFINE n == Popped(m)
  <2>3. PICK word \in TopWord(m) :
           /\ kind = "flags" => machine' = [n EXCEPT !.flags = word]
           /\ kind = "data" => machine' \in {n, [n EXCEPT !.cx = word]}
    BY DEF Pop, Popf, Executed
  <2> HIDE DEF m, d
  <2>4. /\ TopWord(m) = {m.mem[Top(d)]} /\ IsMachine(n)
        /\ n.sp = Top(d - 1) /\ n.mem = m.mem /\ n.flags = m.flags
    BY <2>1, <2>2, PopTakes
  <2> HIDE DEF n
  <2>5. /\ machine'.sp = n.sp /\ machine'.mem = n.mem
        /\ kind = "flags" => machine'.flags = word
        /\ kind = "data" => machine'.flags = n.flags
    BY <2>3, <2>4 DEF IsMachine
  <2> QED BY <2>1, <2>2, <2>3, <2>4, <2>5 DEF Takes, d
<1>2. IsMachine(machine) /\ StackInv
  BY CallsFetch DEF CallsInv
<1> QED BY <1>1, <1>2, EntryTaken

\* The instructions that have nothing to do with the stack.
Others(instr) ==
    \/ UncondJump(instr) /\ instr.op = "jmp"
    \/ Prefix(instr) \/ JumpFails(instr) \/ CondJump(instr)
    \/ CountJump(instr) \/ ReturnStops(instr) \/ NoOverflow(instr)
    \/ Divide(instr) \/ Compute(instr) \/ OperandFails(instr)
    \/ String(instr) \/ FlagOp(instr) \/ Nop(instr) \/ Halt(instr)

LEMMA StepIs ==
    ASSUME NEW instr, CallsStep(instr)
    PROVE  \/ /\ UncondJump(instr) /\ instr.op # "jmp"
              /\ Opened(IF IsFar(instr) THEN "far" ELSE "near", instr)
           \/ (Interrupt(instr) \/ DivideThrows(instr)) /\ Opened("interrupt", instr)
           \/ Pushf(instr) /\ Opened("flags", instr)
           \/ Push(instr) /\ Opened("data", instr)
           \/ Return(instr) /\ Closed(ReturnKind(instr))
           \/ Iret(instr) /\ Closed("interrupt")
           \/ Popf(instr) /\ Closed("flags")
           \/ Pop(instr) /\ Closed("data")
           \/ Others(instr) /\ Kept
BY DEF CallsStep, Others

LEMMA OthersKeepStack ==
    ASSUME CallsInv, NEW instr \in Instructions, Others(instr)
    PROVE  machine'.sp = machine.sp /\ machine'.mem = machine.mem
<1> DEFINE m == Fetched(instr)
<1>1. IsMachine(m) /\ m.sp = machine.sp /\ m.mem = machine.mem
  BY CallsFetch
<1> HIDE DEF m
<1>2. CASE JumpFails(instr) \/ OperandFails(instr) \/ ReturnStops(instr)
  BY <1>2 DEF JumpFails, OperandFails, ReturnStops, Aborted, Terminated
<1>3. CASE Prefix(instr) \/ NoOverflow(instr) \/ Nop(instr) \/ Halt(instr)
  <2>1. machine' = m
    BY <1>3 DEF Prefix, NoOverflow, Nop, Halt, Executed, Terminated, m
  <2> QED BY <1>1, <2>1
<1>4. CASE UncondJump(instr) /\ instr.op = "jmp"
  <2>1. machine' \in Jumped(instr, m)
    BY <1>4 DEF UncondJump, Executed, Saved, m
  <2> QED BY <1>1, <2>1, JumpedKeeps
<1>5. CASE CondJump(instr)
  <2>1. machine' \in {m, [m EXCEPT !.ip = Plus(m.ip, instr.imm)]}
    BY <1>5 DEF CondJump, Executed, m
  <2> QED BY <1>1, <2>1 DEF IsMachine
<1>6. CASE CountJump(instr)
  <2>1. \E cx, ip : machine' = [m EXCEPT !.cx = cx, !.ip = ip]
    BY <1>6 DEF CountJump, Executed, m
  <2> QED BY <1>1, <2>1 DEF IsMachine
<1>7. CASE Divide(instr)
  <2>1. machine' = [m EXCEPT !.flags = WithStatus(m.flags, 0)]
    BY <1>7 DEF Divide, Executed, m
  <2> QED BY <1>1, <2>1 DEF IsMachine
<1>8. CASE Compute(instr)
  <2>1. \E f, cx : machine' = Computed(m, cx, f)
    BY <1>8 DEF Compute, Executed, m
  <2> QED BY <1>1, <2>1, ComputedKeeps
<1>9. CASE String(instr)
  <2>1. PICK n \in Repeated(instr, m) : machine' = n
    BY <1>9 DEF String, Executed, m
  <2>2. [m EXCEPT !.cx = 0].sp = m.sp /\ [m EXCEPT !.cx = 0].mem = m.mem
    BY <1>1 DEF IsMachine
  <2>3. \/ n = m \/ n = [m EXCEPT !.cx = 0]
        \/ \E cx, f : n = Computed(m, cx, f)
    BY RepeatedIs
  <2>4. \A cx, f : Computed(m, cx, f).sp = m.sp /\ Computed(m, cx, f).mem = m.mem
    BY <1>1, ComputedKeeps
  <2> QED BY <1>1, <2>1, <2>2, <2>3, <2>4
<1>10. CASE FlagOp(instr)
  <2>1. \E flags : machine' = [m EXCEPT !.flags = flags]
    BY <1>10 DEF FlagOp, Executed, m
  <2> QED BY <1>1, <2>1 DEF IsMachine
<1> QED BY <1>2, <1>3, <1>4, <1>5, <1>6, <1>7, <1>8, <1>9, <1>10 DEF Others

---------------------------------------------------------------------------
(* The invariant, and the theorems on the stack.                           *)

LEMMA CallsStart == CallsInit => CallsInv /\ Stack!Init
<1> SUFFICES ASSUME CallsInit PROVE CallsInv /\ Stack!Init
  OBVIOUS
<1>1. MachineInv /\ machine.sp = 0 /\ entries = <<>> /\ lost = FALSE
  BY MachineStarts DEF CallsInit, Init
<1>2. Depth(entries) = 0 /\ Len(entries) = 0
  BY <1>1, WordsNone DEF Depth
<1>3. Holds(machine, entries)
  BY <1>1, <1>2, TopIs, MachineAssumption DEF Holds
<1>4. StackInv
  <2>1. <<>> \in Seq(Stack!Entry)
    OBVIOUS
  <2>2. lost \in BOOLEAN
    BY <1>1
  <2> QED BY <1>1, <1>3, <2>1, <2>2 DEF StackInv
<1>5. Stack!Init
  BY <1>1, AddressOf DEF Stack!Init, MachineInv, TypeOK
<1> QED BY <1>1, <1>4, <1>5 DEF CallsInv

LEMMA InstructionSteps ==
    ASSUME CallsInv, IsMachine(machine)', NEW instr \in Instructions,
           CallsStep(instr)
    PROVE  StackInv' /\ StackStep
<1>1. IsMachine(machine) /\ StackInv
  BY CallsFetch DEF CallsInv
<1>2. CASE /\ UncondJump(instr) /\ instr.op # "jmp"
           /\ Opened(IF IsFar(instr) THEN "far" ELSE "near", instr)
  BY <1>2, CallPuts DEF UncondJump
<1>3. CASE (Interrupt(instr) \/ DivideThrows(instr)) /\ Opened("interrupt", instr)
  BY <1>3, InterruptPuts
<1>4. CASE Pushf(instr) /\ Opened("flags", instr)
  BY <1>4, PushPutsEntry
<1>5. CASE Push(instr) /\ Opened("data", instr)
  BY <1>5, PushPutsEntry
<1>6. CASE Return(instr) /\ Closed(ReturnKind(instr))
  BY <1>6, ReturnTakes
<1>7. CASE Iret(instr) /\ Closed("interrupt")
  BY <1>7, IretTakes
<1>8. CASE Popf(instr) /\ Closed("flags")
  BY <1>8, PopTakesEntry
<1>9. CASE Pop(instr) /\ Closed("data")
  BY <1>9, PopTakesEntry
<1>10. CASE Others(instr) /\ Kept
  BY <1>1, <1>10, OthersKeepStack, NothingPut
<1> QED BY StepIs, <1>2, <1>3, <1>4, <1>5, <1>6, <1>7, <1>8, <1>9, <1>10

LEMMA CallsSteps == CallsInv /\ [CallsNext]_callVars => CallsInv' /\ StackStep
<1> SUFFICES ASSUME CallsInv, [CallsNext]_callVars
             PROVE  CallsInv' /\ StackStep
  OBVIOUS
<1>1. MachineInv'
  BY RecordedNext, MachineSteps DEF CallsInv
<1>2. IsMachine(machine) /\ IsMachine(machine)' /\ StackInv
  BY <1>1 DEF CallsInv, MachineInv, TypeOK
<1>3. CASE UNCHANGED callVars
  <2>1. Kept /\ machine' = machine
    BY <1>3 DEF callVars, vars, Kept
  <2> QED BY <1>1, <1>2, <2>1, NothingPut DEF CallsInv
<1>4. CASE \E instr \in Instructions : CallsStep(instr)
  BY <1>1, <1>2, <1>4, InstructionSteps DEF CallsInv
<1>5. CASE (Finish \/ DecodeFails \/ DecodeAborts) /\ Kept
  <2>1. machine' = machine
    BY <1>5 DEF Finish, DecodeFails, DecodeAborts
  <2> QED BY <1>1, <1>2, <1>5, <2>1, NothingPut DEF CallsInv
<1> QED BY <1>3, <1>4, <1>5 DEF CallsNext

LEMMA CallsInvariant == CallsSpec => []CallsInv
BY CallsStart, CallsSteps, PTL DEF CallsSpec

LEMMA EntriesHeld == CallsInv => StackHoldsEntries
<1> SUFFICES ASSUME CallsInv, ~lost PROVE StackHoldsEntries
  BY DEF StackHoldsEntries
<1>1. entries \in Seq(Stack!Entry) /\ Holds(machine, entries)
  BY DEF CallsInv, StackInv
<1>2. machine.sp = Plus(0, -2 * WordsOf(entries, Len(entries)))
  BY <1>1 DEF Holds, Depth, Top
<1>3. ASSUME NEW n \in 1..Len(entries)
      PROVE  LET sp == Plus(0, -2 * WordsOf(entries, n))
                 entry == entries[n]
             IN  /\ entry.kind \in {"near", "far", "interrupt"} =>
                       machine.mem[sp] = entry.at.ip
                 /\ entry.kind \in {"far", "interrupt"} =>
                       machine.mem[sp + 2] = entry.at.cs
                 /\ entry.kind = "interrupt" =>
                       machine.mem[sp + 4] = entry.flags
                 /\ entry.kind = "flags" => machine.mem[sp] = entry.flags
  <2> DEFINE w == WordsOf(entries, n)
             e == entries[n]
  <2>1. InMemory(machine.mem, entries, n)
    BY <1>1 DEF Holds
  <2>2. n - 1 \in Nat /\ (n - 1) + 1 = n
    BY <1>1
  <2>3. w = WordsOf(entries, n - 1) + EntryWords(e.kind)
        /\ WordsOf(entries, n - 1) \in Nat /\ w \in 1..Depth(entries)
    BY <1>1, <2>2, WordsNext, WordsFinite, DepthNat
  <2>4. Depth(entries) <= StackWords /\ StackWords \in Nat /\ Depth(entries) \in Nat
    BY <1>1, DepthNat, MachineAssumption DEF Holds
  <2>5. InMemory(machine.mem, entries, n) <=>
            /\ e.kind \in {"near", "far", "interrupt"} =>
                  machine.mem[Top(w)] = e.at.ip
            /\ e.kind \in {"far", "interrupt"} => machine.mem[Top(w - 1)] = e.at.cs
            /\ e.kind = "interrupt" => machine.mem[Top(w - 2)] = e.flags
            /\ e.kind = "flags" => machine.mem[Top(w)] = e.flags
    BY DEF InMemory
  <2>6. Plus(0, -2 * WordsOf(entries, n)) = Top(w)
    BY DEF Top
  <2> HIDE DEF w, e
  <2>7. e.kind \in {"far", "interrupt"} =>
            w \in 2..StackWords /\ Top(w) + 2 = Top(w - 1)
    <3>1. e.kind \in {"far", "interrupt"} => w \in 1..StackWords /\ w > 1
      BY <2>3, <2>4, EntryTakes
    <3> QED BY <2>4, <3>1, TopUp
  <2>8. e.kind = "interrupt" => Top(w) + 4 = Top(w - 2)
    <3>1. e.kind = "interrupt" => w \in 1..StackWords /\ w - 1 \in 1..StackWords
                                 /\ w > 1 /\ w - 1 > 1 /\ (w - 1) - 1 = w - 2
      BY <2>3, <2>4, EntryTakes
    <3>2. e.kind = "interrupt" => /\ Top(w) = Words - 2 * w
                                 /\ Top(w) + 2 = Top(w - 1)
                                 /\ Top(w - 1) + 2 = Top(w - 2)
      BY <3>1, TopUp, TopIs
    <3>3. Words \in Nat /\ w \in Nat
      BY <2>3, WordsFacts
    <3> QED BY <3>2, <3>3
  <2> QED BY <2>1, <2>5, <2>6, <2>7, <2>8 DEF e
<1> QED BY <1>2, <1>3 DEF StackHoldsEntries

\* SP has moved by the words of the open entries, and each lies where its
\* return will look for it (push_to_stack, pop_from_stack and the order of the
\* calls to them), for every program and every size of the stack,
THEOREM StackIsRight == CallsSpec => []StackHoldsEntries
BY CallsInvariant, EntriesHeld, PTL

\* ... so that the words in memory and SP implement a stack of calls.
THEOREM CallStackImplemented == CallsSpec => ImplementsCallStack
<1>1. CallsInit => Stack!Init
  BY CallsStart
<1>2. CallsInv /\ [CallsNext]_callVars => [Stack!Next]_(Stack!vars)
  BY CallsSteps DEF StackStep
<1> QED BY <1>1, <1>2, CallsInvariant, PTL
    DEF CallsSpec, ImplementsCallStack, Stack!Spec

=============================================================================
