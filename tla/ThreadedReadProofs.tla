-------------------------- MODULE ThreadedReadProofs --------------------------
(***************************************************************************)
(* Theorems about ThreadedRead for every number and size of chunks and     *)
(* every content of the file.                                              *)
(***************************************************************************)
EXTENDS ThreadedRead, TLAPS

(***************************************************************************)
(* The inductive invariant, in three parts.                                *)
(***************************************************************************)

\* Where each thread is tells how far its loop has come.
LoopInv ==
  /\ mpc \in {"start", "spawn", "open"} => mi = 0 /\ fpos = 0
  /\ mpc \in {"start", "spawn"} => wpc = "none"
  /\ mpc \in {"spin", "copy", "publish"} => mi < Iters
  /\ mpc \in {"join", "cleanup", "validate", "done"} => mi = Iters
  /\ mpc \in {"cleanup", "validate", "done"} => wpc = "exit"
  /\ mpc = "aborted" <=> wpc = "killed"
  /\ wpc = "none" => wi = 0 /\ mpc \in {"start", "spawn"}
  /\ wpc \in {"spin", "sum", "release"} => wi < Iters
  /\ wpc = "exit" => wi = Iters
  /\ mpc \in {"copy", "publish"} \/ (mpc = "spin" /\ mi > 0) => opened
  /\ mpc = "copy" => fpos + mgot <= FileCells
  /\ mpc = "copy" => copied \subseteq 0 .. mgot - 1
  /\ mpc \in {"spawn", "open", "spin", "copy", "publish", "join", "cleanup"} => live

\* The flags are exactly the chunks in flight: wi .. mi - 1.
FlagInv ==
  /\ wi <= mi /\ mi <= wi + 2
  /\ state[BufOf(wi)] = "read" <=> wi < mi
  /\ state[BufOf(wi + 1)] = "read" <=> mi = wi + 2
  /\ mpc \in {"copy", "publish"} => mi <= wi + 1
  /\ wpc \in {"sum", "release"} => wi < mi

SafetyInv == TypeOK /\ LoopInv /\ FlagInv

\* Buffer k mod 2 holds the cells of chunk k.
Holds(k) == \A c \in Cells : mem[BufOf(k)][c] = Data[Start(k) + c]

\* What the buffers, the accumulator and the output hold when reads are complete.
ContentInv ==
  /\ mpc \in {"spin", "copy"} => fpos = Start(mi)
  /\ mpc = "publish" => fpos = Start(mi + 1)
  /\ mpc = "copy" => mgot = BufCells
  /\ mpc = "copy" => \A c \in copied : mem[BufOf(mi)][c] = Data[Start(mi) + c]
  /\ mpc = "publish" => Holds(mi)
  /\ \A k \in wi .. mi - 1 : Holds(k)
  /\ wpc = "sum" => wacc = Prefix[Start(wi) + wc] - Prefix[Start(wi)]
  /\ wpc \in {"none", "spin", "sum", "exit"} => work_sink = Prefix[Start(wi)]
  /\ wpc = "release" => work_sink = Prefix[Start(wi + 1)]

\* Every read delivers what it asks for, and one read can ask for the file.
CompleteReads == ReadFaults = FALSE /\ FileCells <= RequestLimit

----------------------------------------------------------------------------
(* Arithmetic *)

\* Consecutive chunks adjoin, and fit in the file.
LEMMA StartStep ==
  /\ Start(0) = 0
  /\ \A k \in Int : Start(k) \in Int /\ Start(k + 1) = Start(k) + BufCells
  /\ \A k \in 0 .. Iters : Start(k) \in 0 .. FileCells
  /\ Start(Iters) = FileCells
<1>1. \A k \in Int : Start(k) \in Int /\ Start(k + 1) = Start(k) + BufCells
  BY SizeAssumption DEF Start
<1>2. ASSUME NEW k \in 0 .. Iters PROVE Start(k) \in 0 .. FileCells
  <2>1. k * BufCells >= 0
    BY SizeAssumption
  <2>2. (Iters - k) * BufCells >= 0
    BY SizeAssumption
  <2>3. (Iters - k) * BufCells = Iters * BufCells - k * BufCells
    BY SizeAssumption
  <2> QED BY <2>1, <2>2, <2>3, SizeAssumption DEF Start, FileCells
<1>3. Start(0) = 0 /\ Start(Iters) = FileCells
  BY SizeAssumption DEF Start, FileCells
<1> QED BY <1>1, <1>2, <1>3

LEMMA FileCellsNat == FileCells \in Nat \ {0} /\ BufCells <= FileCells
<1>1. Iters * BufCells >= BufCells
  <2>1. (Iters - 1) * BufCells >= 0
    BY SizeAssumption
  <2>2. (Iters - 1) * BufCells = Iters * BufCells - BufCells
    BY SizeAssumption
  <2> QED BY <2>1, <2>2, SizeAssumption
<1>2. Iters * BufCells \in Int
  BY SizeAssumption
<1> QED BY <1>1, <1>2, SizeAssumption DEF FileCells

\* Neighbouring chunks use different buffers, every other one the same.
LEMMA BufAlternates ==
  \A k \in Int : /\ BufOf(k) \in Bufs
                 /\ BufOf(k + 1) # BufOf(k)
                 /\ BufOf(k + 2) = BufOf(k)
                 /\ Bufs = {BufOf(k), BufOf(k + 1)}
BY DEF BufOf, Bufs

\* A read never delivers more than was asked for, or than the file has left.
LEMMA DeliveredFits ==
  ASSUME NEW n \in Delivered(BufCells), fpos \in 0 .. FileCells
  PROVE  n \in 0 .. BufCells /\ fpos + n <= FileCells
<1>1. Transfer(BufCells) \in 0 .. BufCells
  BY SizeAssumption, PlatformAssumption DEF Transfer
<1>2. CASE ReadFaults
  BY <1>1, <1>2, SizeAssumption, FileCellsNat DEF Delivered
<1>3. CASE ~ReadFaults
  BY <1>1, <1>3, SizeAssumption, FileCellsNat DEF Delivered
<1> QED BY <1>2, <1>3

----------------------------------------------------------------------------
(* Safety of the buffers *)

LEMMA SafetyInit == Init => SafetyInv
<1> SUFFICES ASSUME Init PROVE SafetyInv
  OBVIOUS
<1>1. TypeOK
  <2>1. mem \in [Bufs -> [Cells -> Int]] /\ state \in [Bufs -> {"written", "read"}]
    BY DEF Init
  <2>2. mi \in 0 .. Iters /\ mgot \in 0 .. BufCells /\ fpos \in 0 .. FileCells
    BY SizeAssumption, FileCellsNat DEF Init
  <2>3. wi \in 0 .. Iters /\ wc \in 0 .. BufCells /\ wacc \in Int /\ work_sink \in Int
    BY SizeAssumption DEF Init
  <2> QED BY <2>1, <2>2, <2>3 DEF Init, TypeOK
<1>2. LoopInv
  BY DEF Init, LoopInv
<1>3. FlagInv
  BY BufAlternates DEF Init, FlagInv, Bufs
<1> QED BY <1>1, <1>2, <1>3 DEF SafetyInv

\* A failed assertion disturbs nothing but where the threads are.
LEMMA AbortSafety ==
  ASSUME SafetyInv, AbortProcess, mpc # "aborted"
  PROVE  SafetyInv'
BY DEF SafetyInv, TypeOK, LoopInv, FlagInv, AbortProcess, BufOf, Bufs, Cells

LEMMA SafetyNext == SafetyInv /\ [Next]_vars => SafetyInv'
<1> SUFFICES ASSUME SafetyInv, [Next]_vars PROVE SafetyInv'
  OBVIOUS
<1> USE DEF SafetyInv, mainVars, workerVars
<1>1. CASE AllocateBuffers
  BY <1>1, AbortSafety DEF AllocateBuffers, TypeOK, LoopInv, FlagInv, BufOf
<1>2. CASE SpawnWorker
  <2>1. CASE AbortProcess
    BY <1>2, <2>1, AbortSafety DEF SpawnWorker
  <2>2. CASE ~AbortProcess
    <3>1. /\ mpc = "spawn" /\ mpc' = "open" /\ wpc' = "spin"
          /\ UNCHANGED <<mi, copied, mgot, opened, fpos, wi, wc, wacc, state, mem, live, work_sink>>
      BY <1>2, <2>2 DEF SpawnWorker
    <3>2. TypeOK'
      BY <3>1 DEF TypeOK
    <3>3. LoopInv'
      <4>1. wi = 0 /\ mi = 0 /\ fpos = 0 /\ live
        BY <3>1 DEF LoopInv
      <4> QED BY <3>1, <4>1, SizeAssumption DEF LoopInv
    <3>4. FlagInv'
      BY <3>1 DEF FlagInv
    <3> QED BY <3>2, <3>3, <3>4
  <2> QED BY <2>1, <2>2
<1>3. CASE OpenFile
  BY <1>3, SizeAssumption DEF OpenFile, TypeOK, LoopInv, FlagInv, BufOf
<1>4. CASE BeginRead
  <2>1. CASE ~opened
    BY <1>4, <2>1, AbortSafety DEF BeginRead, EnterRead
  <2>2. CASE opened
    <3>1. mgot' \in 0 .. BufCells /\ fpos + mgot' <= FileCells
      BY <1>4, <2>2, DeliveredFits DEF BeginRead, EnterRead, TypeOK
    <3>2. mi # wi + 2
      BY <1>4, BufAlternates DEF BeginRead, MainMayEnter, TypeOK, FlagInv
    <3>3. copied' = {} /\ mpc' = "copy" /\ UNCHANGED <<mi, opened, fpos, workerVars, state, mem, live, work_sink>>
      BY <1>4, <2>2 DEF BeginRead, EnterRead
    <3>4. TypeOK'
      BY <3>1, <3>3 DEF TypeOK
    <3>5. LoopInv'
      BY <1>4, <2>2, <3>1, <3>3 DEF BeginRead, LoopInv
    <3>6. FlagInv'
      BY <1>4, <3>2, <3>3 DEF BeginRead, TypeOK, FlagInv
    <3> QED BY <3>4, <3>5, <3>6
  <2> QED BY <2>1, <2>2
<1>5. ASSUME NEW c \in Cells, CopyCell(c) PROVE SafetyInv'
  <2>1. Data[fpos + c] \in Int
    BY <1>5, DataAssumption, FileCellsNat DEF CopyCell, TypeOK, LoopInv, Cells
  <2>2. mem' \in [Bufs -> [Cells -> Int]]
    BY <1>5, <2>1 DEF CopyCell, TypeOK
  <2>3. TypeOK'
    BY <1>5, <2>2 DEF CopyCell, TypeOK
  <2>4. LoopInv'
    BY <1>5 DEF CopyCell, LoopInv, TypeOK, Cells
  <2>5. FlagInv'
    BY <1>5 DEF CopyCell, FlagInv
  <2> QED BY <2>3, <2>4, <2>5
<1>6. CASE EndRead
  BY <1>6, FileCellsNat, SizeAssumption DEF EndRead, TypeOK, LoopInv, FlagInv, BufOf
<1>7. CASE Publish
  <2>1. /\ mpc = "publish" /\ mi < Iters /\ mi \in Nat
        /\ mi' = mi + 1 /\ mpc' \in {"spin", "join"}
        /\ mpc' = "join" <=> mi + 1 = Iters
        /\ state' = [state EXCEPT ![BufOf(mi)] = "read"]
        /\ UNCHANGED <<copied, mgot, opened, fpos, workerVars, mem, live, work_sink>>
    BY <1>7, SizeAssumption DEF Publish, TypeOK, LoopInv
  <2>2. TypeOK'
    <3>1. mi' \in 0 .. Iters
      BY <2>1, SizeAssumption
    <3>2. state' \in [Bufs -> {"written", "read"}]
      BY <2>1 DEF TypeOK
    <3> QED BY <2>1, <3>1, <3>2 DEF TypeOK
  <2>3. LoopInv'
    BY <2>1, SizeAssumption DEF LoopInv, TypeOK
  <2>4. FlagInv'
    <3>1. wi \in Nat /\ (mi = wi \/ mi = wi + 1)
      BY <2>1, SizeAssumption DEF TypeOK, FlagInv
    <3>2. CASE mi = wi
      <4>1. state'[BufOf(wi)] = "read" /\ state'[BufOf(wi + 1)] = state[BufOf(wi + 1)]
        BY <2>1, <3>1, <3>2, BufAlternates DEF TypeOK
      <4> QED BY <2>1, <3>1, <3>2, <4>1 DEF FlagInv
    <3>3. CASE mi = wi + 1
      <4>1. state'[BufOf(wi + 1)] = "read" /\ state'[BufOf(wi)] = state[BufOf(wi)]
        BY <2>1, <3>1, <3>3, BufAlternates DEF TypeOK
      <4> QED BY <2>1, <3>1, <3>3, <4>1 DEF FlagInv
    <3> QED BY <3>1, <3>2, <3>3
  <2> QED BY <2>2, <2>3, <2>4
<1>8. CASE JoinWorker
  BY <1>8 DEF JoinWorker, MainMayJoin, TypeOK, LoopInv, FlagInv, BufOf
<1>9. CASE Cleanup
  BY <1>9 DEF Cleanup, TypeOK, LoopInv, FlagInv, BufOf
<1>10. CASE Validate
  BY <1>10, AbortSafety DEF Validate, TypeOK, LoopInv, FlagInv, BufOf
<1>11. CASE BeginSum
  BY <1>11, SizeAssumption DEF BeginSum, EnterSum, WorkerMayEnter, TypeOK, LoopInv, FlagInv, BufOf
<1>12. CASE LoadCell
  <2>1. mem[BufOf(wi)][wc] \in Int
    <3>1. BufOf(wi) \in Bufs
      BY BufAlternates DEF TypeOK
    <3>2. wc \in Cells
      BY <1>12, SizeAssumption DEF LoadCell, TypeOK, Cells
    <3> QED BY <3>1, <3>2 DEF TypeOK
  <2>2. TypeOK'
    BY <1>12, <2>1, SizeAssumption DEF LoadCell, TypeOK
  <2>3. LoopInv' /\ FlagInv'
    BY <1>12 DEF LoadCell, LoopInv, FlagInv
  <2> QED BY <2>2, <2>3
<1>13. CASE AddToOutput
  BY <1>13 DEF AddToOutput, TypeOK, LoopInv, FlagInv, BufOf
<1>14. CASE Release
  BY <1>14, SizeAssumption, BufAlternates DEF Release, TypeOK, LoopInv, FlagInv
<1>15. CASE UNCHANGED vars
  BY <1>15 DEF vars, TypeOK, LoopInv, FlagInv, BufOf
<1>16. CASE Terminating
  BY <1>15, <1>16 DEF Terminating
<1> QED
  BY <1>1, <1>2, <1>3, <1>4, <1>5, <1>6, <1>7, <1>8, <1>9, <1>10, <1>11, <1>12,
     <1>13, <1>14, <1>15, <1>16 DEF Next, Main, Worker

\* The flags and the positions of the two threads fit together at all times.
LEMMA Safety == Spec => []SafetyInv
<1> QED BY SafetyInit, SafetyNext, PTL DEF Spec

\* Type correctness of the threaded reader.
THEOREM TypeCorrect == Spec => []TypeOK
<1>1. SafetyInv => TypeOK
  BY DEF SafetyInv
<1> QED BY <1>1, Safety, PTL

\* Neither spin loop lets a thread into a buffer the other one is using,
\* however many chunks and whatever the reads deliver.
THEOREM Exclusion == Spec => []BufferExclusion
<1>1. SafetyInv => BufferExclusion
  <2> SUFFICES ASSUME SafetyInv, mpc \in {"copy", "publish"}, wpc \in {"sum", "release"}
               PROVE  BufOf(mi) # BufOf(wi)
    BY DEF BufferExclusion
  <2>1. mi = wi + 1
    BY SizeAssumption DEF SafetyInv, TypeOK, FlagInv
  <2> QED BY <2>1, SizeAssumption, BufAlternates DEF SafetyInv, TypeOK
<1> QED BY <1>1, Safety, PTL

\* The worker is never left with pointers into released memory.
THEOREM WorkerMemoryLives == Spec => []NoUseAfterFree
<1>1. SafetyInv => NoUseAfterFree
  BY DEF SafetyInv, TypeOK, LoopInv, NoUseAfterFree
<1> QED BY <1>1, Safety, PTL

----------------------------------------------------------------------------
(* Contents *)

LEMMA ContentInit == Init /\ CompleteReads => ContentInv
BY StartStep, SizeAssumption, PrefixAssumption DEF Init, ContentInv

\* A complete read delivers the next chunk, all of it.
LEMMA DeliveredAll ==
  ASSUME CompleteReads, fpos = Start(mi), mi \in 0 .. Iters - 1,
         NEW n \in Delivered(BufCells)
  PROVE  n = BufCells
<1>1. Transfer(BufCells) = BufCells
  BY SizeAssumption, PlatformAssumption, FileCellsNat DEF Transfer, CompleteReads
<1>2. Start(mi) + BufCells <= FileCells
  <2>1. mi \in Int /\ mi + 1 \in 0 .. Iters
    BY SizeAssumption
  <2>2. Start(mi + 1) = Start(mi) + BufCells /\ Start(mi + 1) \in 0 .. FileCells
    BY <2>1, StartStep
  <2> QED BY <2>2, FileCellsNat
<1>3. Start(mi) \in Int
  BY SizeAssumption, StartStep
<1>4. n \in {IF Transfer(BufCells) < FileCells - fpos THEN Transfer(BufCells)
                                                  ELSE FileCells - fpos}
  BY DEF Delivered, CompleteReads
<1> QED BY <1>1, <1>2, <1>3, <1>4, SizeAssumption, FileCellsNat

\* A failed assertion disturbs no memory.
LEMMA AbortContent ==
  ASSUME ContentInv, AbortProcess
  PROVE  ContentInv'
BY DEF ContentInv, AbortProcess, Holds

LEMMA ContentNext ==
  ASSUME SafetyInv, SafetyInv', CompleteReads, ContentInv, [Next]_vars
  PROVE  ContentInv'
<1> USE DEF mainVars, workerVars
<1>0. mi \in Int /\ wi \in Int /\ wi <= mi /\ mi <= wi + 2
  BY SizeAssumption DEF SafetyInv, TypeOK, FlagInv
<1>1. CASE AllocateBuffers
  BY <1>1, AbortContent DEF AllocateBuffers, ContentInv, Holds
<1>2. CASE SpawnWorker
  BY <1>2, AbortContent DEF SpawnWorker, SafetyInv, LoopInv, ContentInv, Holds
<1>3. CASE OpenFile
  BY <1>3, StartStep DEF OpenFile, SafetyInv, LoopInv, ContentInv, Holds
<1>4. CASE BeginRead
  <2>1. CASE ~opened
    BY <1>4, <2>1, AbortContent DEF BeginRead, EnterRead
  <2>2. CASE opened
    <3>1. mgot' = BufCells
      BY <1>4, <2>2, DeliveredAll, SizeAssumption
         DEF BeginRead, EnterRead, SafetyInv, TypeOK, LoopInv, ContentInv
    <3> QED BY <1>4, <2>2, <3>1 DEF BeginRead, EnterRead, ContentInv, Holds
  <2> QED BY <2>1, <2>2
<1>5. ASSUME NEW c \in Cells, CopyCell(c) PROVE ContentInv'
  <2>1. /\ mem' = [mem EXCEPT ![BufOf(mi)][c] = Data[Start(mi) + c]]
        /\ copied' = copied \cup {c}
        /\ mpc = "copy" /\ UNCHANGED <<mpc, mi, mgot, fpos, workerVars, work_sink>>
    BY <1>5 DEF CopyCell, ContentInv
  <2>2. mem \in [Bufs -> [Cells -> Int]] /\ copied \subseteq Cells
    BY DEF SafetyInv, TypeOK
  <2>3. BufOf(mi) \in Bufs
    BY <1>0, BufAlternates
  <2>4. \A d \in copied' : mem'[BufOf(mi)][d] = Data[Start(mi) + d]
    BY <2>1, <2>2, <2>3 DEF ContentInv
  <2>5. ASSUME NEW k \in wi .. mi - 1 PROVE Holds(k)'
    <3>1. k \in Int /\ k = mi - 1
      BY <1>0, <2>1 DEF SafetyInv, FlagInv
    <3>2. BufOf(k) # BufOf(mi)
      BY <1>0, <3>1, BufAlternates
    <3>3. mem'[BufOf(k)] = mem[BufOf(k)]
      BY <2>1, <2>2, <3>1, <3>2, BufAlternates
    <3> QED BY <3>3 DEF ContentInv, Holds
  <2> QED BY <2>1, <2>4, <2>5 DEF ContentInv
<1>6. CASE EndRead
  <2>1. mgot = BufCells /\ copied = Cells /\ fpos = Start(mi)
    BY <1>6 DEF EndRead, ContentInv, Cells
  <2>2. fpos' = Start(mi + 1)
    BY <1>0, <1>6, <2>1, StartStep DEF EndRead
  <2> QED BY <1>6, <2>1, <2>2 DEF EndRead, ContentInv, Holds
<1>7. CASE Publish
  <2>1. \A k \in wi .. mi : Holds(k)
    BY <1>0, <1>7 DEF Publish, ContentInv
  <2>2. \A k \in wi' .. mi' - 1 : Holds(k)'
    BY <1>0, <1>7, <2>1 DEF Publish, Holds
  <2> QED BY <1>7, <2>2 DEF Publish, ContentInv
<1>8. CASE JoinWorker
  BY <1>8 DEF JoinWorker, ContentInv, Holds
<1>9. CASE Cleanup
  BY <1>9 DEF Cleanup, ContentInv, Holds
<1>10. CASE Validate
  BY <1>10, AbortContent DEF Validate, ContentInv, Holds
<1>11. CASE BeginSum
  <2>1. Start(wi) + 0 = Start(wi) /\ Prefix[Start(wi)] \in Int
    <3>1. Start(wi) \in 0 .. FileCells
      BY StartStep DEF SafetyInv, TypeOK
    <3> QED BY <3>1, FileCellsNat, PrefixAssumption
  <2> QED BY <1>11, <2>1 DEF BeginSum, EnterSum, ContentInv, Holds
<1>12. CASE LoadCell
  <2>1. wc \in Cells /\ wi < mi
    BY <1>12, SizeAssumption DEF LoadCell, SafetyInv, TypeOK, FlagInv, Cells
  <2>2. mem[BufOf(wi)][wc] = Data[Start(wi) + wc]
    BY <1>0, <2>1 DEF ContentInv, Holds
  <2>3. Start(wi) + wc \in 0 .. FileCells - 1
    <3>1. wi + 1 \in 0 .. Iters
      BY <1>12, SizeAssumption DEF LoadCell, SafetyInv, TypeOK, LoopInv
    <3>2. Start(wi) \in 0 .. FileCells /\ Start(wi) + BufCells <= FileCells
      BY <1>0, <3>1, SizeAssumption, StartStep, FileCellsNat DEF SafetyInv, TypeOK
    <3> QED BY <2>1, <3>2, SizeAssumption, FileCellsNat DEF Cells
  <2>4. Prefix[Start(wi) + wc + 1] = Prefix[Start(wi) + wc] + Data[Start(wi) + wc]
    BY <2>3, PrefixAssumption
  <2>5. Prefix[Start(wi) + wc] \in Int /\ Prefix[Start(wi)] \in Int /\ Data[Start(wi) + wc] \in Int
    <3>1. Start(wi) \in 0 .. FileCells
      BY StartStep DEF SafetyInv, TypeOK
    <3>2. Start(wi) + wc \in 0 .. FileCells
      BY <2>3, FileCellsNat
    <3> QED BY <2>3, <3>1, <3>2, PrefixAssumption, DataAssumption
  <2>6. wacc' = Prefix[Start(wi) + (wc + 1)] - Prefix[Start(wi)]
    <3>1. Start(wi) + wc + 1 = Start(wi) + (wc + 1)
      BY <1>0, <2>1, StartStep DEF Cells
    <3> QED BY <1>12, <2>2, <2>4, <2>5, <3>1 DEF LoadCell, ContentInv
  <2> QED BY <1>12, <2>6 DEF LoadCell, ContentInv, Holds
<1>13. CASE AddToOutput
  <2>1. Start(wi) + wc = Start(wi + 1)
    BY <1>0, <1>13, StartStep DEF AddToOutput
  <2>2. Prefix[Start(wi + 1)] \in Int /\ Prefix[Start(wi)] \in Int
    <3>1. wi \in 0 .. Iters /\ wi + 1 \in 0 .. Iters
      BY <1>13, SizeAssumption DEF AddToOutput, SafetyInv, TypeOK, LoopInv
    <3> QED BY <3>1, StartStep, PrefixAssumption
  <2> QED BY <1>13, <2>1, <2>2 DEF AddToOutput, ContentInv, Holds
<1>14. CASE Release
  <2>1. \A k \in wi' .. mi' - 1 : Holds(k)'
    BY <1>0, <1>14 DEF Release, ContentInv, Holds
  <2> QED BY <1>14, <2>1 DEF Release, ContentInv, Holds
<1>15. CASE UNCHANGED vars
  BY <1>15 DEF vars, ContentInv, Holds
<1>16. CASE Terminating
  BY <1>15, <1>16 DEF Terminating
<1> QED
  BY <1>1, <1>2, <1>3, <1>4, <1>5, <1>6, <1>7, <1>8, <1>9, <1>10, <1>11, <1>12,
     <1>13, <1>14, <1>15, <1>16 DEF Next, Main, Worker

LEMMA Content == CompleteReads => (Spec => []ContentInv)
<1> SUFFICES ASSUME CompleteReads PROVE Spec => []ContentInv
  OBVIOUS
<1>1. Init => ContentInv
  BY ContentInit
<1>2. SafetyInv /\ SafetyInv' /\ ContentInv /\ [Next]_vars => ContentInv'
  BY ContentNext
<1> QED BY <1>1, <1>2, Safety, PTL DEF Spec

\* The assertion at file_processing.cpp:320 holds for every file one read can
\* ask for, when reads are complete: the sum of the two threads is the
\* reference sum.
THEOREM Result == CompleteReads => (Spec => []ResultValidates)
<1> SUFFICES ASSUME CompleteReads PROVE Spec => []ResultValidates
  OBVIOUS
<1>1. SafetyInv /\ ContentInv => ResultValidates
  <2> SUFFICES ASSUME SafetyInv, ContentInv, mpc = "validate" PROVE work_sink = req_workres
    BY DEF ResultValidates
  <2>1. wpc = "exit" /\ wi = Iters
    BY DEF SafetyInv, LoopInv
  <2>2. work_sink = Prefix[FileCells]
    BY <2>1, StartStep DEF ContentInv
  <2>3. Transfer(FileCells) = FileCells
    BY FileCellsNat, PlatformAssumption DEF CompleteReads, Transfer
  <2> QED BY <2>2, <2>3 DEF req_workres
<1> QED BY <1>1, Safety, Content, PTL

----------------------------------------------------------------------------
(* Refinement *)

LEMMA ChunkSums ==
  \A k \in 0 .. Iters - 1 :
    /\ Prefix[Start(k + 1)] \in Int /\ Prefix[Start(k)] \in Int
    /\ [j \in 0 .. Iters - 1 |-> Prefix[Start(j + 1)] - Prefix[Start(j)]][k]
         = Prefix[Start(k + 1)] - Prefix[Start(k)]
<1> SUFFICES ASSUME NEW k \in 0 .. Iters - 1
             PROVE  Prefix[Start(k + 1)] \in Int /\ Prefix[Start(k)] \in Int
  OBVIOUS
<1>1. k \in 0 .. Iters /\ k + 1 \in 0 .. Iters
  BY SizeAssumption
<1> QED BY <1>1, StartStep, PrefixAssumption

\* Every step of the reader is a step of the pipeline, or none.
LEMMA PipelineStep ==
  ASSUME SafetyInv, SafetyInv', ContentInv, [Next]_vars
  PROVE  [Pipeline!Next]_(Pipeline!vars)
<1> USE DEF mainVars, workerVars, Pipeline!Next, Pipeline!vars
<1>0. mi \in Int /\ wi \in Int /\ wi <= mi /\ mi <= wi + 2
  BY SizeAssumption DEF SafetyInv, TypeOK, FlagInv
<1> DEFINE summed == IF wpc = "release" THEN wi + 1 ELSE wi
           status == IF mpc \in {"done", "aborted"} THEN mpc ELSE "running"
\* Steps that the pipeline does not see.
<1>a. ASSUME mi' = mi, work_sink' = work_sink, summed' = summed, status' = status
      PROVE  UNCHANGED Pipeline!vars
  BY <1>a
\* Failed assertions.
<1>b. ASSUME AbortProcess, mpc \notin {"done", "aborted"}, wpc # "release",
             mi = 0 \/ wi = Iters
      PROVE  Pipeline!Abort
  BY <1>b DEF AbortProcess, Pipeline!Abort
<1>1. CASE AllocateBuffers
  BY <1>1, <1>a, <1>b DEF AllocateBuffers, SafetyInv, LoopInv
<1>2. CASE SpawnWorker
  BY <1>2, <1>a, <1>b DEF SpawnWorker, SafetyInv, LoopInv
<1>3. CASE OpenFile
  BY <1>3, <1>a DEF OpenFile
<1>4. CASE BeginRead
  <2>1. CASE opened
    BY <1>4, <2>1, <1>a DEF BeginRead, EnterRead
  <2>2. CASE ~opened
    <3>1. mi = 0 /\ wpc # "release"
      BY <1>0, <1>4, <2>2, SizeAssumption DEF BeginRead, SafetyInv, TypeOK, LoopInv, FlagInv
    <3> QED BY <1>4, <2>2, <3>1, <1>b DEF BeginRead, EnterRead
  <2> QED BY <2>1, <2>2
<1>5. ASSUME NEW c \in Cells, CopyCell(c) PROVE UNCHANGED Pipeline!vars
  BY <1>5, <1>a DEF CopyCell
<1>6. CASE EndRead
  BY <1>6, <1>a DEF EndRead
<1>7. CASE Publish
  <2>1. mi < Iters /\ mi <= wi + 1 /\ (wpc = "release" => wi < mi)
    BY <1>7 DEF Publish, SafetyInv, LoopInv, FlagInv
  <2>2. mi' = mi + 1 /\ UNCHANGED <<workerVars, work_sink>>
        /\ mpc = "publish" /\ mpc' \in {"spin", "join"}
    BY <1>7 DEF Publish
  <2>3. mi - summed < 2
    BY <1>0, <2>1
  <2>4. Pipeline!HandOver
    BY <2>1, <2>2, <2>3 DEF Pipeline!HandOver
  <2> QED BY <2>4
<1>8. CASE JoinWorker
  BY <1>8, <1>a DEF JoinWorker
<1>9. CASE Cleanup
  BY <1>9, <1>a DEF Cleanup
<1>10. CASE Validate
  <2>1. mpc = "validate" /\ wpc = "exit" /\ wi = Iters
    BY <1>10 DEF Validate, SafetyInv, LoopInv
  <2>2. CASE work_sink = req_workres
    BY <1>10, <2>1, <2>2 DEF Validate, Pipeline!Finish
  <2>3. CASE work_sink # req_workres
    BY <1>10, <2>1, <2>3, <1>b DEF Validate
  <2> QED BY <2>2, <2>3
<1>11. CASE BeginSum
  BY <1>11, <1>a DEF BeginSum, EnterSum
<1>12. CASE LoadCell
  BY <1>12, <1>a DEF LoadCell
<1>13. CASE AddToOutput
  <2>1. wi \in 0 .. Iters - 1 /\ wi < mi
    BY <1>0, <1>13, SizeAssumption DEF AddToOutput, SafetyInv, TypeOK, LoopInv, FlagInv
  <2>2. mpc \notin {"done", "aborted"}
    BY <1>13 DEF AddToOutput, SafetyInv, LoopInv
  <2>3. wacc = Prefix[Start(wi + 1)] - Prefix[Start(wi)]
    BY <1>0, <1>13, StartStep DEF AddToOutput, ContentInv
  <2>4. work_sink' = work_sink + [j \in 0 .. Iters - 1 |-> Prefix[Start(j + 1)] - Prefix[Start(j)]][wi]
    BY <1>13, <2>1, <2>3, ChunkSums DEF AddToOutput
  <2>5. Pipeline!Sum
    BY <1>13, <2>1, <2>2, <2>4 DEF AddToOutput, Pipeline!Sum
  <2> QED BY <2>5
<1>14. CASE Release
  <2>1. summed' = summed
    BY <1>14 DEF Release
  <2> QED BY <1>14, <2>1, <1>a DEF Release
<1>15. CASE UNCHANGED vars
  BY <1>15, <1>a DEF vars
<1>16. CASE Terminating
  BY <1>15, <1>16 DEF Terminating
<1> QED
  BY <1>1, <1>2, <1>3, <1>4, <1>5, <1>6, <1>7, <1>8, <1>9, <1>10, <1>11, <1>12,
     <1>13, <1>14, <1>15, <1>16 DEF Next, Main, Worker

\* With complete reads the two threads implement the pipeline: each chunk of
\* the file is summed once, in order, at most two are in flight.
THEOREM Refinement == CompleteReads => (Spec => ImplementsPipeline)
<1> SUFFICES ASSUME CompleteReads PROVE Spec => Pipeline!Spec
  BY DEF ImplementsPipeline
<1>1. Init => Pipeline!Init
  BY DEF Init, Pipeline!Init
<1>2. SafetyInv /\ SafetyInv' /\ ContentInv /\ [Next]_vars => [Pipeline!Next]_(Pipeline!vars)
  BY PipelineStep
<1> QED BY <1>1, <1>2, Safety, Content, PTL DEF Spec, Pipeline!Spec

==============================================================================
