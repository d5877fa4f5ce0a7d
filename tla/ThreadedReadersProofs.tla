------------------------ MODULE ThreadedReadersProofs ------------------------
(***************************************************************************)
(* What becomes of the threaded reader elsewhere: on a machine that orders *)
(* stores weakly, and among the other tests of the program.  What is       *)
(* proved of it by itself (ThreadedReadProofs) is used for both; neither   *)
(* part uses the other, nor its assumptions.                               *)
(***************************************************************************)
EXTENDS ThreadedReadWeak, FileTesters, ThreadedReadProofs, SequenceTheorems,
        FiniteSetTheorems, WellFoundedInduction

(***************************************************************************)
(* The fences of the threaded reader suffice, for every number and size of *)
(* chunks and every content of the file: each step of the weakly ordered   *)
(* machine is one step of the sequentially consistent reader that lags     *)
(* behind, or none.  What ThreadedReadProofs shows of that reader is used  *)
(* here as well: it tells what its two threads can be doing when a thread  *)
(* joins or gives up.                                                      *)
(***************************************************************************)

\* The lagging reader, with what is proved of it.
Visible == INSTANCE ThreadedReadProofs WITH
  mpc <- VisibleMpc, mi <- VisibleMi, copied <- VisibleCopied,
  fpos <- VisibleFpos, wpc <- VisibleWpc, wi <- VisibleWi

Stores ==
  {CellStore(b, c, v) : b \in Bufs, c \in Cells, v \in Int}
    \cup {FlagStore(b, v) : b \in Bufs, v \in {"written", "read"}}
    \cup {SinkStore(v) : v \in Int}

\* What may be on its way from the main thread: cells of the chunk it is
\* reading, each once, or the flag of the chunk it read last.
StoredCells ==
  /\ \A i \in DOMAIN mbuf : \E c \in copied :
       mbuf[i] = CellStore(BufOf(mi), c, Data[VisibleFpos + c])
  /\ \A i, j \in DOMAIN mbuf : mbuf[i].loc = mbuf[j].loc => i = j

MainStores ==
  \/ mbuf = <<>>
  \/ mpc \in {"copy", "publish"} /\ StoredCells
  \/ /\ mpc \in {"spin", "fence", "join"} /\ mi > 0
     /\ mbuf = <<FlagStore(BufOf(mi - 1), "read")>>

\* And from the worker: the sum it has added, or the flag of its last chunk.
WorkerStores ==
  \/ wbuf = <<>>
  \/ wpc = "release" /\ wbuf = <<SinkStore(work_sink + wacc)>>
  \/ /\ wpc \in {"spin", "fence", "exit"} /\ wi > 0
     /\ wbuf = <<FlagStore(BufOf(wi - 1), "written")>>

WeakLoopInv ==
  /\ mpc \in {"start", "spawn", "open", "spin", "fence", "copy", "publish",
              "join", "cleanup", "validate", "done", "aborted"}
  /\ wpc \in {"none", "spin", "fence", "sum", "release", "exit", "killed"}
  /\ mi \in 0 .. Iters /\ wi \in 0 .. Iters /\ fpos \in Int
  /\ mpc \in {"spin", "fence", "copy", "publish"} => mi < Iters
  /\ mpc = "join" => mi = Iters
  /\ wpc \in {"spin", "fence", "sum", "release"} => wi < Iters
  /\ wpc = "exit" => wi = Iters
  /\ mpc = "fence" => state[BufOf(mi)] = "written"
  /\ mpc = "copy" => copied \subseteq 0 .. mgot - 1
  /\ mpc = "publish" => copied = 0 .. mgot - 1
  /\ wpc = "fence" => state[BufOf(wi)] = "read"
  /\ wpc = "release" => wc = BufCells
  /\ mpc \in {"cleanup", "validate", "done"} => wpc = "exit" /\ wbuf = <<>>

WeakInv ==
  /\ mbuf \in Seq(Stores) /\ wbuf \in Seq(Stores)
  /\ WeakLoopInv /\ MainStores /\ WorkerStores

----------------------------------------------------------------------------
(* The two instances of the sequentially consistent reader are the same. *)

LEMMA SameReader ==
  /\ Sequential!Init <=> Visible!Init
  /\ [Sequential!Next]_(Sequential!vars) <=> [Visible!Next]_(Visible!vars)
<1>1. Sequential!Init <=> Visible!Init
  BY DEF Sequential!Init, Visible!Init, Sequential!Bufs, Visible!Bufs,
         Sequential!Cells, Visible!Cells
<1>2. [Sequential!Next]_(Sequential!vars) <=> [Visible!Next]_(Visible!vars)
  BY DEF Sequential!Next, Visible!Next, Sequential!Main, Visible!Main,
         Sequential!Worker, Visible!Worker, Sequential!AllocateBuffers,
         Visible!AllocateBuffers, Sequential!SpawnWorker,
         Visible!SpawnWorker, Sequential!OpenFile, Visible!OpenFile,
         Sequential!BeginRead, Visible!BeginRead, Sequential!CopyCell,
         Visible!CopyCell, Sequential!EndRead, Visible!EndRead,
         Sequential!Publish, Visible!Publish, Sequential!JoinWorker,
         Visible!JoinWorker, Sequential!Cleanup, Visible!Cleanup,
         Sequential!Validate, Visible!Validate, Sequential!BeginSum,
         Visible!BeginSum, Sequential!LoadCell, Visible!LoadCell,
         Sequential!AddToOutput, Visible!AddToOutput,
         Sequential!Release, Visible!Release, Sequential!Terminating,
         Visible!Terminating, Sequential!AbortProcess,
         Visible!AbortProcess, Sequential!MainMayEnter,
         Visible!MainMayEnter, Sequential!EnterRead, Visible!EnterRead,
         Sequential!Delivered, Visible!Delivered, Sequential!Transfer,
         Visible!Transfer, Sequential!FileCells, Visible!FileCells,
         Sequential!BufOf, Visible!BufOf, Sequential!MainMayJoin,
         Visible!MainMayJoin, Sequential!req_workres,
         Visible!req_workres, Sequential!WorkerMayEnter,
         Visible!WorkerMayEnter, Sequential!EnterSum, Visible!EnterSum,
         Sequential!Cells, Visible!Cells, Sequential!mainVars,
         Visible!mainVars, Sequential!workerVars, Visible!workerVars,
         Sequential!vars, Visible!vars
<1> QED BY <1>1, <1>2

\* It is safe, by ThreadedReadProofs.
LEMMA VisibleSafety ==
  /\ Visible!Init => Visible!SafetyInv
  /\ Visible!SafetyInv /\ [Visible!Next]_(Visible!vars) => Visible!SafetyInv'
<1>1. Visible!Init => Visible!SafetyInv
  BY Visible!SafetyInit, SizeAssumption, DataAssumption, PrefixAssumption,
     PlatformAssumption DEF FileCells, Visible!FileCells
<1>2. Visible!SafetyInv /\ [Visible!Next]_(Visible!vars) => Visible!SafetyInv'
  BY Visible!SafetyNext, SizeAssumption, DataAssumption, PrefixAssumption,
     PlatformAssumption DEF FileCells, Visible!FileCells
<1> QED BY <1>1, <1>2

----------------------------------------------------------------------------
(* Buffers of stores *)

LEMMA NothingPending == ~FlagPending(<<>>) /\ PendingCells(<<>>) = {}
BY DEF FlagPending, PendingCells

LEMMA FlagIsPending ==
  ASSUME NEW b, NEW v
  PROVE  /\ FlagPending(<<FlagStore(b, v)>>)
         /\ PendingCells(<<FlagStore(b, v)>>) = {}
         /\ <<FlagStore(b, v)>> # <<>>
<1> DEFINE buf == <<FlagStore(b, v)>>
<1>1. DOMAIN buf = {1} /\ buf[1].loc[1] = "flag" /\ buf # <<>>
  BY DEF FlagStore
<1> QED BY <1>1 DEF FlagPending, PendingCells

LEMMA SinkIsPending ==
  ASSUME NEW v
  PROVE  ~FlagPending(<<SinkStore(v)>>) /\ <<SinkStore(v)>> # <<>>
<1> DEFINE buf == <<SinkStore(v)>>
<1>1. DOMAIN buf = {1} /\ buf[1].loc[1] = "sink" /\ buf # <<>>
  BY DEF SinkStore
<1> QED BY <1>1 DEF FlagPending

\* A store that has drained is gone, and the others are as they were.
LEMMA WithoutIs ==
  ASSUME NEW S, NEW buf \in Seq(S), NEW i \in DOMAIN buf
  PROVE  /\ Without(buf, i) \in Seq(S)
         /\ Len(Without(buf, i)) = Len(buf) - 1
         /\ \A j \in DOMAIN Without(buf, i) :
              Without(buf, i)[j] = IF j < i THEN buf[j] ELSE buf[j + 1]
<1>1. Len(buf) \in Nat /\ DOMAIN buf = 1 .. Len(buf) /\ i \in 1 .. Len(buf)
  BY LenProperties
<1> DEFINE s == SubSeq(buf, 1, i - 1)
           t == SubSeq(buf, i + 1, Len(buf))
<1>2. s \in Seq(S) /\ Len(s) = i - 1 /\ \A j \in 1 .. i - 1 : s[j] = buf[j]
  <2>1. \A j \in 1 .. i - 1 : buf[j] \in S
    BY <1>1, ElementOfSeq
  <2>2. 1 \in Int /\ i - 1 \in Int
    BY <1>1
  <2>3. /\ SubSeq(buf, 1, i - 1) \in Seq(S)
        /\ Len(SubSeq(buf, 1, i - 1)) = IF 1 <= i - 1 THEN (i - 1) - 1 + 1 ELSE 0
        /\ \A j \in 1 .. (i - 1) - 1 + 1 : SubSeq(buf, 1, i - 1)[j] = buf[1 + j - 1]
    BY ONLY <2>1, <2>2, SubSeqProperties
  <2> QED BY <1>1, <2>3
<1>3. /\ t \in Seq(S) /\ Len(t) = Len(buf) - i
      /\ \A j \in 1 .. Len(buf) - i : t[j] = buf[i + j]
  <2>1. \A j \in i + 1 .. Len(buf) : buf[j] \in S
    BY <1>1, ElementOfSeq
  <2>2. i + 1 \in Int /\ Len(buf) \in Int
    BY <1>1
  <2>3. /\ SubSeq(buf, i + 1, Len(buf)) \in Seq(S)
        /\ Len(SubSeq(buf, i + 1, Len(buf)))
             = IF i + 1 <= Len(buf) THEN Len(buf) - (i + 1) + 1 ELSE 0
        /\ \A j \in 1 .. Len(buf) - (i + 1) + 1 :
             SubSeq(buf, i + 1, Len(buf))[j] = buf[(i + 1) + j - 1]
    BY ONLY <2>1, <2>2, SubSeqProperties
  <2> QED BY <1>1, <2>3
<1> HIDE DEF s, t
<1>4. /\ s \o t \in Seq(S) /\ Len(s \o t) = Len(buf) - 1
      /\ \A j \in 1 .. Len(buf) - 1 :
           (s \o t)[j] = IF j < i THEN buf[j] ELSE buf[j + 1]
  <2>1. /\ s \o t \in Seq(S) /\ Len(s \o t) = Len(s) + Len(t)
        /\ \A j \in 1 .. Len(s) + Len(t) :
             (s \o t)[j] = IF j <= Len(s) THEN s[j] ELSE t[j - Len(s)]
    BY <1>2, <1>3, ConcatProperties
  <2>2. Len(s) + Len(t) = Len(buf) - 1
    BY <1>1, <1>2, <1>3
  <2>3. ASSUME NEW j \in 1 .. Len(buf) - 1
        PROVE  (s \o t)[j] = IF j < i THEN buf[j] ELSE buf[j + 1]
    <3>1. CASE j < i
      BY <1>1, <1>2, <2>1, <2>2, <3>1
    <3>2. CASE ~(j < i)
      <4>1. (s \o t)[j] = t[j - (i - 1)] /\ j - (i - 1) \in 1 .. Len(buf) - i
        BY <1>1, <1>2, <2>1, <2>2, <3>2
      <4>2. t[j - (i - 1)] = buf[i + (j - (i - 1))] /\ i + (j - (i - 1)) = j + 1
        BY <1>1, <1>3, <4>1
      <4> QED BY <1>1, <3>2, <4>1, <4>2
    <3> QED BY <3>1, <3>2
  <2> QED BY <2>1, <2>2, <2>3
<1>5. DOMAIN (s \o t) = 1 .. Len(s \o t)
  BY <1>4, LenProperties
<1> QED BY <1>4, <1>5 DEF Without, s, t

\* Buffers of stores to cells do not hold a flag back.
LEMMA CellsArePending ==
  ASSUME NEW buf, \A i \in DOMAIN buf : buf[i].loc[1] = "cell"
  PROVE  ~FlagPending(buf)
BY DEF FlagPending

----------------------------------------------------------------------------
(* What the lagging reader sees *)

\* A thread that does nothing and none of whose stores drain looks the same.
LEMMA MainViewKept ==
  ASSUME UNCHANGED <<mpc, mi, copied, mgot, fpos, mbuf>>
  PROVE  UNCHANGED <<VisibleMpc, VisibleMi, VisibleCopied, VisibleFpos>>
BY DEF VisibleMpc, VisibleMi, VisibleCopied, VisibleFpos

LEMMA WorkerViewKept ==
  ASSUME UNCHANGED <<wpc, wi, wbuf>>
  PROVE  UNCHANGED <<VisibleWpc, VisibleWi>>
BY DEF VisibleWpc, VisibleWi

\* With its stores drained, the main thread is where it seems, but for the
\* end of a read and the wait in the fence.
LEMMA MainDrained ==
  ASSUME mbuf = <<>>
  PROVE  /\ VisibleMpc = IF mpc = "publish" THEN "copy"
                         ELSE IF mpc = "fence" THEN "spin" ELSE mpc
         /\ VisibleMi = mi /\ VisibleCopied = copied
BY NothingPending DEF VisibleMpc, VisibleMi, VisibleCopied

LEMMA WorkerDrained ==
  ASSUME wbuf = <<>>
  PROVE  VisibleWpc = (IF wpc = "fence" THEN "spin" ELSE wpc) /\ VisibleWi = wi
BY NothingPending DEF VisibleWpc, VisibleWi

\* While it reads, its cells are the only stores on their way.
LEMMA MainReads ==
  ASSUME MainStores, mpc \in {"copy", "publish"}
  PROVE  /\ StoredCells /\ ~FlagPending(mbuf)
         /\ VisibleMpc = "copy" /\ VisibleMi = mi
<1>1. StoredCells
  BY DEF MainStores, StoredCells
<1>2. \A i \in DOMAIN mbuf : mbuf[i].loc[1] = "cell"
  BY <1>1 DEF StoredCells, CellStore
<1>3. ~FlagPending(mbuf)
  BY <1>2, CellsArePending
<1> QED BY <1>1, <1>3 DEF VisibleMpc, VisibleMi

\* A flag on its way keeps the chunk before.
LEMMA MainFlag ==
  ASSUME NEW b, mbuf = <<FlagStore(b, "read")>>
  PROVE  /\ VisibleMpc = "publish" /\ VisibleMi = mi - 1
         /\ VisibleCopied = copied
BY FlagIsPending DEF VisibleMpc, VisibleMi, VisibleCopied

LEMMA WorkerFlag ==
  ASSUME NEW b, wbuf = <<FlagStore(b, "written")>>
  PROVE  VisibleWpc = "release" /\ VisibleWi = wi - 1
BY FlagIsPending DEF VisibleWpc, VisibleWi

LEMMA WorkerSink ==
  ASSUME NEW v, wbuf = <<SinkStore(v)>>, wpc = "release"
  PROVE  VisibleWpc = "sum" /\ VisibleWi = wi
BY SinkIsPending DEF VisibleWpc, VisibleWi

----------------------------------------------------------------------------
(* The steps of the main thread *)

Progress == WeakInv' /\ [Visible!Next]_(Visible!vars)

\* A step that the lagging reader does not see.
LEMMA Unseen ==
  ASSUME UNCHANGED <<VisibleMpc, VisibleMi, VisibleCopied, VisibleFpos,
                     VisibleWpc, VisibleWi, mgot, opened, wc, wacc, state,
                     mem, live, work_sink>>
  PROVE  UNCHANGED Visible!vars
BY DEF Visible!vars, Visible!mainVars, Visible!workerVars

\* Assertions fail only when nothing is on its way.
LEMMA AbortSeen ==
  ASSUME WeakInv, AbortProcess, mbuf = <<>>, wbuf = <<>>, mpc # "publish",
         UNCHANGED <<mbuf, wbuf>>
  PROVE  WeakInv' /\ Visible!AbortProcess
<1>1. WeakInv'
  BY DEF WeakInv, WeakLoopInv, MainStores, WorkerStores, AbortProcess
<1>2. VisibleMpc' = "aborted" /\ VisibleWpc' = "killed"
  BY NothingPending DEF VisibleMpc, VisibleWpc, AbortProcess
<1>3. UNCHANGED <<VisibleMi, VisibleCopied, VisibleFpos, VisibleWi>>
  BY DEF VisibleMi, VisibleCopied, VisibleFpos, VisibleWi, AbortProcess
<1> QED BY <1>1, <1>2, <1>3 DEF Visible!AbortProcess, AbortProcess

LEMMA StartUps ==
  ASSUME WeakInv, Visible!SafetyInv, AllocateBuffers \/ SpawnWorker,
         UNCHANGED <<mbuf, wbuf>>
  PROVE  Progress
<1>1. mpc \in {"start", "spawn"} /\ mbuf = <<>>
  BY DEF AllocateBuffers, SpawnWorker, WeakInv, MainStores
<1>2. VisibleMpc = mpc
  BY <1>1, MainDrained
<1>3. wpc = "none" /\ wbuf = <<>>
  <2>1. VisibleWpc = "none"
    BY <1>1, <1>2 DEF Visible!SafetyInv, Visible!LoopInv
  <2> QED BY <2>1 DEF VisibleWpc, WeakInv, WorkerStores
<1>4. CASE AbortProcess
  <2>1. Visible!AllocateBuffers \/ Visible!SpawnWorker
    BY <1>1, <1>2, <1>3, <1>4, AbortSeen
       DEF Visible!AllocateBuffers, Visible!SpawnWorker
  <2> QED BY <1>1, <1>3, <1>4, <2>1, AbortSeen
          DEF Progress, Visible!Next, Visible!Main
<1>5. CASE AllocateBuffers /\ ~AbortProcess
  <2>1. mpc = "start" /\ mpc' = "spawn" /\ live' = TRUE
        /\ UNCHANGED <<mi, copied, mgot, opened, fpos, workerVars, state, mem, work_sink>>
    BY <1>5 DEF AllocateBuffers
  <2>2. WeakInv'
    BY <1>1, <1>3, <2>1
       DEF WeakInv, WeakLoopInv, MainStores, WorkerStores, workerVars
  <2>3. VisibleMpc' = "spawn" /\ UNCHANGED <<VisibleMi, VisibleCopied, VisibleFpos>>
    BY <1>1, <2>1, NothingPending DEF VisibleMpc, VisibleMi, VisibleCopied, VisibleFpos
  <2>4. UNCHANGED <<VisibleWpc, VisibleWi>>
    BY <2>1, WorkerViewKept DEF workerVars
  <2>5. Visible!AllocateBuffers
    BY <1>2, <2>1, <2>3, <2>4 DEF Visible!AllocateBuffers, Visible!workerVars, workerVars
  <2> QED BY <2>2, <2>5 DEF Progress, Visible!Next, Visible!Main
<1>6. CASE SpawnWorker /\ ~AbortProcess
  <2>1. mpc = "spawn" /\ mpc' = "open" /\ wpc' = "spin"
        /\ UNCHANGED <<mi, copied, mgot, opened, fpos, wi, wc, wacc, state,
                       mem, live, work_sink>>
    BY <1>6 DEF SpawnWorker
  <2>2. wi = 0
    <3>1. VisibleWpc = "none" /\ VisibleWi = wi
      BY <1>3, WorkerDrained
    <3> QED BY <3>1 DEF Visible!SafetyInv, Visible!LoopInv
  <2>3. WeakInv'
    BY <1>1, <1>3, <2>1, <2>2, SizeAssumption
       DEF WeakInv, WeakLoopInv, MainStores, WorkerStores
  <2>4. VisibleMpc' = "open" /\ UNCHANGED <<VisibleMi, VisibleCopied, VisibleFpos>>
    BY <1>1, <2>1, NothingPending DEF VisibleMpc, VisibleMi, VisibleCopied, VisibleFpos
  <2>5. VisibleWpc' = "spin" /\ UNCHANGED VisibleWi
    BY <1>3, <2>1, NothingPending DEF VisibleWpc, VisibleWi
  <2>6. Visible!SpawnWorker
    BY <1>2, <2>1, <2>4, <2>5 DEF Visible!SpawnWorker
  <2> QED BY <2>3, <2>6 DEF Progress, Visible!Next, Visible!Main
<1> QED BY <1>4, <1>5, <1>6

LEMMA Opens ==
  ASSUME WeakInv, Visible!SafetyInv, OpenFile, UNCHANGED <<mbuf, wbuf>>
  PROVE  Progress
<1>1. mpc = "open" /\ mbuf = <<>> /\ VisibleMpc = "open" /\ VisibleMi = mi
  <2>1. mpc = "open" /\ mbuf = <<>>
    BY DEF OpenFile, WeakInv, MainStores
  <2> QED BY <2>1, MainDrained
<1>2. mi = 0
  BY <1>1 DEF Visible!SafetyInv, Visible!LoopInv
<1>3. WeakInv'
  BY <1>1, <1>2, SizeAssumption
     DEF OpenFile, WeakInv, WeakLoopInv, MainStores, WorkerStores, workerVars
<1>4. VisibleMpc' = "spin" /\ UNCHANGED <<VisibleMi, VisibleCopied, VisibleFpos>>
  BY <1>1, NothingPending
     DEF OpenFile, VisibleMpc, VisibleMi, VisibleCopied, VisibleFpos
<1>5. UNCHANGED <<VisibleWpc, VisibleWi>>
  BY WorkerViewKept DEF OpenFile, workerVars
<1>6. Visible!OpenFile
  BY <1>1, <1>4, <1>5 DEF OpenFile, Visible!OpenFile, workerVars, Visible!workerVars
<1> QED BY <1>3, <1>6 DEF Progress, Visible!Next, Visible!Main

\* Leaving the spin loop is not seen until the fence is passed.
LEMMA Spins ==
  ASSUME WeakInv, Visible!SafetyInv, WeakSpin
  PROVE  Progress
<1>1. mpc = "spin" /\ mpc' = "fence" /\ mi \in Int
      /\ UNCHANGED <<mi, copied, mgot, opened, fpos, wpc, wi, wc, wacc, state,
                     mem, live, work_sink, mbuf, wbuf>>
  BY SizeAssumption DEF WeakSpin, WeakInv, WeakLoopInv, workerVars
<1>2. state[BufOf(mi)] = "written"
  <2>1. ~Pending(mbuf, <<"flag", BufOf(mi), 0>>)
    <3>1. CASE mbuf = <<>>
      BY <3>1 DEF Pending
    <3>2. CASE mbuf = <<FlagStore(BufOf(mi - 1), "read")>>
      <4>1. DOMAIN mbuf = {1} /\ mbuf[1].loc = <<"flag", BufOf(mi - 1), 0>>
        BY <3>2 DEF FlagStore
      <4>2. BufOf(mi - 1) # BufOf(mi)
        BY <1>1, BufAlternates
      <4> QED BY <4>1, <4>2 DEF Pending
    <3> QED BY <1>1, <3>1, <3>2 DEF WeakInv, MainStores
  <2> QED BY <2>1 DEF WeakSpin, SeenFlag
<1>3. WeakInv'
  BY <1>1, <1>2 DEF WeakInv, WeakLoopInv, MainStores, WorkerStores
<1>4. UNCHANGED <<VisibleMpc, VisibleMi, VisibleCopied, VisibleFpos>>
  BY <1>1 DEF VisibleMpc, VisibleMi, VisibleCopied, VisibleFpos
<1> QED BY <1>1, <1>3, <1>4, WorkerViewKept, Unseen DEF Progress

LEMMA BeginsRead ==
  ASSUME WeakInv, Visible!SafetyInv, WeakBeginRead
  PROVE  Progress
<1>1. mpc = "fence" /\ mbuf = <<>> /\ mi \in Int /\ state[BufOf(mi)] = "written"
      /\ UNCHANGED <<mbuf, wbuf>>
  BY SizeAssumption DEF WeakBeginRead, Fence, WeakInv, WeakLoopInv
<1>2. VisibleMpc = "spin" /\ VisibleMi = mi /\ VisibleFpos = fpos
  BY <1>1, MainDrained DEF VisibleFpos
<1>3. CASE opened
  <2>1. mpc' = "copy" /\ copied' = {} /\ mgot' \in Delivered(BufCells)
        /\ UNCHANGED <<mi, opened, fpos, wpc, wi, wc, wacc, state, mem, live, work_sink>>
    BY <1>3 DEF WeakBeginRead, EnterRead, workerVars
  <2>2. WeakInv'
    BY <1>1, <2>1 DEF WeakInv, WeakLoopInv, MainStores, WorkerStores
  <2>3. VisibleMpc' = "copy" /\ VisibleCopied' = {} /\ UNCHANGED <<VisibleMi, VisibleFpos>>
    BY <1>1, <2>1, NothingPending
       DEF VisibleMpc, VisibleMi, VisibleCopied, VisibleFpos
  <2>4. mgot' \in Visible!Delivered(BufCells)
    BY <1>2, <2>1
       DEF Delivered, Visible!Delivered, Transfer, Visible!Transfer,
           FileCells, Visible!FileCells
  <2>5. UNCHANGED <<VisibleWpc, VisibleWi>>
    BY <1>1, <2>1, WorkerViewKept
  <2>6. Visible!BeginRead
    BY <1>1, <1>2, <1>3, <2>1, <2>3, <2>4, <2>5
       DEF Visible!BeginRead, Visible!MainMayEnter, Visible!EnterRead,
           BufOf, Visible!BufOf, Visible!workerVars
  <2> QED BY <2>2, <2>6 DEF Progress, Visible!Next, Visible!Main
<1>4. CASE ~opened
  \* The file is looked at before the first chunk only, and then the worker has
  \* nothing on its way.
  <2>1. VisibleMi = 0 /\ VisibleWi \in Int /\ VisibleWi <= VisibleMi
        /\ VisibleWi \in 0 .. Iters
    BY <1>2, <1>4, SizeAssumption
       DEF Visible!SafetyInv, Visible!TypeOK, Visible!LoopInv, Visible!FlagInv
  <2>2. VisibleWpc \notin {"sum", "release"}
    BY <2>1 DEF Visible!SafetyInv, Visible!FlagInv
  <2>3. wbuf = <<>>
    <3>1. ASSUME NEW b, wbuf = <<FlagStore(b, "written")>> PROVE FALSE
      BY <2>2, <3>1, WorkerFlag
    <3>2. ASSUME NEW v, wbuf = <<SinkStore(v)>>, wpc = "release" PROVE FALSE
      BY <2>2, <3>2, WorkerSink
    <3> QED BY <3>1, <3>2 DEF WeakInv, WorkerStores
  <2>4. AbortProcess
    BY <1>4 DEF WeakBeginRead, EnterRead
  <2>5. WeakInv' /\ Visible!AbortProcess
    BY <1>1, <2>3, <2>4, AbortSeen
  <2>6. Visible!BeginRead
    BY <1>1, <1>2, <1>4, <2>5
       DEF Visible!BeginRead, Visible!MainMayEnter, Visible!EnterRead,
           BufOf, Visible!BufOf
  <2> QED BY <2>5, <2>6 DEF Progress, Visible!Next, Visible!Main
<1> QED BY <1>3, <1>4

\* A cell that is stored is neither visible nor copied yet.
LEMMA CopiesCell ==
  ASSUME WeakInv, Visible!SafetyInv, NEW c \in Cells, WeakCopyCell(c)
  PROVE  Progress
<1> DEFINE store == CellStore(BufOf(mi), c, Data[fpos + c])
<1>1. /\ mpc = "copy" /\ mi \in Int /\ c < mgot /\ c \notin copied
      /\ copied' = copied \cup {c} /\ mbuf' = Append(mbuf, store)
      /\ UNCHANGED <<mpc, mi, mgot, opened, fpos, wpc, wi, wc, wacc, state,
                     mem, live, work_sink, wbuf>>
  BY SizeAssumption DEF WeakCopyCell, WeakInv, WeakLoopInv, workerVars
<1>2. StoredCells /\ ~FlagPending(mbuf) /\ VisibleMpc = "copy" /\ VisibleMi = mi
      /\ VisibleFpos = fpos
  BY <1>1, MainReads DEF WeakInv, VisibleFpos
<1>3. store \in Stores
  <2>1. BufOf(mi) \in Bufs
    BY <1>1, BufAlternates
  <2>2. Data[fpos + c] \in Int
    <3>1. fpos \in 0 .. FileCells /\ fpos + mgot <= FileCells /\ mgot \in 0 .. BufCells
      BY <1>2 DEF Visible!SafetyInv, Visible!TypeOK, Visible!LoopInv,
                  FileCells, Visible!FileCells
    <3>2. fpos + c \in 0 .. FileCells - 1
      BY <1>1, <3>1, SizeAssumption, FileCellsNat DEF Cells
    <3> QED BY <3>2, DataAssumption
  <2> QED BY <2>1, <2>2 DEF Stores
<1> HIDE DEF store
<1>4. /\ mbuf' \in Seq(Stores) /\ DOMAIN mbuf' = 1 .. Len(mbuf) + 1
      /\ DOMAIN mbuf = 1 .. Len(mbuf) /\ Len(mbuf) \in Nat
      /\ \A i \in DOMAIN mbuf : mbuf'[i] = mbuf[i]
      /\ mbuf'[Len(mbuf) + 1] = store
  <2>1. mbuf \in Seq(Stores)
    BY DEF WeakInv
  <2>2. Len(mbuf) \in Nat /\ DOMAIN mbuf = 1 .. Len(mbuf)
    BY <2>1, LenProperties
  <2>3. /\ Append(mbuf, store) \in Seq(Stores)
        /\ Len(Append(mbuf, store)) = Len(mbuf) + 1
        /\ \A i \in 1 .. Len(mbuf) : Append(mbuf, store)[i] = mbuf[i]
        /\ Append(mbuf, store)[Len(mbuf) + 1] = store
    BY <1>3, <2>1, AppendProperties
  <2>4. DOMAIN Append(mbuf, store) = 1 .. Len(mbuf) + 1
    BY <2>3, LenProperties
  <2> QED BY <1>1, <2>2, <2>3, <2>4
<1>5. StoredCells'
  <2>1. VisibleFpos' = fpos
    BY <1>1 DEF VisibleFpos
  <2>2. ASSUME NEW i \in DOMAIN mbuf'
        PROVE  \E d \in copied' : mbuf'[i] = CellStore(BufOf(mi), d, Data[fpos + d])
    <3>1. CASE i \in DOMAIN mbuf
      BY <1>1, <1>2, <1>4, <3>1 DEF StoredCells
    <3>2. CASE i = Len(mbuf) + 1
      BY <1>1, <1>4, <3>2 DEF store
    <3> QED BY <1>4, <3>1, <3>2
  <2>3. \A i \in DOMAIN mbuf : mbuf[i].loc # store.loc
    BY <1>1, <1>2 DEF StoredCells, CellStore, store
  <2>4. ASSUME NEW i \in DOMAIN mbuf', NEW j \in DOMAIN mbuf',
               mbuf'[i].loc = mbuf'[j].loc
        PROVE  i = j
    BY <1>2, <1>4, <2>3, <2>4 DEF StoredCells
  <2> QED BY <1>1, <2>1, <2>2, <2>4 DEF StoredCells
<1>6. WeakInv'
  <2>1. MainStores' /\ WorkerStores'
    BY <1>1, <1>5 DEF MainStores, WeakInv, WorkerStores
  <2>2. copied' \subseteq 0 .. mgot' - 1
    BY <1>1, <1>2 DEF Cells, WeakInv, WeakLoopInv, Visible!SafetyInv, Visible!TypeOK
  <2>3. WeakLoopInv'
    BY <1>1, <2>2 DEF WeakInv, WeakLoopInv
  <2> QED BY <1>1, <1>4, <2>1, <2>3 DEF WeakInv
<1>7. VisibleMpc' = "copy" /\ VisibleMi' = mi
  <2>1. \A i \in DOMAIN mbuf' : mbuf'[i].loc[1] = "cell"
    BY <1>5 DEF StoredCells, CellStore
  <2>2. ~FlagPending(mbuf')
    BY <2>1 DEF FlagPending
  <2> QED BY <1>1, <2>2 DEF VisibleMpc, VisibleMi
<1>8. VisibleCopied' = VisibleCopied
  <2>1. store.loc[1] = "cell" /\ store.loc[3] = c
    BY DEF store, CellStore
  <2>2. PendingCells(mbuf') = PendingCells(mbuf) \cup {c}
    BY <1>4, <2>1 DEF PendingCells
  <2> QED BY <1>1, <2>2 DEF VisibleCopied
<1>9. UNCHANGED <<VisibleFpos, VisibleWpc, VisibleWi>>
  BY <1>1, WorkerViewKept DEF VisibleFpos
<1> QED BY <1>1, <1>2, <1>6, <1>7, <1>8, <1>9, Unseen DEF Progress

LEMMA EndsRead ==
  ASSUME WeakInv, Visible!SafetyInv, EndRead, UNCHANGED <<mbuf, wbuf>>
  PROVE  Progress
<1>1. mpc = "copy" /\ mpc' = "publish" /\ fpos' = fpos + mgot
      /\ copied = 0 .. mgot - 1
      /\ UNCHANGED <<mi, copied, mgot, opened, wpc, wi, wc, wacc, state, mem,
                     live, work_sink>>
  BY DEF EndRead, workerVars
<1>2. fpos \in Int /\ mgot \in 0 .. BufCells
  BY DEF WeakInv, WeakLoopInv, Visible!SafetyInv, Visible!TypeOK
<1>3. StoredCells /\ ~FlagPending(mbuf) /\ VisibleMpc = "copy"
  BY <1>1, MainReads DEF WeakInv
<1>4. VisibleFpos' = VisibleFpos
  BY <1>1, <1>2, SizeAssumption DEF VisibleFpos
<1>5. WeakInv'
  <2>1. StoredCells'
    BY <1>1, <1>3, <1>4 DEF StoredCells
  <2>2. fpos' \in Int
    BY <1>1, <1>2, SizeAssumption
  <2> QED BY <1>1, <2>1, <2>2 DEF WeakInv, WeakLoopInv, MainStores, WorkerStores
<1>6. UNCHANGED <<VisibleMpc, VisibleMi, VisibleCopied>>
  BY <1>1, <1>3 DEF VisibleMpc, VisibleMi, VisibleCopied
<1> QED BY <1>1, <1>4, <1>5, <1>6, WorkerViewKept, Unseen DEF Progress

\* Past the fence the chunk is visible: the reader that lags behind ends its
\* read, and has still to publish.
LEMMA Publishes ==
  ASSUME WeakInv, Visible!SafetyInv, WeakPublish
  PROVE  Progress
<1> DEFINE store == FlagStore(BufOf(mi), "read")
<1>1. /\ mpc = "publish" /\ mbuf = <<>> /\ mbuf' = <<store>> /\ mi' = mi + 1
      /\ mpc' = (IF mi + 1 < Iters THEN "spin" ELSE "join")
      /\ UNCHANGED <<copied, mgot, opened, fpos, wpc, wi, wc, wacc, state, mem,
                     live, work_sink, wbuf>>
  BY DEF WeakPublish, Fence, workerVars
<1>2. mi \in 0 .. Iters - 1 /\ fpos \in Int /\ copied = 0 .. mgot - 1
      /\ mi + 1 > 0 /\ mi = mi' - 1
  BY <1>1, SizeAssumption DEF WeakInv, WeakLoopInv
<1>3. VisibleMpc = "copy" /\ VisibleMi = mi /\ VisibleCopied = copied
  BY <1>1, MainDrained
<1>4. mgot \in 0 .. BufCells
  BY DEF Visible!SafetyInv, Visible!TypeOK
<1>5. VisibleMpc' = "publish" /\ VisibleMi' = mi /\ VisibleCopied' = copied
      /\ VisibleFpos' = VisibleFpos + mgot
  <2>1. FlagPending(mbuf') /\ PendingCells(mbuf') = {}
    BY <1>1, FlagIsPending
  <2>2. VisibleFpos' = VisibleFpos + mgot
    BY <1>1, <1>2, <1>4, SizeAssumption DEF VisibleFpos
  <2> QED BY <1>1, <1>2, <2>1, <2>2 DEF VisibleMpc, VisibleMi, VisibleCopied
<1>6. WeakInv'
  <2>1. store \in Stores
    BY <1>2, SizeAssumption, BufAlternates DEF Stores
  <2>2. mbuf' \in Seq(Stores)
    BY <1>1, <2>1
  <2>3. WeakLoopInv'
    BY <1>1, <1>2, SizeAssumption DEF WeakInv, WeakLoopInv
  <2>4. MainStores'
    BY <1>1, <1>2 DEF MainStores
  <2>5. WorkerStores' /\ wbuf' \in Seq(Stores)
    BY <1>1 DEF WeakInv, WorkerStores
  <2> QED BY <2>2, <2>3, <2>4, <2>5 DEF WeakInv
<1>7. UNCHANGED <<VisibleWpc, VisibleWi>>
  BY <1>1, WorkerViewKept
<1>8. Visible!EndRead
  BY <1>1, <1>2, <1>3, <1>5, <1>7 DEF Visible!EndRead, Visible!workerVars
<1> QED BY <1>6, <1>8 DEF Progress, Visible!Next, Visible!Main

\* The worker has ended only if the flag of the last chunk has reached it.
LEMMA Joins ==
  ASSUME WeakInv, Visible!SafetyInv, WeakJoin
  PROVE  Progress
<1>1. mpc = "join" /\ wpc = "exit" /\ wbuf = <<>> /\ mpc' = "cleanup"
      /\ UNCHANGED <<mi, copied, mgot, opened, fpos, wpc, wi, wc, wacc, state,
                     mem, live, work_sink, mbuf, wbuf>>
  BY DEF WeakJoin, JoinWorker, MainMayJoin, workerVars
<1>2. VisibleWpc = "exit" /\ VisibleWi = Iters
  BY <1>1, WorkerDrained DEF WeakInv, WeakLoopInv
<1>3. mbuf = <<>>
  <2>1. ASSUME NEW b, mbuf = <<FlagStore(b, "read")>> PROVE FALSE
    <3>1. VisibleMi = mi - 1 /\ mi = Iters
      BY <1>1, <2>1, MainFlag DEF WeakInv, WeakLoopInv
    <3> QED BY <1>2, <3>1, SizeAssumption DEF Visible!SafetyInv, Visible!FlagInv
  <2> QED BY <1>1, <2>1 DEF WeakInv, MainStores
<1>4. VisibleMpc = "join" /\ VisibleMpc' = "cleanup"
      /\ UNCHANGED <<VisibleMi, VisibleCopied, VisibleFpos>>
  BY <1>1, <1>3, NothingPending DEF VisibleMpc, VisibleMi, VisibleCopied, VisibleFpos
<1>5. WeakInv'
  BY <1>1, <1>3 DEF WeakInv, WeakLoopInv, MainStores, WorkerStores
<1>6. UNCHANGED <<VisibleWpc, VisibleWi>>
  BY <1>1, WorkerViewKept
<1>7. Visible!JoinWorker
  BY <1>1, <1>2, <1>4, <1>6
     DEF Visible!JoinWorker, Visible!MainMayJoin, Visible!workerVars
<1> QED BY <1>5, <1>7 DEF Progress, Visible!Next, Visible!Main

LEMMA Finishes ==
  ASSUME WeakInv, Visible!SafetyInv, Cleanup \/ Validate, UNCHANGED <<mbuf, wbuf>>
  PROVE  Progress
<1>1. mpc \in {"cleanup", "validate"} /\ mbuf = <<>> /\ wbuf = <<>> /\ wpc = "exit"
  BY DEF Cleanup, Validate, WeakInv, MainStores, WeakLoopInv
<1>2. VisibleMpc = mpc
  BY <1>1, MainDrained
<1>3. CASE Cleanup
  <2>1. WeakInv'
    BY <1>1, <1>3
       DEF Cleanup, WeakInv, WeakLoopInv, MainStores, WorkerStores, workerVars
  <2>2. VisibleMpc' = "validate" /\ UNCHANGED <<VisibleMi, VisibleCopied, VisibleFpos>>
    BY <1>1, <1>3, NothingPending
       DEF Cleanup, VisibleMpc, VisibleMi, VisibleCopied, VisibleFpos
  <2>3. UNCHANGED <<VisibleWpc, VisibleWi>>
    BY <1>3, WorkerViewKept DEF Cleanup, workerVars
  <2>4. Visible!Cleanup
    BY <1>2, <1>3, <2>2, <2>3 DEF Cleanup, Visible!Cleanup, workerVars, Visible!workerVars
  <2> QED BY <2>1, <2>4 DEF Progress, Visible!Next, Visible!Main
<1>4. CASE Validate /\ work_sink = req_workres
  <2>1. WeakInv'
    BY <1>1, <1>4
       DEF Validate, WeakInv, WeakLoopInv, MainStores, WorkerStores, workerVars
  <2>2. VisibleMpc' = "done" /\ UNCHANGED <<VisibleMi, VisibleCopied, VisibleFpos>>
    BY <1>1, <1>4, NothingPending
       DEF Validate, VisibleMpc, VisibleMi, VisibleCopied, VisibleFpos
  <2>3. UNCHANGED <<VisibleWpc, VisibleWi>>
    BY <1>4, WorkerViewKept DEF Validate, workerVars
  <2>4. work_sink = Visible!req_workres
    BY <1>4 DEF req_workres, Visible!req_workres, Transfer, Visible!Transfer,
                FileCells, Visible!FileCells
  <2>5. Visible!Validate
    BY <1>2, <1>4, <2>2, <2>3, <2>4
       DEF Validate, Visible!Validate, workerVars, Visible!workerVars
  <2> QED BY <2>1, <2>5 DEF Progress, Visible!Next, Visible!Main
<1>5. CASE Validate /\ work_sink # req_workres
  <2>1. WeakInv' /\ Visible!AbortProcess
    BY <1>1, <1>5, AbortSeen DEF Validate
  <2>2. work_sink # Visible!req_workres
    BY <1>5 DEF req_workres, Visible!req_workres, Transfer, Visible!Transfer,
                FileCells, Visible!FileCells
  <2>3. Visible!Validate
    BY <1>2, <1>5, <2>1, <2>2 DEF Validate, Visible!Validate
  <2> QED BY <2>1, <2>3 DEF Progress, Visible!Next, Visible!Main
<1> QED BY <1>3, <1>4, <1>5

----------------------------------------------------------------------------
(* The steps of the worker *)

LEMMA WorkerSpins ==
  ASSUME WeakInv, Visible!SafetyInv, WeakWorkerSpin
  PROVE  Progress
<1>1. wpc = "spin" /\ wpc' = "fence" /\ wi \in Int
      /\ UNCHANGED <<mpc, mi, copied, mgot, opened, fpos, wi, wc, wacc, state,
                     mem, live, work_sink, mbuf, wbuf>>
  BY SizeAssumption DEF WeakWorkerSpin, WeakInv, WeakLoopInv, mainVars
<1>2. state[BufOf(wi)] = "read"
  <2>1. ~Pending(wbuf, <<"flag", BufOf(wi), 0>>)
    <3>1. CASE wbuf = <<>>
      BY <3>1 DEF Pending
    <3>2. CASE wbuf = <<FlagStore(BufOf(wi - 1), "written")>>
      <4>1. DOMAIN wbuf = {1} /\ wbuf[1].loc = <<"flag", BufOf(wi - 1), 0>>
        BY <3>2 DEF FlagStore
      <4>2. BufOf(wi - 1) # BufOf(wi)
        BY <1>1, BufAlternates
      <4> QED BY <4>1, <4>2 DEF Pending
    <3> QED BY <1>1, <3>1, <3>2 DEF WeakInv, WorkerStores
  <2> QED BY <2>1 DEF WeakWorkerSpin, SeenFlag
<1>3. VisibleFpos' = VisibleFpos
  BY <1>1 DEF VisibleFpos
<1>4. WeakInv'
  BY <1>1, <1>2, <1>3
     DEF WeakInv, WeakLoopInv, MainStores, StoredCells, WorkerStores
<1>5. UNCHANGED <<VisibleWpc, VisibleWi>>
  BY <1>1 DEF VisibleWpc, VisibleWi
<1> QED BY <1>1, <1>4, <1>5, MainViewKept, Unseen DEF Progress

\* What the main thread has on its way does not depend on the worker.
LEMMA MainStoresKept ==
  ASSUME MainStores, UNCHANGED <<mpc, mi, copied, mgot, fpos, mbuf>>
  PROVE  MainStores'
<1>1. VisibleFpos' = VisibleFpos
  BY DEF VisibleFpos
<1> QED BY <1>1 DEF MainStores, StoredCells

LEMMA WorkerSums ==
  ASSUME WeakInv, Visible!SafetyInv, WeakBeginSum
  PROVE  Progress
<1>1. wpc = "fence" /\ wpc' = "sum" /\ wbuf = <<>> /\ wc' = 0 /\ wacc' = 0
      /\ state[BufOf(wi)] = "read"
      /\ UNCHANGED <<mpc, mi, copied, mgot, opened, fpos, wi, state, mem, live,
                     work_sink, mbuf, wbuf>>
  BY DEF WeakBeginSum, EnterSum, Fence, mainVars, WeakInv, WeakLoopInv
<1>2. WeakInv'
  BY <1>1, MainStoresKept DEF WeakInv, WeakLoopInv, WorkerStores
<1>3. VisibleWpc = "spin" /\ VisibleWi = wi /\ VisibleWpc' = "sum" /\ VisibleWi' = wi
  BY <1>1, NothingPending DEF VisibleWpc, VisibleWi
<1>4. UNCHANGED <<VisibleMpc, VisibleMi, VisibleCopied, VisibleFpos>>
  BY <1>1, MainViewKept
<1>5. Visible!BeginSum
  BY <1>1, <1>3, <1>4
     DEF Visible!BeginSum, Visible!WorkerMayEnter, Visible!EnterSum,
         Visible!mainVars, BufOf, Visible!BufOf
<1> QED BY <1>2, <1>5 DEF Progress, Visible!Next, Visible!Worker

LEMMA WorkerLoads ==
  ASSUME WeakInv, Visible!SafetyInv, LoadCell, UNCHANGED <<mbuf, wbuf>>
  PROVE  Progress
<1>1. wpc = "sum" /\ wbuf = <<>>
      /\ UNCHANGED <<mpc, mi, copied, mgot, opened, fpos, wpc, wi, state, mem,
                     live, work_sink>>
  BY DEF LoadCell, mainVars, WeakInv, WorkerStores
<1>2. WeakInv'
  BY <1>1, MainStoresKept DEF WeakInv, WeakLoopInv, WorkerStores
<1>3. VisibleWpc = "sum" /\ VisibleWi = wi /\ UNCHANGED <<VisibleWpc, VisibleWi>>
  BY <1>1, NothingPending DEF VisibleWpc, VisibleWi
<1>4. UNCHANGED <<VisibleMpc, VisibleMi, VisibleCopied, VisibleFpos>>
  BY <1>1, MainViewKept
<1>5. Visible!LoadCell
  BY <1>1, <1>3, <1>4
     DEF LoadCell, Visible!LoadCell, Visible!mainVars, BufOf, Visible!BufOf
<1> QED BY <1>2, <1>5 DEF Progress, Visible!Next, Visible!Worker

\* The sum is added for the others when it leaves the worker's buffer.
LEMMA WorkerAdds ==
  ASSUME WeakInv, Visible!SafetyInv, WeakAddToOutput
  PROVE  Progress
<1>1. wpc = "sum" /\ wbuf = <<>> /\ wc = BufCells
  BY DEF WeakAddToOutput, WeakInv, WorkerStores
<1>2. SeenSink = work_sink
  BY <1>1 DEF SeenSink, Pending
<1>3. wbuf' = <<SinkStore(work_sink + wacc)>> /\ wpc' = "release"
      /\ UNCHANGED <<mpc, mi, copied, mgot, opened, fpos, wi, wc, wacc, state,
                     mem, live, work_sink, mbuf>>
  BY <1>1, <1>2 DEF WeakAddToOutput, mainVars
<1>4. WeakInv'
  <2>1. work_sink + wacc \in Int
    BY DEF Visible!SafetyInv, Visible!TypeOK
  <2>2. SinkStore(work_sink + wacc) \in Stores
    BY <2>1 DEF Stores
  <2>3. wbuf' \in Seq(Stores)
    BY <1>3, <2>2
  <2>4. WorkerStores'
    BY <1>3 DEF WorkerStores
  <2> QED BY <1>1, <1>3, <2>3, <2>4, MainStoresKept DEF WeakInv, WeakLoopInv
<1>5. VisibleWpc' = VisibleWpc /\ VisibleWi' = VisibleWi
  <2>1. VisibleWpc = "sum" /\ VisibleWi = wi
    BY <1>1, WorkerDrained
  <2>2. ~FlagPending(wbuf') /\ wbuf' # <<>>
    BY <1>3, SinkIsPending
  <2> QED BY <1>3, <2>1, <2>2 DEF VisibleWpc, VisibleWi
<1> QED BY <1>3, <1>4, <1>5, MainViewKept, Unseen DEF Progress

LEMMA WorkerReleases ==
  ASSUME WeakInv, Visible!SafetyInv, WeakRelease
  PROVE  Progress
<1> DEFINE store == FlagStore(BufOf(wi), "written")
<1>1. /\ wpc = "release" /\ wbuf = <<>> /\ wbuf' = <<store>> /\ wi' = wi + 1
      /\ wpc' = (IF wi + 1 < Iters THEN "spin" ELSE "exit")
      /\ UNCHANGED <<mpc, mi, copied, mgot, opened, fpos, wc, wacc, state, mem,
                     live, work_sink, mbuf>>
  BY DEF WeakRelease, Fence, mainVars
<1>2. wi \in 0 .. Iters - 1 /\ wi + 1 > 0 /\ wi = wi' - 1
  BY <1>1, SizeAssumption DEF WeakInv, WeakLoopInv
<1>3. WeakInv'
  <2>1. store \in Stores
    BY <1>2, SizeAssumption, BufAlternates DEF Stores
  <2>2. wbuf' \in Seq(Stores)
    BY <1>1, <2>1
  <2>3. WeakLoopInv'
    BY <1>1, <1>2, SizeAssumption DEF WeakInv, WeakLoopInv
  <2>4. WorkerStores'
    BY <1>1, <1>2 DEF WorkerStores
  <2> QED BY <1>1, <2>2, <2>3, <2>4, MainStoresKept DEF WeakInv
<1>4. VisibleWpc' = VisibleWpc /\ VisibleWi' = VisibleWi
  <2>1. VisibleWpc = "release" /\ VisibleWi = wi
    BY <1>1, WorkerDrained
  <2>2. FlagPending(wbuf')
    BY <1>1, FlagIsPending
  <2> QED BY <1>1, <1>2, <2>1, <2>2 DEF VisibleWpc, VisibleWi
<1> QED BY <1>1, <1>3, <1>4, MainViewKept, Unseen DEF Progress

----------------------------------------------------------------------------
(* Stores become visible *)

\* A buffer of one store drains empty.
LEMMA LastDrained ==
  ASSUME NEW store \in Stores, NEW buf, buf = <<store>>, NEW i \in DOMAIN buf
  PROVE  Without(buf, i) = <<>> /\ buf[i] = store
<1>1. buf \in Seq(Stores) /\ Len(buf) = 1 /\ DOMAIN buf = {1}
  OBVIOUS
<1>2. Without(buf, i) \in Seq(Stores) /\ Len(Without(buf, i)) = Len(buf) - 1
  BY <1>1, WithoutIs
<1>3. Len(Without(buf, i)) = 0
  BY <1>1, <1>2
<1> QED BY <1>1, <1>2, <1>3, EmptySeq

LEMMA CellDrains ==
  ASSUME WeakInv, Visible!SafetyInv, DrainMain, mpc \in {"copy", "publish"}
  PROVE  Progress
<1>1. PICK i \in DOMAIN mbuf :
        Perform(mbuf[i]) /\ mbuf' = Without(mbuf, i) /\ UNCHANGED wbuf
  BY DEF DrainMain
<1>2. StoredCells /\ ~FlagPending(mbuf) /\ VisibleMpc = "copy" /\ VisibleMi = mi
  BY MainReads DEF WeakInv
<1>3. PICK c \in copied : mbuf[i] = CellStore(BufOf(mi), c, Data[VisibleFpos + c])
  BY <1>2 DEF StoredCells
<1>4. /\ mem' = [mem EXCEPT ![BufOf(mi)][c] = Data[VisibleFpos + c]]
      /\ UNCHANGED <<mpc, mi, copied, mgot, opened, fpos, wpc, wi, wc, wacc,
                     state, live, work_sink, wbuf>>
  BY <1>1, <1>3 DEF Perform, CellStore, mainVars, workerVars
<1>5. /\ mbuf' \in Seq(Stores)
      /\ \A j \in DOMAIN mbuf' : \E k \in DOMAIN mbuf \ {i} : mbuf'[j] = mbuf[k]
      /\ \A k \in DOMAIN mbuf \ {i} : \E j \in DOMAIN mbuf' : mbuf'[j] = mbuf[k]
      /\ \A j, l \in DOMAIN mbuf' : mbuf'[j].loc = mbuf'[l].loc => j = l
  <2>1. mbuf \in Seq(Stores) /\ DOMAIN mbuf = 1 .. Len(mbuf) /\ Len(mbuf) \in Nat
    BY LenProperties DEF WeakInv
  <2>2. /\ mbuf' \in Seq(Stores) /\ Len(mbuf') = Len(mbuf) - 1
        /\ \A j \in DOMAIN mbuf' : mbuf'[j] = IF j < i THEN mbuf[j] ELSE mbuf[j + 1]
    BY <1>1, <2>1, WithoutIs
  <2>3. DOMAIN mbuf' = 1 .. Len(mbuf) - 1
    BY <2>2, LenProperties
  <2>4. ASSUME NEW j \in DOMAIN mbuf'
        PROVE  \E k \in DOMAIN mbuf \ {i} : mbuf'[j] = mbuf[k]
    <3>1. CASE j < i
      BY <2>1, <2>2, <2>3, <3>1
    <3>2. CASE ~(j < i)
      <4>1. j + 1 \in DOMAIN mbuf \ {i} /\ mbuf'[j] = mbuf[j + 1]
        BY <2>1, <2>2, <2>3, <3>2
      <4> QED BY <4>1
    <3> QED BY <3>1, <3>2
  <2>5. ASSUME NEW k \in DOMAIN mbuf \ {i}
        PROVE  \E j \in DOMAIN mbuf' : mbuf'[j] = mbuf[k]
    <3>1. CASE k < i
      BY <2>1, <2>2, <2>3, <3>1
    <3>2. CASE k > i
      <4>1. k - 1 \in DOMAIN mbuf' /\ ~(k - 1 < i) /\ (k - 1) + 1 = k
        BY <2>1, <2>3, <3>2
      <4> QED BY <2>2, <4>1
    <3> QED BY <2>1, <3>1, <3>2
  <2>6. ASSUME NEW j \in DOMAIN mbuf', NEW l \in DOMAIN mbuf',
               mbuf'[j].loc = mbuf'[l].loc
        PROVE  j = l
    <3>1. \A p, q \in DOMAIN mbuf : mbuf[p].loc = mbuf[q].loc => p = q
      BY <1>2 DEF StoredCells
    <3>2. /\ j \in DOMAIN mbuf /\ j + 1 \in DOMAIN mbuf
          /\ l \in DOMAIN mbuf /\ l + 1 \in DOMAIN mbuf
      BY <2>1, <2>3
    <3> QED BY <2>1, <2>2, <2>3, <2>6, <3>1, <3>2
  <2> QED BY <2>2, <2>4, <2>5, <2>6
<1>6. VisibleFpos' = VisibleFpos
  BY <1>4 DEF VisibleFpos
<1>7. StoredCells'
  <2>1. ASSUME NEW j \in DOMAIN mbuf'
        PROVE  \E d \in copied' : mbuf'[j] = CellStore(BufOf(mi), d, Data[VisibleFpos + d])
    BY <1>2, <1>4, <1>5 DEF StoredCells
  <2> QED BY <1>4, <1>5, <1>6, <2>1 DEF StoredCells
<1>8. WeakInv'
  BY <1>4, <1>5, <1>7 DEF WeakInv, WeakLoopInv, MainStores, WorkerStores
<1>9. VisibleMpc' = "copy" /\ VisibleMi' = mi
  <2>1. \A j \in DOMAIN mbuf' : mbuf'[j].loc[1] = "cell"
    BY <1>7 DEF StoredCells, CellStore
  <2>2. ~FlagPending(mbuf')
    BY <2>1 DEF FlagPending
  <2> QED BY <1>4, <2>2 DEF VisibleMpc, VisibleMi
<1>10. c \in PendingCells(mbuf) /\ PendingCells(mbuf') = PendingCells(mbuf) \ {c}
  <2>1. \A k \in DOMAIN mbuf : \E d \in copied :
          mbuf[k].loc = <<"cell", BufOf(mi), d>>
    BY <1>2 DEF StoredCells, CellStore
  <2>2. \A k \in DOMAIN mbuf : mbuf[k].loc = <<"cell", BufOf(mi), mbuf[k].loc[3]>>
    BY <2>1
  <2>3. PendingCells(mbuf) = {mbuf[k].loc[3] : k \in DOMAIN mbuf}
    BY <2>2 DEF PendingCells
  <2>4. PendingCells(mbuf') = {mbuf'[j].loc[3] : j \in DOMAIN mbuf'}
    BY <1>5, <2>2 DEF PendingCells
  <2>5. mbuf[i].loc[3] = c
    BY <1>3 DEF CellStore
  <2>6. \A k \in DOMAIN mbuf \ {i} : mbuf[k].loc[3] # c
    BY <1>2, <2>2, <2>5 DEF StoredCells
  <2>7. PendingCells(mbuf') = {mbuf[k].loc[3] : k \in DOMAIN mbuf \ {i}}
    BY <1>5, <2>4
  <2> QED BY <2>3, <2>5, <2>6, <2>7
<1>11. VisibleCopied' = VisibleCopied \cup {c} /\ c \notin VisibleCopied
  BY <1>4, <1>10 DEF VisibleCopied
<1>12. c \in Cells /\ c < mgot
  BY SizeAssumption DEF WeakInv, WeakLoopInv, Visible!SafetyInv, Visible!TypeOK, Cells
<1>13. UNCHANGED <<VisibleWpc, VisibleWi>>
  BY <1>4, WorkerViewKept
<1>14. Visible!CopyCell(c)
  BY <1>2, <1>4, <1>6, <1>9, <1>11, <1>12, <1>13
     DEF Visible!CopyCell, BufOf, Visible!BufOf, Visible!workerVars
<1> QED BY <1>8, <1>12, <1>14 DEF Progress, Visible!Next, Visible!Main, Cells, Visible!Cells

LEMMA FlagDrains ==
  ASSUME WeakInv, Visible!SafetyInv, DrainMain, mpc \notin {"copy", "publish"}
  PROVE  Progress
<1>1. PICK i \in DOMAIN mbuf :
        Perform(mbuf[i]) /\ mbuf' = Without(mbuf, i) /\ UNCHANGED wbuf
  BY DEF DrainMain
<1> DEFINE store == FlagStore(BufOf(mi - 1), "read")
<1>2. mpc \in {"spin", "fence", "join"} /\ mi \in 1 .. Iters /\ mbuf = <<store>>
  BY <1>1, SizeAssumption DEF WeakInv, MainStores, WeakLoopInv
<1>3. store \in Stores
  BY <1>2, SizeAssumption, BufAlternates DEF Stores
<1>4. mbuf[i] = store /\ mbuf' = <<>>
  BY <1>1, <1>2, <1>3, LastDrained
<1>5. /\ state' = [state EXCEPT ![BufOf(mi - 1)] = "read"]
      /\ UNCHANGED <<mpc, mi, copied, mgot, opened, fpos, wpc, wi, wc, wacc, mem,
                     live, work_sink, wbuf>>
  BY <1>1, <1>4 DEF Perform, FlagStore, mainVars, workerVars
<1>6. WeakInv'
  <2>1. state \in [Bufs -> {"written", "read"}]
    BY DEF Visible!SafetyInv, Visible!TypeOK, Bufs, Visible!Bufs
  <2>2. mpc = "fence" => state'[BufOf(mi)] = "written"
    <3>1. BufOf(mi) # BufOf(mi - 1) /\ BufOf(mi) \in Bufs
      BY <1>2, SizeAssumption, BufAlternates
    <3> QED BY <1>5, <2>1, <3>1 DEF WeakInv, WeakLoopInv
  <2>3. wpc = "fence" => state'[BufOf(wi)] = "read"
    <3>1. BufOf(wi) \in Bufs /\ BufOf(mi - 1) \in Bufs
      BY <1>2, SizeAssumption, BufAlternates DEF WeakInv, WeakLoopInv
    <3> QED BY <1>5, <2>1, <3>1 DEF WeakInv, WeakLoopInv
  <2> QED BY <1>4, <1>5, <2>2, <2>3 DEF WeakInv, WeakLoopInv, MainStores, WorkerStores
<1>7. VisibleMpc = "publish" /\ VisibleMi = mi - 1 /\ VisibleCopied = copied
  BY <1>2, MainFlag
<1>8. /\ VisibleMpc' = (IF mpc = "fence" THEN "spin" ELSE mpc)
      /\ VisibleMi' = mi /\ VisibleCopied' = copied /\ VisibleFpos' = VisibleFpos
  <2>1. ~FlagPending(mbuf') /\ PendingCells(mbuf') = {}
    BY <1>4, NothingPending
  <2> QED BY <1>2, <1>5, <2>1 DEF VisibleMpc, VisibleMi, VisibleCopied, VisibleFpos
<1>9. VisibleMpc' = (IF mi < Iters THEN "spin" ELSE "join")
  BY <1>2, <1>8, SizeAssumption DEF WeakInv, WeakLoopInv
<1>10. UNCHANGED <<VisibleWpc, VisibleWi>>
  BY <1>5, WorkerViewKept
<1>11. VisibleMi + 1 = mi
  BY <1>2, <1>7, SizeAssumption
<1>12. Visible!Publish
  BY <1>5, <1>7, <1>8, <1>9, <1>10, <1>11
     DEF Visible!Publish, BufOf, Visible!BufOf, Visible!workerVars
<1> QED BY <1>6, <1>12 DEF Progress, Visible!Next, Visible!Main

LEMMA WorkerDrains ==
  ASSUME WeakInv, Visible!SafetyInv, DrainWorker
  PROVE  Progress
<1>1. PICK i \in DOMAIN wbuf :
        Perform(wbuf[i]) /\ wbuf' = Without(wbuf, i) /\ UNCHANGED mbuf
  BY DEF DrainWorker
<1>2. wbuf # <<>>
  BY <1>1
<1>3. CASE wpc = "release" /\ wbuf = <<SinkStore(work_sink + wacc)>>
  <2> DEFINE store == SinkStore(work_sink + wacc)
  <2>1. store \in Stores
    <3>1. work_sink + wacc \in Int
      BY DEF Visible!SafetyInv, Visible!TypeOK
    <3> QED BY <3>1 DEF Stores
  <2>2. wbuf[i] = store /\ wbuf' = <<>>
    BY <1>1, <1>3, <2>1, LastDrained
  <2>3. /\ work_sink' = work_sink + wacc
        /\ UNCHANGED <<mpc, mi, copied, mgot, opened, fpos, wpc, wi, wc, wacc,
                       state, mem, live, mbuf>>
    BY <1>1, <2>2 DEF Perform, SinkStore, mainVars, workerVars
  <2>4. WeakInv'
    BY <1>3, <2>2, <2>3, MainStoresKept DEF WeakInv, WeakLoopInv, WorkerStores
  <2>5. VisibleWpc = "sum" /\ VisibleWi = wi
    BY <1>3, WorkerSink
  <2>6. VisibleWpc' = "release" /\ VisibleWi' = wi
    BY <1>3, <2>2, <2>3, NothingPending DEF VisibleWpc, VisibleWi
  <2>7. UNCHANGED <<VisibleMpc, VisibleMi, VisibleCopied, VisibleFpos>>
    BY <2>3, MainViewKept
  <2>8. Visible!AddToOutput
    BY <1>3, <2>3, <2>5, <2>6, <2>7
       DEF WeakInv, WeakLoopInv, Visible!AddToOutput, Visible!mainVars
  <2> QED BY <2>4, <2>8 DEF Progress, Visible!Next, Visible!Worker
<1>4. CASE wbuf = <<FlagStore(BufOf(wi - 1), "written")>>
  <2> DEFINE store == FlagStore(BufOf(wi - 1), "written")
  <2>1. wpc \in {"spin", "fence", "exit"} /\ wi \in 1 .. Iters
    <3>1. ASSUME NEW v, wbuf = <<SinkStore(v)>> PROVE FALSE
      BY <1>4, <3>1, SinkIsPending, FlagIsPending
    <3> QED BY <1>2, <3>1, SizeAssumption DEF WeakInv, WorkerStores, WeakLoopInv
  <2>2. store \in Stores
    BY <2>1, SizeAssumption, BufAlternates DEF Stores
  <2>3. wbuf[i] = store /\ wbuf' = <<>>
    BY <1>1, <1>4, <2>2, LastDrained
  <2>4. /\ state' = [state EXCEPT ![BufOf(wi - 1)] = "written"]
        /\ UNCHANGED <<mpc, mi, copied, mgot, opened, fpos, wpc, wi, wc, wacc,
                       mem, live, work_sink, mbuf>>
    BY <1>1, <2>3 DEF Perform, FlagStore, mainVars, workerVars
  <2>5. WeakInv'
    <3>1. state \in [Bufs -> {"written", "read"}]
      BY DEF Visible!SafetyInv, Visible!TypeOK, Bufs, Visible!Bufs
    <3>2. wpc = "fence" => state'[BufOf(wi)] = "read"
      <4>1. BufOf(wi) # BufOf(wi - 1) /\ BufOf(wi) \in Bufs
        BY <2>1, SizeAssumption, BufAlternates
      <4> QED BY <2>4, <3>1, <4>1 DEF WeakInv, WeakLoopInv
    <3>3. mpc = "fence" => state'[BufOf(mi)] = "written"
      <4>0. mi \in Int /\ wi - 1 \in Int
        BY <2>1, SizeAssumption DEF WeakInv, WeakLoopInv
      <4>1. BufOf(mi) \in Bufs /\ BufOf(wi - 1) \in Bufs
        BY <4>0, BufAlternates
      <4> QED BY <2>4, <3>1, <4>1 DEF WeakInv, WeakLoopInv
    <3> QED BY <2>3, <2>4, <3>2, <3>3, MainStoresKept DEF WeakInv, WeakLoopInv, WorkerStores
  <2>6. VisibleWpc = "release" /\ VisibleWi = wi - 1
    BY <1>4, WorkerFlag
  <2>7. VisibleWpc' = (IF wpc = "fence" THEN "spin" ELSE wpc) /\ VisibleWi' = wi
    BY <2>1, <2>3, <2>4, NothingPending DEF VisibleWpc, VisibleWi
  <2>8. VisibleWpc' = (IF wi < Iters THEN "spin" ELSE "exit")
    BY <2>1, <2>7, SizeAssumption DEF WeakInv, WeakLoopInv
  <2>9. UNCHANGED <<VisibleMpc, VisibleMi, VisibleCopied, VisibleFpos>>
    BY <2>4, MainViewKept
  <2>10. VisibleWi + 1 = wi
    BY <2>1, <2>6, SizeAssumption
  <2>11. Visible!Release
    BY <2>4, <2>6, <2>7, <2>8, <2>9, <2>10
       DEF Visible!Release, BufOf, Visible!BufOf, Visible!mainVars
  <2> QED BY <2>5, <2>11 DEF Progress, Visible!Next, Visible!Worker
<1> QED BY <1>2, <1>3, <1>4 DEF WeakInv, WorkerStores

----------------------------------------------------------------------------
(* The theorem *)

LEMMA WeakStart == WeakInit => WeakInv /\ Visible!Init
<1> SUFFICES ASSUME WeakInit PROVE WeakInv /\ Visible!Init
  OBVIOUS
<1>1. /\ VisibleMpc = "start" /\ VisibleMi = 0 /\ VisibleCopied = {}
      /\ VisibleFpos = 0 /\ VisibleWpc = "none" /\ VisibleWi = 0
  BY NothingPending
     DEF WeakInit, Init, VisibleMpc, VisibleMi, VisibleCopied, VisibleFpos,
         VisibleWpc, VisibleWi
<1>2. Visible!Init
  BY <1>1 DEF WeakInit, Init, Visible!Init, Bufs, Visible!Bufs, Cells, Visible!Cells
<1>3. WeakInv
  <2>1. <<>> \in Seq(Stores)
    OBVIOUS
  <2> QED BY <2>1, SizeAssumption
          DEF WeakInit, Init, WeakInv, WeakLoopInv, MainStores, WorkerStores
<1> QED BY <1>2, <1>3

LEMMA WeakSteps ==
  WeakInv /\ Visible!SafetyInv /\ [WeakNext]_weakVars
    => WeakInv' /\ [Visible!Next]_(Visible!vars)
<1> SUFFICES ASSUME WeakInv, Visible!SafetyInv, [WeakNext]_weakVars PROVE Progress
  BY DEF Progress
<1>1. CASE AllocateBuffers /\ UNCHANGED <<mbuf, wbuf>>
  BY <1>1, StartUps
<1>2. CASE SpawnWorker /\ UNCHANGED <<mbuf, wbuf>>
  BY <1>2, StartUps
<1>3. CASE OpenFile /\ UNCHANGED <<mbuf, wbuf>>
  BY <1>3, Opens
<1>4. CASE EndRead /\ UNCHANGED <<mbuf, wbuf>>
  BY <1>4, EndsRead
<1>5. CASE (Cleanup \/ Validate) /\ UNCHANGED <<mbuf, wbuf>>
  BY <1>5, Finishes
<1>6. CASE WeakSpin
  BY <1>6, Spins
<1>7. CASE WeakBeginRead
  BY <1>7, BeginsRead
<1>8. CASE \E c \in Cells : WeakCopyCell(c)
  BY <1>8, CopiesCell
<1>9. CASE WeakPublish
  BY <1>9, Publishes
<1>10. CASE WeakJoin
  BY <1>10, Joins
<1>11. CASE WeakWorkerSpin
  BY <1>11, WorkerSpins
<1>12. CASE WeakBeginSum
  BY <1>12, WorkerSums
<1>13. CASE LoadCell /\ UNCHANGED <<mbuf, wbuf>>
  BY <1>13, WorkerLoads
<1>14. CASE WeakAddToOutput
  BY <1>14, WorkerAdds
<1>15. CASE WeakRelease
  BY <1>15, WorkerReleases
<1>16. CASE DrainMain
  BY <1>16, CellDrains, FlagDrains
<1>17. CASE DrainWorker
  BY <1>17, WorkerDrains
<1>18. CASE UNCHANGED weakVars
  <2>1. UNCHANGED <<mpc, mi, copied, mgot, opened, fpos, wpc, wi, wc, wacc,
                    state, mem, live, work_sink, mbuf, wbuf>>
    BY <1>18 DEF weakVars, vars, mainVars, workerVars
  <2>2. WeakInv'
    BY <2>1, MainStoresKept DEF WeakInv, WeakLoopInv, WorkerStores
  <2> QED BY <2>1, <2>2, MainViewKept, WorkerViewKept, Unseen DEF Progress
<1>19. CASE WeakTerminating
  BY <1>18, <1>19 DEF WeakTerminating, Terminating, weakVars
<1> QED
  BY <1>1, <1>2, <1>3, <1>4, <1>5, <1>6, <1>7, <1>8, <1>9, <1>10, <1>11, <1>12,
     <1>13, <1>14, <1>15, <1>16, <1>17, <1>18, <1>19
  DEF WeakNext, WeakMain, WeakWorker

\* The fences of file_processing.cpp (:303, :307, :264, :268) are enough: on a
\* machine that lets stores be seen late and out of order, the two threads do
\* what they do on a sequentially consistent one, so that all that is proved of
\* ThreadedRead holds of what becomes visible.
THEOREM FencesAreEnough == WeakSpec => FencesSuffice
<1>1. WeakInit => WeakInv /\ Visible!SafetyInv /\ Sequential!Init
  BY WeakStart, SameReader, VisibleSafety
<1>2. WeakInv /\ Visible!SafetyInv /\ [WeakNext]_weakVars
        => /\ WeakInv' /\ Visible!SafetyInv'
           /\ [Sequential!Next]_(Sequential!vars)
  BY WeakSteps, SameReader, VisibleSafety
<1> QED BY <1>1, <1>2, PTL DEF WeakSpec, FencesSuffice, Sequential!Spec

----------------------------------------------------------------------------
(* What the two threads themselves do on this machine *)

LEMMA WeakSafety == WeakSpec => [](WeakInv /\ Visible!SafetyInv) /\ Visible!Spec
<1>1. WeakInit => WeakInv /\ Visible!SafetyInv /\ Visible!Init
  BY WeakStart, VisibleSafety
<1>2. WeakInv /\ Visible!SafetyInv /\ [WeakNext]_weakVars
        => WeakInv' /\ Visible!SafetyInv' /\ [Visible!Next]_(Visible!vars)
  BY WeakSteps, VisibleSafety
<1> QED BY <1>1, <1>2, PTL DEF WeakSpec, Visible!Spec

\* Where a thread works on a buffer, the lagging reader has it working there.
LEMMA WorkIsVisible ==
  ASSUME WeakInv
  PROVE  /\ mpc \in {"copy", "publish"} => VisibleMpc = "copy" /\ VisibleMi = mi
         /\ mpc = "validate" => VisibleMpc = "validate"
         /\ wpc \in {"sum", "release"} =>
              VisibleWpc \in {"sum", "release"} /\ VisibleWi = wi
         /\ wpc \in {"spin", "fence", "sum", "release"} =>
              VisibleWpc \in {"spin", "sum", "release"}
<1>1. mpc \in {"copy", "publish"} => VisibleMpc = "copy" /\ VisibleMi = mi
  BY MainReads DEF WeakInv
<1>2. mpc = "validate" => mbuf = <<>>
  BY DEF WeakInv, MainStores
<1>3. wpc \in {"sum", "release"} => ~FlagPending(wbuf)
  BY NothingPending, SinkIsPending DEF WeakInv, WorkerStores
<1> QED BY <1>1, <1>2, <1>3, MainDrained DEF VisibleWpc, VisibleWi

\* Main and worker are not in the same buffer at a time, whichever of their
\* stores are still on their way.
THEOREM WeakExclusion == WeakSpec => []BufferExclusion
<1>1. WeakInv /\ Visible!SafetyInv => BufferExclusion
  <2> SUFFICES ASSUME WeakInv, Visible!SafetyInv,
                      mpc \in {"copy", "publish"}, wpc \in {"sum", "release"}
               PROVE  BufOf(mi) # BufOf(wi)
    BY DEF BufferExclusion
  <2>1. VisibleWi < VisibleMi /\ VisibleMi <= VisibleWi + 1
        /\ VisibleMi = mi /\ VisibleWi = wi
    BY WorkIsVisible DEF Visible!SafetyInv, Visible!FlagInv
  <2>2. wi \in Int /\ mi = wi + 1
    BY <2>1, SizeAssumption DEF WeakInv, WeakLoopInv
  <2> QED BY <2>2, BufAlternates
<1> QED BY <1>1, WeakSafety, PTL

\* The worker is not left with released memory, even with stores on their way.
THEOREM WeakMemoryLives == WeakSpec => []NoUseAfterFree
<1>1. WeakInv /\ Visible!SafetyInv => NoUseAfterFree
  BY WorkIsVisible
     DEF NoUseAfterFree, Visible!SafetyInv, Visible!TypeOK, Visible!LoopInv
<1> QED BY <1>1, WeakSafety, PTL

\* The assertion at file_processing.cpp:320 holds on this machine as well.
THEOREM WeakResult == CompleteReads => (WeakSpec => []ResultValidates)
<1> SUFFICES ASSUME CompleteReads PROVE WeakSpec => []ResultValidates
  OBVIOUS
<1>1. Visible!CompleteReads
  BY DEF CompleteReads, Visible!CompleteReads, FileCells, Visible!FileCells
<1>2. Visible!Spec => []Visible!ResultValidates
  BY <1>1, Visible!Result, SizeAssumption, DataAssumption, PrefixAssumption,
     PlatformAssumption DEF FileCells, Visible!FileCells
<1>3. WeakInv /\ Visible!ResultValidates => ResultValidates
  BY WorkIsVisible
     DEF ResultValidates, Visible!ResultValidates, req_workres, Visible!req_workres,
         Transfer, Visible!Transfer, FileCells, Visible!FileCells
<1> QED BY <1>2, <1>3, WeakSafety, PTL

(***************************************************************************)
(* The threaded test between the other tests of the program: what is       *)
(* proved of ThreadedRead by itself holds in main, and every test leaves   *)
(* descriptors and memory of the process as it found them, for every file, *)
(* chunk size, number of repetitions and choice of failures.  And the sum  *)
(* of a test tells whether it has read the whole file, if the data does.   *)
(***************************************************************************)

\* A step of the program is a step of the threaded test or leaves it alone.
LEMMA ThreadedStep == [TestsNext]_allVars => [Next]_vars
<1> SUFFICES ASSUME TestsNext \/ UNCHANGED allVars PROVE Next \/ UNCHANGED vars
  OBVIOUS
<1>1. CASE SequentialStep /\ UNCHANGED vars
  BY <1>1
<1>2. CASE test = "threaded" /\ (Main \/ Worker) /\ UNCHANGED tests
  BY <1>2 DEF Next
<1>3. CASE (test \in {"end", "gone"} \/ mpc = "aborted") /\ UNCHANGED allVars
  BY <1>3 DEF allVars
<1>4. CASE UNCHANGED allVars
  BY <1>4 DEF allVars
<1> QED BY <1>1, <1>2, <1>3, <1>4 DEF TestsNext

\* The program restricted to the variables of the threaded test behaves as the
\* threaded test does.
LEMMA ThreadedPart == TestsSpec => Spec
<1>1. TestsSpec => Init /\ [][TestsNext]_allVars
  BY PTL DEF TestsSpec, TestsInit
<1> QED BY <1>1, ThreadedStep, PTL DEF Spec

\* In the program, too, main and worker never work on the same half
\* (file_processing.cpp:260 and 299).
THEOREM ExclusionInProgram == TestsSpec => []BufferExclusion
BY ThreadedPart, Exclusion, PTL

\* In the program, too, the buffers outlive the worker (:313).
THEOREM MemoryLivesInProgram == TestsSpec => []NoUseAfterFree
BY ThreadedPart, WorkerMemoryLives, PTL

\* In the program, too, the threaded sum is the reference sum if reads are
\* complete (:320).
THEOREM ResultInProgram == CompleteReads => (TestsSpec => []ResultValidates)
<1> SUFFICES ASSUME CompleteReads PROVE TestsSpec => []ResultValidates
  OBVIOUS
<1>1. Spec => []ResultValidates
  BY Result
<1> QED BY <1>1, ThreadedPart, PTL

\* In the program, too, the threaded test implements the pipeline.
THEOREM PipelineInProgram == CompleteReads => (TestsSpec => ImplementsPipeline)
<1> SUFFICES ASSUME CompleteReads PROVE TestsSpec => ImplementsPipeline
  OBVIOUS
<1>1. Spec => ImplementsPipeline
  BY Refinement
<1> QED BY <1>1, ThreadedPart, PTL

----------------------------------------------------------------------------
(* What a test leaves behind *)

\* The descriptors between two tests.
Rest == IF stray THEN StandardFds \ {0} ELSE StandardFds

\* The tests before the threaded one find it not begun, the one after it done;
\* and it holds nothing after its cleanup.
ThreadedAtRest ==
  /\ test \in Readers => mpc = "start" /\ ~live /\ ~opened
  /\ test = "map" => mpc = "done"
  /\ mpc \in {"validate", "done"} => ~live /\ ~opened

\* Closing its file takes a sequential test back to where it began, from the
\* moment it has opened it, or tried to.
RestInv ==
  /\ test = "threaded" => fds = Rest
  /\ test \in SequentialTests =>
       /\ spc \in {"allocate", "open", "loop", "validate"}
       /\ spc # "loop" => section = FALSE /\ fd = -1 /\ fds = Rest
       /\ spc = "loop" => AfterClose = Rest
       /\ spc \in {"allocate", "validate"} => workbuf = None

LeavesInv == ThreadedAtRest /\ RestInv

LEMMA LeavesInit == TestsInit => LeavesInv
BY DEF Init, TestsInit, LeavesInv, ThreadedAtRest, RestInv, Rest

\* A step of the threaded test.
LEMMA ThreadedKeeps ==
  ASSUME LeavesInv, test = "threaded", Main \/ Worker, UNCHANGED tests
  PROVE  LeavesInv'
<1> USE DEF LeavesInv
<1>1. RestInv'
  BY DEF RestInv, Rest, AfterClose, tests, run, SequentialTests, Readers
<1>2. test' = "threaded"
  BY DEF tests
<1>3. mpc' \in {"validate", "done"} => ~live' /\ ~opened'
  <2>1. CASE Worker
    BY <2>1 DEF Worker, BeginSum, EnterSum, LoadCell, AddToOutput, Release, mainVars, ThreadedAtRest
  <2>2. CASE Cleanup \/ Validate
    BY <2>2 DEF Cleanup, Validate, AbortProcess, ThreadedAtRest
  <2>3. CASE AllocateBuffers \/ SpawnWorker \/ OpenFile \/ BeginRead \/ EndRead \/ Publish \/ JoinWorker
    BY <2>3 DEF AllocateBuffers, SpawnWorker, OpenFile, BeginRead, EnterRead, EndRead, Publish,
                JoinWorker, AbortProcess
  <2>4. CASE \E c \in Cells : CopyCell(c)
    BY <2>4 DEF CopyCell
  <2> QED BY <2>1, <2>2, <2>3, <2>4 DEF Main
<1> QED BY <1>1, <1>2, <1>3 DEF ThreadedAtRest, Readers

\* open finds the lowest descriptor that nobody has.
LEMMA LowestUnused ==
  ASSUME fds = Rest
  PROVE  LET n == CHOOSE n \in 0 .. 3 : n \notin fds /\ \A k \in 0 .. n - 1 : k \in fds
         IN  n \in 0 .. 3 /\ n \notin fds
<1>1. \E n \in 0 .. 3 : n \notin fds /\ \A k \in 0 .. n - 1 : k \in fds
  <2>1. CASE stray
    <3>1. 0 \notin fds /\ \A k \in 0 .. 0 - 1 : k \in fds
      BY <2>1 DEF Rest, StandardFds
    <3> QED BY <3>1
  <2>2. CASE ~stray
    <3>1. 3 \notin fds /\ \A k \in 0 .. 3 - 1 : k \in fds
      BY <2>2 DEF Rest, StandardFds
    <3> QED BY <3>1
  <2> QED BY <2>1, <2>2
<1> QED BY <1>1

\* A file is opened, or another one is closed in its place later.
LEMMA OpenKeeps ==
  ASSUME LeavesInv, Open
  PROVE  RestInv'
<1> USE DEF LeavesInv, RestInv
<1>1. /\ test' = test /\ spc' = "loop" /\ section' = section /\ workbuf' = workbuf
      /\ ~section /\ fds = Rest /\ test \in SequentialTests
  BY DEF Open
<1>2. CASE /\ fd' = CHOOSE n \in 0 .. 3 : n \notin fds /\ \A k \in 0 .. n - 1 : k \in fds
           /\ fds' = fds \cup {fd'}
           /\ UNCHANGED stray
  <2>1. fd' \in 0 .. 3 /\ fd' \notin fds
    BY <1>1, <1>2, LowestUnused
  <2>2. fds' \ {fd'} = fds
    BY <1>2, <2>1
  <2>3. AfterClose' = fds' \ {fd'}
    BY <2>1 DEF AfterClose
  <2>4. Rest' = Rest
    BY <1>2 DEF Rest
  <2>5. AfterClose' = Rest'
    BY <1>1, <2>2, <2>3, <2>4
  <2> QED BY <1>1, <2>5 DEF SequentialTests, Readers
<1>3. CASE /\ fd' = FailedFd
           /\ stray' = (stray \/ test = "map")
           /\ UNCHANGED fds
  <2>1. AfterClose' = Rest'
    <3>1. CASE test = "map"
      <4>1. fd' = 0 /\ stray'
        BY <1>3, <3>1 DEF FailedFd
      <4>2. AfterClose' = fds \ {0}
        BY <1>3, <4>1 DEF AfterClose
      <4>3. fds \ {0} = StandardFds \ {0}
        BY <1>1 DEF Rest
      <4> QED BY <4>1, <4>2, <4>3 DEF Rest
    <3>2. CASE test # "map"
      <4>1. fd' = -1
        BY <1>3, <3>2 DEF FailedFd
      <4>2. AfterClose' = fds
        BY <1>3, <4>1 DEF AfterClose
      <4>3. Rest' = Rest
        BY <1>3, <3>2 DEF Rest
      <4> QED BY <1>1, <4>2, <4>3
    <3> QED BY <3>1, <3>2
  <2> QED BY <1>1, <2>1 DEF SequentialTests, Readers
<1> QED BY <1>2, <1>3 DEF Open

\* A step of a sequential test, or from one test to the next.
LEMMA SequentialKeeps ==
  ASSUME LeavesInv, SequentialStep, UNCHANGED vars
  PROVE  LeavesInv'
<1> USE DEF LeavesInv
<1>1. ThreadedAtRest'
  <2>1. mpc' = mpc /\ live' = live /\ opened' = opened
    BY DEF vars, mainVars
  <2>2. CASE test' = test \/ test' \in {"gone", "end"}
    BY <2>1, <2>2 DEF ThreadedAtRest, Readers
  <2>3. CASE CheckResult
    BY <2>1, <2>3 DEF CheckResult, Following, Gone, ThreadedAtRest, Readers, SequentialTests
  <2>4. CASE ThreadedReturns
    BY <2>1, <2>4 DEF ThreadedReturns, ThreadedAtRest, Readers
  <2> QED BY <2>2, <2>3, <2>4
          DEF SequentialStep, Allocate, Open, ReadChunk, MapSection, SumSection, Close, Gone
<1>2. RestInv'
  <2>1. CASE test' = "gone"
    BY <2>1 DEF RestInv, SequentialTests, Readers
  <2>2. CASE Allocate /\ test' # "gone"
    BY <2>2 DEF Allocate, Gone, RestInv, Rest
  <2>3. CASE Open
    BY <2>3, OpenKeeps
  <2>4. CASE ReadChunk /\ test' # "gone"
    BY <2>4 DEF ReadChunk, Gone, RestInv, Rest, AfterClose, SequentialTests
  <2>5. CASE MapSection /\ test' # "gone"
    <3>1. test = "map" /\ spc = "loop" /\ UNCHANGED <<test, spc, fd, fds, stray>>
      BY <2>5 DEF MapSection, Gone
    <3>2. AfterClose' = AfterClose /\ Rest' = Rest
      BY <3>1 DEF AfterClose, Rest
    <3> QED BY <3>1, <3>2 DEF RestInv, SequentialTests
  <2>6. CASE SumSection
    BY <2>6 DEF SumSection, RestInv, Rest, AfterClose, SequentialTests
  <2>7. CASE Close
    BY <2>7 DEF Close, RestInv, Rest, SequentialTests
  <2>8. CASE CheckResult /\ test' # "gone"
    BY <2>8 DEF CheckResult, Gone, RunStarts, RestInv, Rest, SequentialTests
  <2>9. CASE ThreadedReturns
    BY <2>9 DEF ThreadedReturns, RunStarts, RestInv, Rest
  <2> QED BY <2>1, <2>2, <2>3, <2>4, <2>5, <2>6, <2>7, <2>8, <2>9 DEF SequentialStep
<1> QED BY <1>1, <1>2

LEMMA LeavesNext == LeavesInv /\ [TestsNext]_allVars => LeavesInv'
<1> SUFFICES ASSUME LeavesInv, TestsNext \/ UNCHANGED allVars PROVE LeavesInv'
  OBVIOUS
<1>1. CASE SequentialStep /\ UNCHANGED vars
  BY <1>1, SequentialKeeps
<1>2. CASE test = "threaded" /\ (Main \/ Worker) /\ UNCHANGED tests
  BY <1>2, ThreadedKeeps
<1>3. CASE UNCHANGED allVars
  BY <1>3 DEF allVars, vars, mainVars, tests, run, LeavesInv, ThreadedAtRest, RestInv, Rest, AfterClose
<1> QED BY <1>1, <1>2, <1>3 DEF TestsNext

\* Whatever fails, a test that begins finds, and a test that ends leaves, the
\* descriptors as they were but for standard input after a stray mapping, and
\* no buffer, section or open file (files.hpp:178, 240, 256).
THEOREM NothingIsLeft == TestsSpec => []LeavesNothing
<1>1. LeavesInv => LeavesNothing
  BY DEF LeavesInv, ThreadedAtRest, RestInv, LeavesNothing, Rest, SequentialTests
<1>2. TestsSpec => TestsInit /\ [][TestsNext]_allVars
  BY PTL DEF TestsSpec
<1> QED BY <1>1, <1>2, LeavesInit, LeavesNext, PTL

(***************************************************************************)
(* Induction.  The induction theorems of the library take the property as  *)
(* an operator; here it is the set of what has it.                         *)
(***************************************************************************)

\* Every set of naturals has a least element.
LEMMA LeastNatural ==
  ASSUME NEW T \in SUBSET Nat, T # {}
  PROVE  \E x \in T : \A y \in T : x <= y
<1>. DEFINE R == OpToRel(<, Nat)
<1>1. IsWellFoundedOn(R, Nat)
  BY NatLessThanWellFounded
<1>2. \A y, x \in Nat : y < x => <<y, x>> \in R
  BY DEF OpToRel
<1>. HIDE DEF R
<1>3. PICK x \in T : \A y \in T : ~ (<<y, x>> \in R)
  BY <1>1, WFMin
<1>4. ASSUME NEW y \in T PROVE ~ (y < x)
  <2>1. y \in Nat /\ x \in Nat
    OBVIOUS
  <2>. QED
    BY <2>1, <1>2, <1>3, Zenon
<1>. QED
  BY <1>4

\* A set of naturals that has 0 and with each its successor has all of them.
LEMMA NaturalsAll ==
  ASSUME NEW P \in SUBSET Nat, 0 \in P, \A n \in P : n + 1 \in P
  PROVE  P = Nat
<1>1. SUFFICES ASSUME Nat \ P # {} PROVE FALSE
  OBVIOUS
<1>2. PICK n \in Nat \ P : \A m \in Nat \ P : n <= m
  BY <1>1, LeastNatural
<1>3. n # 0
  OBVIOUS
<1>4. n - 1 \in P
  BY <1>2, <1>3
<1>. QED
  BY <1>3, <1>4

\* A set of subsets of a finite set D that has {} and, with each that lacks x,
\* the one with x, has all of them.
LEMMA SubsetsAll ==
  ASSUME NEW D, IsFiniteSet(D), NEW P \in SUBSET (SUBSET D), {} \in P,
         \A s \in P : \A x \in D \ s : s \cup {x} \in P
  PROVE  P = SUBSET D
<1>. DEFINE N == {n \in Nat : \A s \in SUBSET D : Cardinality(s) = n => s \in P}
<1>1. \A s \in SUBSET D : IsFiniteSet(s) /\ Cardinality(s) \in Nat
  BY FS_Subset, FS_CardinalityType
<1>2. 0 \in N
  BY <1>1, FS_EmptySet
<1>3. ASSUME NEW n \in N PROVE n + 1 \in N
  <2>. SUFFICES ASSUME NEW s \in SUBSET D, Cardinality(s) = n + 1 PROVE s \in P
    OBVIOUS
  <2>1. s # {}
    <3>1. n \in Nat
      OBVIOUS
    <3>. QED
      BY ONLY FS_EmptySet, <3>1, Cardinality(s) = n + 1
  <2>2. PICK x \in s : TRUE
    BY <2>1
  <2>3. Cardinality(s \ {x}) = n
    <3>1. Cardinality(s \ {x}) = Cardinality(s) - 1
      BY ONLY <1>1, <2>2, FS_RemoveElement, s \in SUBSET D
    <3>. QED
      BY <3>1
  <2>4. s \ {x} \in P
    BY <2>3
  <2>5. s = (s \ {x}) \cup {x} /\ x \in D \ (s \ {x})
    OBVIOUS
  <2>. QED
    BY <2>4, <2>5
<1>4. N = Nat
  <2>. HIDE DEF N
  <2>1. N \in SUBSET Nat
    BY DEF N
  <2>. QED
    BY ONLY <1>2, <1>3, <2>1, NaturalsAll
<1>. QED
  BY <1>1, <1>4

(***************************************************************************)
(* Sums.  What SumBuffer computes is a fold by CHOOSE.                     *)
(***************************************************************************)

Total(f, S) == MapThenSumSet(LAMBDA c : f[c], S)

\* G has the sum of f over each subset of D.
SumsOf(G, f, D) ==
  /\ G \in [SUBSET D -> Int]
  /\ G[{}] = 0
  /\ \A s \in SUBSET D : \A x \in D \ s : G[s \cup {x}] = G[s] + f[x]

\* Over every subset of a finite set there is one.
LEMMA SumsExist ==
  ASSUME NEW D, IsFiniteSet(D), NEW f \in [D -> Int]
  PROVE  \E G : SumsOf(G, f, D)
<1>. DEFINE P == {s \in SUBSET D : \E G : SumsOf(G, f, s)}
<1>1. {} \in P
  <2>1. SumsOf([s \in {{}} |-> 0], f, {})
    BY DEF SumsOf
  <2>. QED
    BY <2>1
<1>2. ASSUME NEW s \in P, NEW x \in D \ s PROVE s \cup {x} \in P
  <2>1. PICK G : SumsOf(G, f, s)
    OBVIOUS
  <2>. DEFINE H == [t \in SUBSET (s \cup {x}) |-> IF x \in t THEN G[t \ {x}] + f[x] ELSE G[t]]
  <2>2. \A t \in SUBSET (s \cup {x}) : t \ {x} \in SUBSET s /\ (x \notin t => t \in SUBSET s)
    OBVIOUS
  <2>3. H \in [SUBSET (s \cup {x}) -> Int]
    BY <2>1, <2>2 DEF SumsOf
  <2>4. H[{}] = 0
    BY <2>1 DEF SumsOf
  <2>5. ASSUME NEW t \in SUBSET (s \cup {x}), NEW y \in (s \cup {x}) \ t
        PROVE  H[t \cup {y}] = H[t] + f[y]
    <3>1. CASE y = x
      <4>1. (t \cup {y}) \ {x} = t
        BY <3>1
      <4>. QED
        BY <3>1, <4>1
    <3>2. CASE y # x /\ x \in t
      <4>1. (t \cup {y}) \ {x} = (t \ {x}) \cup {y} /\ y \in s \ (t \ {x})
        BY <3>2
      <4>2. G[(t \ {x}) \cup {y}] = G[t \ {x}] + f[y]
        BY <4>1, <2>1, <2>2 DEF SumsOf
      <4>3. G[t \ {x}] \in Int /\ f[x] \in Int /\ f[y] \in Int
        BY <2>1, <2>2 DEF SumsOf
      <4>4. H[t \cup {y}] = G[(t \ {x}) \cup {y}] + f[x] /\ H[t] = G[t \ {x}] + f[x]
        BY <4>1, <3>2
      <4>. HIDE DEF H
      <4>. QED
        BY <4>2, <4>3, <4>4
    <3>3. CASE y # x /\ x \notin t
      <4>1. G[t \cup {y}] = G[t] + f[y]
        BY <3>3, <2>1, <2>2 DEF SumsOf
      <4>. QED
        BY <4>1, <3>3
    <3>. QED
      BY <3>1, <3>2, <3>3
  <2>6. SumsOf(H, f, s \cup {x})
    BY <2>3, <2>4, <2>5 DEF SumsOf
  <2>. QED
    BY <2>6
<1>3. P = SUBSET D
  <2>. HIDE DEF P
  <2>1. P \in SUBSET (SUBSET D)
    BY DEF P
  <2>. QED
    BY ONLY <1>1, <1>2, <2>1, SubsetsAll, IsFiniteSet(D)
<1>. QED
  BY <1>3

\* What the fold computes of s, from what it computed of less.
Step(it, f, s) ==
  IF s = {} THEN 0 ELSE f[CHOOSE x \in s : TRUE] + it[s \ {CHOOSE x \in s : TRUE}]

\* The definition of the sum, with that step named.
LEMMA SumUnfolds ==
  ASSUME NEW f, NEW D
  PROVE  Total(f, D) =
           (CHOOSE it : it = [s \in SUBSET D |-> Step(it, f, s)])[D]
  BY DEF Total, MapThenSumSet, MapThenFoldSet, Step

\* The fold is that sum, whichever elements CHOOSE takes first.
LEMMA SumsAreFold ==
  ASSUME NEW D, IsFiniteSet(D), NEW f \in [D -> Int], NEW G, SumsOf(G, f, D)
  PROVE  \A s \in SUBSET D : Total(f, s) = G[s]
<1>. SUFFICES ASSUME NEW S \in SUBSET D PROVE Total(f, S) = G[S]
  OBVIOUS
<1>. DEFINE Is(it) == it = [s \in SUBSET S |-> Step(it, f, s)]
            it == CHOOSE i : Is(i)
            H == [s \in SUBSET S |-> G[s]]
<1>1. ASSUME NEW s \in SUBSET S, s # {}
      PROVE  /\ (CHOOSE x \in s : TRUE) \in s
             /\ G[s] = f[CHOOSE x \in s : TRUE] + G[s \ {CHOOSE x \in s : TRUE}]
  <2>. DEFINE x == CHOOSE y \in s : TRUE
  <2>1. x \in s
    BY <1>1
  <2>2. s = (s \ {x}) \cup {x} /\ x \in D \ (s \ {x}) /\ s \ {x} \in SUBSET D
    BY <2>1
  <2>. HIDE DEF x
  <2>3. G[(s \ {x}) \cup {x}] = G[s \ {x}] + f[x] /\ G[s \ {x}] \in Int /\ f[x] \in Int
    BY <2>2 DEF SumsOf
  <2>4. G[s] = f[x] + G[s \ {x}]
    <3>1. G[s] = G[(s \ {x}) \cup {x}]
      BY <2>2
    <3>. QED
      BY ONLY <2>3, <3>1
  <2>. QED
    BY <2>1, <2>4 DEF x
<1>2. Is(H)
  <2>1. ASSUME NEW s \in SUBSET S PROVE H[s] = Step(H, f, s)
    <3>1. CASE s = {}
      BY <3>1 DEF Step, SumsOf
    <3>2. CASE s # {}
      <4>1. s \ {CHOOSE x \in s : TRUE} \in SUBSET S
        OBVIOUS
      <4>. QED
        BY <1>1, <3>2, <4>1 DEF Step
    <3>. QED
      BY <3>1, <3>2
  <2>. QED
    BY <2>1
<1>3. Is(it)
  BY <1>2
<1>. DEFINE P == {s \in SUBSET S : it[s] = G[s]}
<1>4. \A s \in SUBSET S : it[s] = Step(it, f, s)
  <2>. HIDE DEF it
  <2>. QED
    BY <1>3
<1>5. P = SUBSET S
  <2>. DEFINE N == {n \in Nat : \A s \in SUBSET S : Cardinality(s) = n => it[s] = G[s]}
  <2>1. \A s \in SUBSET S : IsFiniteSet(s) /\ Cardinality(s) \in Nat
    BY FS_Subset, FS_CardinalityType
  <2>. HIDE DEF it
  <2>2. 0 \in N
    <3>1. it[{}] = G[{}]
      BY <1>4 DEF Step, SumsOf
    <3>. QED
      BY <3>1, <2>1, FS_EmptySet
  <2>3. ASSUME NEW n \in N PROVE n + 1 \in N
    <3>. SUFFICES ASSUME NEW s \in SUBSET S, Cardinality(s) = n + 1 PROVE it[s] = G[s]
      OBVIOUS
    <3>1. s # {}
      BY FS_EmptySet, <2>3
    <3>. DEFINE x == CHOOSE y \in s : TRUE
    <3>2. x \in s /\ G[s] = f[x] + G[s \ {x}]
      BY <3>1, <1>1
    <3>3. it[s] = f[x] + it[s \ {x}]
      BY <3>1, <1>4 DEF Step
    <3>. HIDE DEF x
    <3>4. Cardinality(s \ {x}) = n
      <4>1. Cardinality(s \ {x}) = Cardinality(s) - 1
        BY ONLY <2>1, <3>2, FS_RemoveElement, s \in SUBSET S
      <4>. QED
        BY <4>1
    <3>5. it[s \ {x}] = G[s \ {x}]
      BY <3>4
    <3>. QED
      BY <3>2, <3>3, <3>5
  <2>4. N = Nat
    <3>. HIDE DEF N
    <3>1. N \in SUBSET Nat
      BY DEF N
    <3>. QED
      BY ONLY <2>2, <2>3, <3>1, NaturalsAll
  <2>. QED
    BY <2>1, <2>4
<1>6. Total(f, S) = it[S]
  BY SumUnfolds
<1>. QED
  BY <1>5, <1>6

\* The sum over a finite set: of nothing, and with one element more.
LEMMA SumAdds ==
  ASSUME NEW D, IsFiniteSet(D), NEW f \in [D -> Int]
  PROVE  /\ Total(f, {}) = 0
         /\ \A S \in SUBSET D : Total(f, S) \in Int
         /\ \A S \in SUBSET D : \A x \in D \ S :
               Total(f, S \cup {x}) = Total(f, S) + f[x]
<1>1. PICK G : SumsOf(G, f, D)
  BY SumsExist
<1>2. \A S \in SUBSET D : Total(f, S) = G[S]
  BY <1>1, SumsAreFold
<1>3. Total(f, {}) = 0
  BY <1>1, <1>2 DEF SumsOf
<1>4. \A S \in SUBSET D : Total(f, S) \in Int
  BY <1>1, <1>2 DEF SumsOf
<1>5. ASSUME NEW S \in SUBSET D, NEW x \in D \ S
      PROVE  Total(f, S \cup {x}) = Total(f, S) + f[x]
  <2>1. S \cup {x} \in SUBSET D
    OBVIOUS
  <2>. QED
    BY <1>1, <1>2, <2>1 DEF SumsOf
<1>. QED
  BY <1>3, <1>4, <1>5

\* The same of one set, one element and their union.
LEMMA SumAdd ==
  ASSUME NEW D, IsFiniteSet(D), NEW f \in [D -> Int], NEW S \in SUBSET D, NEW x \in D, x \notin S,
         NEW T, T = S \cup {x}
  PROVE  /\ Total(f, T) = Total(f, S) + f[x]
         /\ Total(f, S) \in Int /\ Total(f, T) \in Int /\ f[x] \in Int
<1>1. x \in D \ S /\ T \in SUBSET D
  OBVIOUS
<1>2. Total(f, S) \in Int /\ Total(f, T) \in Int
  BY <1>1, SumAdds
<1>. QED
  BY <1>1, <1>2, SumAdds

\* The sum over an interval, from its running sums.
Telescopes(D, f, a, n, P) ==
  /\ IsFiniteSet(D) /\ f \in [D -> Int] /\ a \in Int /\ n \in Nat /\ a .. a + n - 1 \subseteq D
  /\ P \in [0 .. n -> Int] /\ \A i \in 0 .. n - 1 : P[i + 1] = P[i] + f[a + i]

SumsUpTo(f, S, x) == Total(f, S) = x

LEMMA SumTelescopes ==
  ASSUME NEW D, NEW f, NEW a, NEW n, NEW P, Telescopes(D, f, a, n, P)
  PROVE  SumsUpTo(f, a .. a + n - 1, P[n] - P[0])
<1>. USE DEF Telescopes, SumsUpTo
<1>. DEFINE N == {m \in Nat : m <= n => Total(f, a .. a + m - 1) = P[m] - P[0]}
<1>1. 0 \in N
  <2>1. a .. a + 0 - 1 = {} /\ P[0] \in Int
    OBVIOUS
  <2>2. Total(f, {}) = 0
    BY SumAdds
  <2>. QED
    BY <2>1, <2>2
<1>2. ASSUME NEW m \in N PROVE m + 1 \in N
  <2>. SUFFICES ASSUME m + 1 <= n PROVE Total(f, a .. a + (m + 1) - 1) = P[m + 1] - P[0]
    OBVIOUS
  <2>1. Total(f, a .. a + m - 1) = P[m] - P[0]
    OBVIOUS
  <2>2. m \in 0 .. n - 1 /\ m \in 0 .. n /\ m + 1 \in 0 .. n /\ 0 \in 0 .. n
    OBVIOUS
  <2>3. P[m + 1] = P[m] + f[a + m] /\ P[m] \in Int /\ P[m + 1] \in Int /\ P[0] \in Int
    BY <2>2
  <2>. DEFINE S == a .. a + m - 1
              T == a .. a + (m + 1) - 1
              x == a + m
  <2>4. T = S \cup {x} /\ x \notin S
    <3>1. m \in Nat
      OBVIOUS
    <3>. QED
      BY ONLY <3>1, a \in Int
  <2>5. x \in a .. a + n - 1 /\ S \subseteq a .. a + n - 1
    BY <2>2
  <2>6. x \in D /\ S \in SUBSET D
    BY <2>5
  <2>. HIDE DEF S, T, x
  <2>7. Total(f, T) = Total(f, S) + f[x] /\ Total(f, S) \in Int /\ f[x] \in Int
    BY ONLY IsFiniteSet(D), f \in [D -> Int], <2>4, <2>6, SumAdd
  <2>8. Total(f, S) = P[m] - P[0] /\ P[m + 1] = P[m] + f[x]
    BY <2>1, <2>3 DEF S, x
  <2>9. Total(f, T) = P[m + 1] - P[0]
    BY ONLY <2>3, <2>7, <2>8
  <2>. QED
    BY <2>9 DEF T
<1>3. N = Nat
  <2>1. N \in SUBSET Nat
    OBVIOUS
  <2>. HIDE DEF N
  <2>. QED
    BY ONLY <1>1, <1>2, <2>1, NaturalsAll
<1>4. n \in N
  BY <1>3
<1>. QED
  BY <1>4

\* The same of a buffer.
LEMMA BufferSum ==
  ASSUME NEW n \in Nat, NEW f \in [0 .. n - 1 -> Int],
         NEW P \in [0 .. n -> Int], \A i \in 0 .. n - 1 : P[i + 1] = P[i] + f[i]
  PROVE  SumBuffer(f) = P[n] - P[0]
<1>1. IsFiniteSet(0 .. n - 1)
  BY FS_Interval
<1>2. 0 .. 0 + n - 1 \subseteq 0 .. n - 1 /\ 0 .. 0 + n - 1 = 0 .. n - 1 /\ DOMAIN f = 0 .. n - 1
  OBVIOUS
<1>3. \A i \in 0 .. n - 1 : P[i + 1] = P[i] + f[0 + i]
  OBVIOUS
<1>4. Telescopes(0 .. n - 1, f, 0, n, P)
  BY <1>1, <1>2, <1>3 DEF Telescopes
<1>5. SumsUpTo(f, 0 .. 0 + n - 1, P[n] - P[0])
  BY ONLY <1>4, SumTelescopes
<1>. QED
  BY <1>2, <1>5 DEF SumBuffer, Total, SumsUpTo

LEMMA BufferInt ==
  ASSUME NEW n \in Nat, NEW f \in [0 .. n - 1 -> Int]
  PROVE  SumBuffer(f) \in Int /\ (n = 0 => SumBuffer(f) = 0)
<1>1. IsFiniteSet(0 .. n - 1) /\ 0 .. n - 1 \in SUBSET (0 .. n - 1) /\ DOMAIN f = 0 .. n - 1
  BY FS_Interval
<1>2. Total(f, 0 .. n - 1) \in Int
  BY <1>1, SumAdds
<1>3. ASSUME n = 0 PROVE Total(f, 0 .. n - 1) = 0
  <2>1. 0 .. n - 1 = {}
    BY <1>3
  <2>2. Total(f, {}) = 0
    BY <1>1, SumAdds
  <2>. QED
    BY <2>1, <2>2
<1>. QED
  BY <1>1, <1>2, <1>3 DEF SumBuffer, Total

\* The running sums of a function.
LEMMA RunningSums ==
  ASSUME NEW n \in Nat, NEW f \in [0 .. n - 1 -> Int]
  PROVE  \E P \in [0 .. n -> Int] : P[0] = 0 /\ \A i \in 0 .. n - 1 : P[i + 1] = P[i] + f[i]
<1>. DEFINE D == 0 .. n - 1
            P == [m \in 0 .. n |-> Total(f, 0 .. m - 1)]
<1>1. IsFiniteSet(D) /\ \A m \in 0 .. n : 0 .. m - 1 \in SUBSET D
  BY FS_Interval
<1>2. P \in [0 .. n -> Int]
  BY <1>1, SumAdds
<1>3. P[0] = 0
  <2>1. 0 .. 0 - 1 = {}
    OBVIOUS
  <2>. QED
    BY <1>1, <2>1, SumAdds
<1>4. ASSUME NEW i \in 0 .. n - 1 PROVE P[i + 1] = P[i] + f[i]
  <2>. DEFINE S == 0 .. i - 1
              T == 0 .. (i + 1) - 1
              x == i
              g == f
  <2>1. T = S \cup {x} /\ x \in D /\ x \notin S /\ S \in SUBSET D
    OBVIOUS
  <2>2. P[i] = Total(g, S) /\ P[i + 1] = Total(g, T)
    OBVIOUS
  <2>3. g \in [D -> Int] /\ IsFiniteSet(D)
    BY <1>1
  <2>. HIDE DEF D, S, T, P, x, g
  <2>4. Total(g, T) = Total(g, S) + g[x] /\ Total(g, S) \in Int /\ g[x] \in Int
    BY ONLY <2>1, <2>3, SumAdd
  <2>. QED
    BY <2>2, <2>4 DEF x, g
<1>. QED
  BY <1>2, <1>3, <1>4

\* Two buffers one after the other.
Joined(f, g, n, m) == [i \in 0 .. n + m - 1 |-> IF i < n THEN f[i] ELSE g[i - n]]

AreBuffers(f, g, n, m, V) ==
  V \subseteq Int /\ n \in Nat /\ f \in [0 .. n - 1 -> V] /\ m \in Nat /\ g \in [0 .. m - 1 -> V]

AddUp(f, g, h, n, m, V) == h \in [0 .. n + m - 1 -> V] /\ SumBuffer(h) = SumBuffer(f) + SumBuffer(g)

LEMMA JoinedSum ==
  ASSUME NEW f, NEW g, NEW n, NEW m, NEW V, AreBuffers(f, g, n, m, V), NEW h, h = Joined(f, g, n, m)
  PROVE  AddUp(f, g, h, n, m, V)
<1>1. /\ V \subseteq Int /\ n \in Nat /\ m \in Nat
      /\ \A i \in 0 .. n - 1 : f[i] \in V
      /\ \A i \in 0 .. m - 1 : g[i] \in V
      /\ f \in [0 .. n - 1 -> Int] /\ g \in [0 .. m - 1 -> Int]
  BY DEF AreBuffers
<1>2. /\ h = [i \in 0 .. n + m - 1 |-> h[i]] /\ n + m \in Nat
      /\ \A i \in 0 .. n - 1 : h[i] = f[i]
      /\ \A i \in n .. n + m - 1 : h[i] = g[i - n]
  BY ONLY <1>1, h = Joined(f, g, n, m) DEF Joined
<1>3. h \in [0 .. n + m - 1 -> V]
  <2>1. ASSUME NEW i \in 0 .. n + m - 1 PROVE h[i] \in V
    <3>1. CASE i < n
      <4>1. i \in 0 .. n - 1
        BY <1>1, <3>1
      <4>. QED
        BY <1>1, <1>2, <4>1
    <3>2. CASE ~(i < n)
      <4>1. i \in n .. n + m - 1 /\ i - n \in 0 .. m - 1
        BY <1>1, <3>2
      <4>2. h[i] = g[i - n]
        BY ONLY <1>2, <4>1
      <4>3. g[i - n] \in V
        BY ONLY <1>1, <4>1
      <4>. QED
        BY <4>2, <4>3
    <3>. QED
      BY <3>1, <3>2
  <2>. QED
    BY ONLY <1>2, <2>1
<1>4. /\ h \in [0 .. n + m - 1 -> Int] /\ n + m \in Nat
      /\ \A i \in 0 .. n - 1 : h[i] = f[i]
      /\ \A i \in n .. n + m - 1 : h[i] = g[i - n]
  <2>1. h \in [0 .. n + m - 1 -> Int]
    <3>. DEFINE D == 0 .. n + m - 1
    <3>1. h \in [D -> V] /\ V \subseteq Int
      BY ONLY <1>1, <1>3
    <3>. HIDE DEF D
    <3>2. h \in [D -> Int]
      BY ONLY <3>1
    <3>. QED
      BY <3>2 DEF D
  <2>. QED
    BY ONLY <1>2, <2>1
<1>. USE <1>1
<1>5. PICK P \in [0 .. n -> Int] : P[0] = 0 /\ \A i \in 0 .. n - 1 : P[i + 1] = P[i] + f[i]
  BY RunningSums
<1>6. PICK Q \in [0 .. m -> Int] : Q[0] = 0 /\ \A i \in 0 .. m - 1 : Q[i + 1] = Q[i] + g[i]
  BY RunningSums
<1>7. SumBuffer(f) = P[n] /\ SumBuffer(g) = Q[m] /\ P[n] \in Int /\ Q[m] \in Int
  <2>1. SumBuffer(f) = P[n] - P[0]
    BY <1>5, BufferSum
  <2>2. SumBuffer(g) = Q[m] - Q[0]
    BY <1>6, BufferSum
  <2>3. P[n] \in Int /\ Q[m] \in Int
    OBVIOUS
  <2>. QED
    BY <1>5, <1>6, <2>1, <2>2, <2>3
<1>. DEFINE R == [i \in 0 .. n + m |-> IF i <= n THEN P[i] ELSE P[n] + Q[i - n]]
<1>8. R \in [0 .. n + m -> Int]
  <2>1. \A i \in 0 .. n + m : i <= n => P[i] \in Int
    OBVIOUS
  <2>2. \A i \in 0 .. n + m : i > n => P[n] + Q[i - n] \in Int
    OBVIOUS
  <2>. QED
    BY <2>1, <2>2
<1>9. ASSUME NEW i \in 0 .. n + m - 1 PROVE R[i + 1] = R[i] + h[i]
  <2>1. CASE i < n
    BY <1>4, <1>5, <2>1
  <2>2. CASE i = n
    <3>1. R[i + 1] = P[n] + Q[1] /\ R[i] = P[n] /\ h[i] = g[0]
      BY <1>4, <2>2
    <3>2. Q[1] = Q[0] + g[0] /\ 0 \in 0 .. m - 1
      BY <1>6, <2>2
    <3>3. g[0] \in Int
      BY <3>2
    <3>4. R[i + 1] = P[n] + g[0]
      BY <1>6, <3>1, <3>2, <3>3
    <3>. HIDE DEF R
    <3>. QED
      BY <3>1, <3>4
  <2>3. CASE i > n
    <3>1. i - n \in 0 .. m - 1 /\ (i + 1) - n = (i - n) + 1
      BY <2>3
    <3>2. R[i + 1] = P[n] + Q[(i + 1) - n] /\ R[i] = P[n] + Q[i - n]
      BY <2>3
    <3>4. h[i] = g[i - n]
      BY <1>4, <2>3
    <3>3. Q[(i - n) + 1] = Q[i - n] + g[i - n] /\ Q[i - n] \in Int /\ g[i - n] \in Int
      BY <1>6, <3>1
    <3>. HIDE DEF R
    <3>. QED
      BY <1>7, <3>1, <3>2, <3>3, <3>4
  <2>. QED
    BY <2>1, <2>2, <2>3
<1>10. R[n + m] = P[n] + Q[m] /\ R[0] = 0
  <2>1. CASE m = 0
    BY <1>5, <1>6, <1>7, <2>1
  <2>2. CASE m > 0
    BY <1>5, <1>6, <1>7, <2>2
  <2>. QED
    BY <2>1, <2>2
<1>. HIDE DEF R
<1>11. SumBuffer(h) = R[n + m] - R[0]
  <2>. DEFINE w == n + m
  <2>1. w \in Nat /\ h \in [0 .. w - 1 -> Int] /\ R \in [0 .. w -> Int]
        /\ \A i \in 0 .. w - 1 : R[i + 1] = R[i] + h[i]
    BY <1>4, <1>8, <1>9
  <2>. HIDE DEF w
  <2>2. SumBuffer(h) = R[w] - R[0]
    BY ONLY <2>1, BufferSum
  <2>. QED
    BY <2>2 DEF w
<1>. QED
  BY <1>4, <1>7, <1>10, <1>11, <1>3 DEF AddUp

(***************************************************************************)
(* A reader.                                                               *)
(***************************************************************************)

\* What a buffer may hold while the file was read up to p; and a sum of n such.
Values(p) == {0} \cup {Data[c] : c \in 0 .. p - 1}
SumOf(n, p, x) == \E f \in [0 .. n - 1 -> Values(p)] : x = SumBuffer(f)

\* A reader has read k chunks of n cells each, up to p, with the sum x.
ReadSoFar(n, k, p, x, m) ==
  /\ p \in Nat /\ p <= n * k /\ p <= FileCells
  /\ SumOf(n * k, p, x)
  /\ m \in BOOLEAN
  /\ m => p < n * k
  /\ ~m => p = n * k /\ x = Prefix[p]

LEMMA FileFacts ==
  /\ FileCells \in Nat \ {0}
  /\ \A c \in 0 .. FileCells - 1 : Data[c] \in Int
  /\ \A n \in 0 .. FileCells : Prefix[n] \in Int
  /\ Prefix[0] = 0
  /\ \A n \in 0 .. FileCells - 1 : Prefix[n + 1] = Prefix[n] + Data[n]
<1>1. FileCells \in Nat \ {0}
  <2>1. \A i, j \in Nat \ {0} : i * j \in Nat \ {0}
    OBVIOUS
  <2>. QED
    BY <2>1, SizeAssumption DEF FileCells
<1>. QED
  BY <1>1, DataAssumption, PrefixAssumption

LEMMA ValuesAre ==
  ASSUME NEW p \in Nat, p <= FileCells
  PROVE  Values(p) \subseteq Int
BY FileFacts DEF Values

\* The sum of consecutive cells of the file.
LEMMA FileSum ==
  ASSUME NEW n \in Nat, NEW p \in Nat, p + n <= FileCells, NEW f, f = [c \in 0 .. n - 1 |-> Data[p + c]]
  PROVE  SumBuffer(f) = Prefix[p + n] - Prefix[p]
<1>. DEFINE P == [i \in 0 .. n |-> Prefix[p + i]]
<1>1. \A i \in 0 .. n : p + i \in 0 .. FileCells
  BY FileFacts
<1>2. P \in [0 .. n -> Int]
  BY <1>1, FileFacts
<1>3. f \in [0 .. n - 1 -> Int]
  BY FileFacts
<1>4. ASSUME NEW i \in 0 .. n - 1 PROVE P[i + 1] = P[i] + f[i]
  <2>1. p + i \in 0 .. FileCells - 1 /\ (p + i) + 1 = p + (i + 1)
    BY FileFacts
  <2>. QED
    BY <2>1, FileFacts
<1>5. P[0] = Prefix[p] /\ P[n] = Prefix[p + n]
  OBVIOUS
<1>. HIDE DEF P
<1>6. SumBuffer(f) = P[n] - P[0]
  BY <1>2, <1>3, <1>4, BufferSum
<1>. QED
  BY <1>5, <1>6

\* The buffer after a read.
FilledBy(buf, p, got) == [c \in DOMAIN buf |-> IF c < got THEN Data[p + c] ELSE buf[c]]

LEMMA FilledIs ==
  ASSUME NEW n \in Nat, NEW p \in Nat, NEW got \in 0 .. n, p + got <= FileCells,
         NEW buf \in [0 .. n - 1 -> Values(p)]
  PROVE  FilledBy(buf, p, got) \in [0 .. n - 1 -> Values(p + got)]
<1>1. DOMAIN buf = 0 .. n - 1 /\ \A c \in 0 .. n - 1 : buf[c] \in Values(p)
  OBVIOUS
<1>2. Values(p) \subseteq Values(p + got)
  BY DEF Values
<1>3. ASSUME NEW c \in 0 .. n - 1, c < got PROVE Data[p + c] \in Values(p + got)
  <2>1. p + c \in 0 .. (p + got) - 1
    BY <1>3
  <2>. QED
    BY <2>1 DEF Values
<1>. QED
  BY <1>1, <1>2, <1>3 DEF FilledBy

LEMMA ReadMore ==
  ASSUME NEW n \in Nat \ {0}, NEW k \in Nat, NEW p, NEW x, NEW m, ReadSoFar(n, k, p, x, m),
         n * (k + 1) <= FileCells, NEW got \in 0 .. n, p + got <= FileCells,
         NEW buf \in [0 .. n - 1 -> Values(p)]
  PROVE  ReadSoFar(n, k + 1, p + got, x + SumBuffer(FilledBy(buf, p, got)), m \/ got < n)
<1>. DEFINE g == FilledBy(buf, p, got)
            q == p + got
            N == n * k
            y == x + SumBuffer(g)
<1>1. N \in Nat /\ n * (k + 1) = N + n
  OBVIOUS
<1>2. p \in Nat /\ p <= N /\ p <= FileCells /\ m \in BOOLEAN /\ (m => p < N) /\ (~m => p = N /\ x = Prefix[p])
  BY DEF ReadSoFar
<1>3. PICK f : f \in [0 .. N - 1 -> Values(p)] /\ x = SumBuffer(f)
  BY DEF ReadSoFar, SumOf
<1>4. g \in [0 .. n - 1 -> Values(q)]
  BY <1>2, FilledIs
<1>5. Values(p) \subseteq Values(q) /\ Values(q) \subseteq Int /\ q \in Nat
  <2>1. q \in Nat /\ q <= FileCells
    BY <1>2
  <2>2. Values(p) \subseteq Values(q)
    BY <1>2 DEF Values
  <2>. QED
    BY <2>1, <2>2, ValuesAre
<1>. HIDE DEF g, N, q
<1>. DEFINE h == Joined(f, g, N, n)
            w == N + n
<1>6. AreBuffers(f, g, N, n, Values(q))
  <2>1. f \in [0 .. N - 1 -> Values(q)]
    BY <1>3, <1>5
  <2>. QED
    BY <1>1, <1>4, <1>5, <2>1 DEF AreBuffers
<1>7. h \in [0 .. w - 1 -> Values(q)] /\ y = SumBuffer(h)
  <2>1. AddUp(f, g, h, N, n, Values(q))
    BY ONLY <1>6, JoinedSum
  <2>2. h \in [0 .. N + n - 1 -> Values(q)] /\ SumBuffer(h) = SumBuffer(f) + SumBuffer(g)
    BY ONLY <2>1 DEF AddUp
  <2>. HIDE DEF h
  <2>3. w - 1 = N + n - 1
    BY <1>1
  <2>. HIDE DEF w
  <2>4. h \in [0 .. w - 1 -> Values(q)]
    BY ONLY <2>2, <2>3, Zenon
  <2>. QED
    BY <1>3, <2>2, <2>4
<1>. HIDE DEF h, w, y
<1>8. SumOf(w, q, y)
  BY <1>7 DEF SumOf
<1>9. /\ q \in Nat /\ q <= w /\ q <= FileCells
      /\ (m \/ got < n) => q < w
      /\ ~(m \/ got < n) => q = w
  BY <1>1, <1>2 DEF q, w
<1>10. ASSUME ~(m \/ got < n) PROVE y = Prefix[q]
  <2>1. p = N /\ x = Prefix[p] /\ got = n
    BY <1>2, <1>10
  <2>2. g = [c \in 0 .. n - 1 |-> Data[p + c]]
    BY <2>1 DEF g, FilledBy
  <2>3. SumBuffer(g) = Prefix[p + n] - Prefix[p]
    BY <1>2, <2>1, <2>2, FileSum
  <2>4. q = p + n
    BY <2>1 DEF q
  <2>5. Prefix[p] \in Int /\ Prefix[p + n] \in Int
    <3>1. p \in 0 .. FileCells /\ p + n \in 0 .. FileCells
      BY <1>2, <2>1, FileFacts
    <3>. QED
      BY <3>1, FileFacts
  <2>. QED
    BY <2>1, <2>3, <2>4, <2>5 DEF y
<1>11. w = n * (k + 1)
  BY <1>1 DEF w
<1>12. ReadSoFar(n, k + 1, q, y, m \/ got < n)
  BY <1>2, <1>8, <1>9, <1>10, <1>11 DEF ReadSoFar
<1>. QED
  BY <1>12 DEF y, g, q

\* The cells of a chunk of a test, and how many there are.
CellsOf(t) == IF t = "reference" THEN FileCells ELSE 2 * BufCells
ChunksOf(t) == FileCells \div CellsOf(t)

LEMMA ChunkFacts ==
  ASSUME NEW t
  PROVE  /\ CellsOf(t) \in Nat \ {0} /\ ChunksOf(t) \in Nat
         /\ CellsOf(t) * ChunksOf(t) = FileCells
         /\ t = "reference" => CellsOf(t) = FileCells /\ ChunksOf(t) = 1
<1>1. FileCells \in Nat \ {0}
  BY FileFacts
<1>2. CASE t = "reference"
  <2>1. \A n \in Nat \ {0} : n \div n = 1
    OBVIOUS
  <2>2. CellsOf(t) = FileCells
    BY <1>2 DEF CellsOf
  <2>3. ChunksOf(t) = 1
    BY <1>1, <2>1, <2>2 DEF ChunksOf
  <2>. QED
    BY <1>1, <2>2, <2>3
<1>3. CASE t # "reference"
  <2>1. PICK k \in Nat : Iters = 2 * k
    <3>1. Iters \in Nat /\ Iters % 2 = 0
      BY SizeAssumption, ChunkAssumption
    <3>2. Iters = 2 * (Iters \div 2) /\ Iters \div 2 \in Nat
      BY <3>1
    <3>. QED
      BY <3>2
  <2>2. CellsOf(t) = 2 * BufCells /\ CellsOf(t) \in Nat \ {0}
    BY <1>3, SizeAssumption DEF CellsOf
  <2>3. FileCells = k * CellsOf(t)
    <3>1. \A x, y \in Nat : (2 * x) * y = x * (2 * y)
      OBVIOUS
    <3>. QED
      BY <2>1, <2>2, <3>1, SizeAssumption DEF FileCells
  <2>4. \A x \in Nat, n \in Nat \ {0} : (x * n) \div n = x /\ x * n = n * x
    <3>. SUFFICES ASSUME NEW x \in Nat, NEW n \in Nat \ {0} PROVE (x * n) \div n = x /\ x * n = n * x
      OBVIOUS
    <3>1. x * n = n * x /\ x * n \in Nat
      OBVIOUS
    <3>. DEFINE w == x * n
                d == w \div n
    <3>2. w \in Nat /\ w = n * x
      BY <3>1
    <3>. HIDE DEF w
    <3>3. d \in Nat /\ n * d <= w /\ w < n * (d + 1)
      BY <3>2
    <3>. HIDE DEF d
    <3>4. ~(d < x)
      BY <3>2, <3>3
    <3>5. ~(d > x)
      BY <3>2, <3>3
    <3>6. d = x
      BY <3>3, <3>4, <3>5
    <3>. QED
      BY <3>1, <3>6 DEF d, w
  <2>5. ChunksOf(t) = k
    BY <2>2, <2>3, <2>4 DEF ChunksOf
  <2>. QED
    BY <1>3, <2>2, <2>3, <2>4, <2>5
<1>. QED
  BY <1>2, <1>3

LEMMA ChunksAre == ChunkCells = CellsOf(test) /\ Chunks = ChunksOf(test)
BY DEF ChunkCells, CellsOf, Chunks, ChunksOf

\* A test that begins has read nothing.
LEMMA NothingRead == ASSUME NEW n \in Nat PROVE ReadSoFar(n, 0, 0, 0, FALSE)
<1>. DEFINE f == [i \in {} |-> 0]
<1>1. f \in [0 .. 0 - 1 -> Values(0)] /\ f \in [0 .. 0 - 1 -> Int]
  OBVIOUS
<1>2. SumBuffer(f) = 0
  <2>. HIDE DEF f
  <2>. QED
    BY <1>1, BufferInt
<1>3. n * 0 = 0
  OBVIOUS
<1>4. SumOf(0, 0, 0)
  BY <1>1, <1>2 DEF SumOf
<1>. QED
  BY <1>3, <1>4, FileFacts DEF ReadSoFar

\* The sum of a chunk in the mapped file.
LEMMA SectionSum ==
  ASSUME NEW n \in Nat, NEW k \in Nat, n * (k + 1) <= FileCells
  PROVE  SumBuffer([c \in k * n .. (k + 1) * n - 1 |-> Data[c]]) = Prefix[n * (k + 1)] - Prefix[n * k]
<1>. DEFINE a == n * k
            D == k * n .. (k + 1) * n - 1
            g == [c \in D |-> Data[c]]
            P == [i \in 0 .. n |-> Prefix[a + i]]
<1>1. a \in Nat /\ k * n = a /\ n * (k + 1) = a + n /\ (k + 1) * n = a + n /\ a + n <= FileCells
  OBVIOUS
<1>. HIDE DEF a
<1>2. D = a .. a + n - 1 /\ IsFiniteSet(D)
  <2>1. D = a .. a + n - 1
    BY <1>1
  <2>2. IsFiniteSet(a .. a + n - 1)
    BY <1>1, FS_Interval
  <2>. QED
    BY <2>1, <2>2
<1>. HIDE DEF D
<1>3. g \in [D -> Int]
  BY <1>1, <1>2, FileFacts
<1>4. P \in [0 .. n -> Int] /\ P[0] = Prefix[a] /\ P[n] = Prefix[a + n]
  <2>1. \A i \in 0 .. n : a + i \in 0 .. FileCells
    BY <1>1, FileFacts
  <2>2. P \in [0 .. n -> Int]
    BY <2>1, FileFacts
  <2>. QED
    BY <1>1, <2>2
<1>5. ASSUME NEW i \in 0 .. n - 1 PROVE P[i + 1] = P[i] + g[a + i]
  <2>1. a + i \in 0 .. FileCells - 1 /\ (a + i) + 1 = a + (i + 1) /\ a + i \in D
    BY <1>1, <1>2, FileFacts
  <2>2. g[a + i] = Data[a + i]
    BY <2>1
  <2>3. P[i + 1] = Prefix[a + (i + 1)] /\ P[i] = Prefix[a + i]
    OBVIOUS
  <2>. QED
    BY <2>1, <2>2, <2>3, FileFacts
<1>. HIDE DEF P, g
<1>6. Telescopes(D, g, a, n, P)
  BY <1>1, <1>2, <1>3, <1>4, <1>5 DEF Telescopes
<1>7. SumsUpTo(g, a .. a + n - 1, P[n] - P[0])
  BY ONLY <1>6, SumTelescopes
<1>8. Total(g, D) = Prefix[a + n] - Prefix[a]
  BY <1>2, <1>4, <1>7 DEF SumsUpTo
<1>9. SumBuffer(g) = Total(g, D)
  <2>1. DOMAIN g = D
    BY DEF g
  <2>. QED
    BY <2>1 DEF SumBuffer, Total
<1>. QED
  BY <1>1, <1>8, <1>9 DEF g, D, a

\* The sum of a buffer that has the first cells of the file, and zeros.
LEMMA ReferenceSum ==
  ASSUME NEW full \in 0 .. FileCells, NEW buf \in [0 .. FileCells - 1 -> Values(0)]
  PROVE  SumBuffer(FilledBy(buf, 0, full)) = Prefix[full]
<1>. DEFINE f == FilledBy(buf, 0, full)
            P == [i \in 0 .. FileCells |-> Prefix[IF i < full THEN i ELSE full]]
<1>1. \A c \in 0 .. FileCells - 1 : buf[c] = 0
  BY DEF Values
<1>2. /\ f \in [0 .. FileCells - 1 -> Int]
      /\ \A c \in 0 .. FileCells - 1 : f[c] = IF c < full THEN Data[c] ELSE 0
  BY <1>1, FileFacts DEF FilledBy
<1>3. P \in [0 .. FileCells -> Int]
  BY FileFacts
<1>4. ASSUME NEW i \in 0 .. FileCells - 1 PROVE P[i + 1] = P[i] + f[i]
  <2>1. CASE i < full
    <3>1. P[i + 1] = Prefix[i + 1] /\ P[i] = Prefix[i]
      BY <2>1, FileFacts
    <3>. QED
      BY <1>2, <2>1, <3>1, FileFacts
  <2>2. CASE ~(i < full)
    <3>1. P[i + 1] = Prefix[full] /\ P[i] = Prefix[full] /\ Prefix[full] \in Int
      BY <2>2, FileFacts
    <3>. QED
      BY <1>2, <2>2, <3>1
  <2>. QED
    BY <2>1, <2>2
<1>5. P[0] = 0 /\ P[FileCells] = Prefix[full]
  BY FileFacts
<1>6. FileCells \in Nat
  BY FileFacts
<1>. HIDE DEF f, P
<1>7. SumBuffer(f) = P[FileCells] - P[0]
  BY ONLY <1>2, <1>3, <1>4, <1>6, BufferSum
<1>8. Prefix[full] \in Int
  BY FileFacts
<1>. QED
  BY <1>5, <1>7, <1>8 DEF f

(***************************************************************************)
(* The sums of the program.                                                *)
(***************************************************************************)

\* A reader has the sum of what it has read, the reference that of the file, or
\* of what one read delivers of it.
ReaderSums ==
  test \in Readers =>
    /\ si \in 0 .. ChunksOf(test)
    /\ ReadSoFar(CellsOf(test), si, pos, sum, missed)
    /\ spc \in {"allocate", "open"} => si = 0
    /\ spc \in {"open", "loop"} => workbuf \in [0 .. CellsOf(test) - 1 -> Values(pos)]
    /\ spc = "validate" => si = ChunksOf(test)
    /\ test = "reference" /\ si # 0 => sum = req_workres

\* map_tester has the sum of the chunks it has gone through, if of its file.
MapSums ==
  test = "map" =>
    /\ si \in 0 .. ChunksOf(test)
    /\ spc = "open" => si = 0
    /\ spc = "validate" => si = ChunksOf(test)
    /\ section => spc = "loop" /\ si < ChunksOf(test)
    /\ ~stray => sum = Prefix[CellsOf(test) * si]

SumInv == ReaderSums /\ MapSums

LEMMA MinIs ==
  ASSUME NEW S, NEW x \in S, S \subseteq Int, \A y \in S : x <= y
  PROVE  Min(S) = x
<1>1. Min(S) = CHOOSE y \in S : \A z \in S : y <= z
  BY DEF Min
<1>2. \A y, z \in S : y <= z /\ z <= y => y = z
  OBVIOUS
<1>3. \A y \in S : (\A z \in S : y <= z) => y = x
  BY <1>2
<1>. QED
  BY <1>1, <1>3

\* What a read delivers fits in the chunk and in the file.
DeliveredFit ==
  \A got \in MayDeliver :
    /\ got \in 0 .. CellsOf(test) /\ pos + got <= FileCells
    /\ test = "reference" /\ pos = 0 => got = Transfer(FileCells)

LEMMA DeliveryFits ==
  ASSUME test \in Readers, pos \in Nat, pos <= FileCells
  PROVE  DeliveredFit
<1>. SUFFICES ASSUME NEW got \in MayDeliver
              PROVE  /\ got \in 0 .. CellsOf(test) /\ pos + got <= FileCells
                     /\ test = "reference" /\ pos = 0 => got = Transfer(FileCells)
  BY DEF DeliveredFit
<1>. DEFINE rest == FileCells - pos
            S == {CellsOf(test), rest} \cup IF test = "fread" THEN {} ELSE {RequestLimit}
            full == Min(S)
<1>1. CellsOf(test) \in Nat /\ rest \in Nat /\ RequestLimit \in Nat /\ FileCells \in Nat
  BY ChunkFacts, FileFacts, PlatformAssumption
<1>2. full \in S /\ S \subseteq Nat /\ \A y \in S : full <= y
  <2>1. S \subseteq Nat /\ S \subseteq Int
    BY <1>1
  <2>2. \E x \in S : \A y \in S : x <= y
    <3>1. S # {}
      OBVIOUS
    <3>. HIDE DEF S
    <3>2. S \in SUBSET Nat
      BY <2>1
    <3>. QED
      BY ONLY <3>1, <3>2, LeastNatural
  <2>3. PICK x \in S : \A y \in S : x <= y
    BY <2>2
  <2>. HIDE DEF S
  <2>4. full = x
    BY <2>1, <2>3, MinIs
  <2>. QED
    BY <2>1, <2>3, <2>4
<1>3. got \in 0 .. full
  <2>1. ChunkCells = CellsOf(test)
    BY ChunksAre
  <2>2. MayDeliver = IF test = "reference" THEN {full} ELSE 0 .. full
    BY <2>1 DEF MayDeliver
  <2>3. full \in Nat
    BY <1>2
  <2>. HIDE DEF full
  <2>. QED
    BY <2>2, <2>3
<1>4. full <= CellsOf(test) /\ full <= rest /\ full \in Nat
  BY <1>2
<1>5. ASSUME test = "reference", pos = 0 PROVE got = Transfer(FileCells)
  <2>1. MayDeliver = {full}
    BY <1>5, ChunksAre DEF MayDeliver
  <2>2. S = {FileCells, RequestLimit}
    BY <1>1, <1>5, ChunkFacts
  <2>3. full \in {FileCells, RequestLimit} /\ full <= FileCells /\ full <= RequestLimit
    BY <1>2, <2>2
  <2>. HIDE DEF full, S
  <2>4. full = Transfer(FileCells)
    BY <1>1, <2>3 DEF Transfer
  <2>. QED
    BY <2>1, <2>4
<1>6. got \in 0 .. CellsOf(test) /\ pos + got <= FileCells
  <2>. HIDE DEF full
  <2>. QED
    BY <1>1, <1>3, <1>4
<1>7. test = "reference" /\ pos = 0 => got = Transfer(FileCells)
  <2>. HIDE DEF full, S, rest
  <2>. QED
    BY <1>5
<1>. HIDE DEF full, S, rest
<1>. QED
  BY <1>6, <1>7

LEMMA ChunkKeeps ==
  ASSUME SumInv, ReadChunk, test' # "gone"
  PROVE  SumInv'
<1>1. test \in Readers /\ spc = "loop" /\ si < Chunks /\ test # "map"
  BY DEF ReadChunk, Readers
<1>2. PICK got \in MayDeliver :
        /\ workbuf' = Filled(got) /\ pos' = pos + got /\ sum' = sum + SumBuffer(workbuf')
        /\ missed' = (missed \/ got < ChunkCells) /\ si' = si + 1 /\ test' = test /\ spc' = spc
  BY DEF ReadChunk, Gone
<1>. DEFINE n == CellsOf(test)
            C == ChunksOf(test)
<1>3. /\ n \in Nat \ {0} /\ C \in Nat /\ n * C = FileCells /\ (test = "reference" => n = FileCells /\ C = 1)
      /\ Chunks = C /\ ChunkCells = n
  BY ChunkFacts, ChunksAre
<1>4. /\ si \in 0 .. C /\ ReadSoFar(n, si, pos, sum, missed) /\ workbuf \in [0 .. n - 1 -> Values(pos)]
      /\ pos \in Nat /\ pos <= FileCells /\ pos <= n * si
  BY <1>1 DEF SumInv, ReaderSums, ReadSoFar
<1>. HIDE DEF n, C
<1>5. got \in 0 .. n /\ pos + got <= FileCells /\ (test = "reference" /\ pos = 0 => got = Transfer(FileCells))
  <2>1. DeliveredFit
    BY <1>1, <1>4, DeliveryFits
  <2>. QED
    BY <1>2, <2>1 DEF n, DeliveredFit
<1>6. si + 1 \in 0 .. C /\ n * (si + 1) <= FileCells /\ si \in Nat
  <2>1. si \in Nat /\ si + 1 <= C
    BY <1>1, <1>3, <1>4
  <2>2. \A i, j, k \in Nat : i <= j => k * i <= k * j
    OBVIOUS
  <2>. QED
    BY <1>3, <2>1, <2>2
<1>7. workbuf' = FilledBy(workbuf, pos, got)
  BY <1>2 DEF Filled, FilledBy
<1>8. workbuf' \in [0 .. n - 1 -> Values(pos + got)]
  BY <1>3, <1>4, <1>5, <1>7, FilledIs
<1>9. ReadSoFar(n, si + 1, pos + got, sum + SumBuffer(FilledBy(workbuf, pos, got)), missed \/ got < n)
  BY <1>3, <1>4, <1>5, <1>6, ReadMore
<1>10. ReadSoFar(n, si', pos', sum', missed')
  BY <1>2, <1>3, <1>7, <1>9
<1>11. ASSUME test = "reference" PROVE sum' = req_workres
  <2>1. si = 0 /\ n = FileCells
    <3>1. C = 1 /\ n = FileCells /\ si < C
      BY <1>1, <1>3, <1>11
    <3>. QED
      BY <1>6, <3>1
  <2>2. pos = 0 /\ sum = 0
    <3>1. n * si = 0
      BY <1>3, <2>1
    <3>2. pos = 0
      BY <1>4, <3>1
    <3>3. sum = Prefix[0]
      BY <1>4, <3>1, <3>2 DEF ReadSoFar
    <3>. QED
      BY <3>2, <3>3, FileFacts
  <2>3. got = Transfer(FileCells) /\ got \in 0 .. FileCells
    BY <1>5, <1>11, <2>1, <2>2
  <2>4. SumBuffer(workbuf') = Prefix[got]
    <3>1. workbuf \in [0 .. FileCells - 1 -> Values(0)]
      BY <1>4, <2>1, <2>2
    <3>2. SumBuffer(FilledBy(workbuf, 0, got)) = Prefix[got]
      BY <2>3, <3>1, ReferenceSum
    <3>. QED
      BY <1>7, <2>2, <3>2
  <2>5. Prefix[got] \in Int
    BY <2>3, FileFacts
  <2>. QED
    BY <1>2, <2>2, <2>3, <2>4, <2>5 DEF req_workres
<1>12. ReaderSums'
  BY <1>1, <1>2, <1>6, <1>8, <1>10, <1>11 DEF ReaderSums, n, C
<1>. QED
  BY <1>1, <1>2, <1>12 DEF SumInv, MapSums


LEMMA SumsInit == TestsInit => SumInv
<1>. SUFFICES ASSUME TestsInit PROVE SumInv
  OBVIOUS
<1>1. test = "reference" /\ spc = "allocate" /\ si = 0 /\ pos = 0 /\ sum = 0 /\ missed = FALSE
  BY DEF TestsInit
<1>2. 0 \in 0 .. ChunksOf(test) /\ CellsOf(test) \in Nat
  BY ChunkFacts
<1>3. ReadSoFar(CellsOf(test), 0, 0, 0, FALSE)
  BY <1>2, NothingRead
<1>. QED
  BY <1>1, <1>2, <1>3 DEF SumInv, ReaderSums, MapSums

\* A test begins.
LEMMA StartSums ==
  ASSUME RunStarts(test')
  PROVE  SumInv'
<1>1. si' = 0 /\ pos' = 0 /\ section' = FALSE /\ sum' = 0 /\ missed' = FALSE
  BY DEF RunStarts
<1>2. test' \in Readers => spc' = "allocate"
  BY DEF RunStarts
<1>3. test' = "map" => spc' = "open"
  BY DEF RunStarts, Readers
<1>. DEFINE t == test'
<1>4. CellsOf(t) \in Nat \ {0} /\ 0 \in 0 .. ChunksOf(t)
  BY ChunkFacts
<1>5. ReadSoFar(CellsOf(t), 0, 0, 0, FALSE)
  BY <1>4, NothingRead
<1>6. ReaderSums'
  BY <1>1, <1>2, <1>4, <1>5 DEF ReaderSums
<1>7. Prefix[CellsOf(t) * 0] = 0
  <2>1. CellsOf(t) * 0 = 0
    BY <1>4
  <2>. QED
    BY <2>1, FileFacts
<1>8. MapSums'
  BY <1>1, <1>3, <1>4, <1>7 DEF MapSums
<1>. QED
  BY <1>6, <1>8 DEF SumInv

LEMMA AllocateSums ==
  ASSUME SumInv, Allocate, test' # "gone"
  PROVE  SumInv'
<1>1. /\ test \in Readers /\ spc = "allocate" /\ spc' = "open"
      /\ workbuf' = [c \in 0 .. ChunkCells - 1 |-> 0]
      /\ test' = test /\ si' = si /\ pos' = pos /\ sum' = sum /\ missed' = missed
  BY DEF Allocate, Gone
<1>. DEFINE n == CellsOf(test)
<1>2. si = 0 /\ ReadSoFar(n, si, pos, sum, missed) /\ n \in Nat /\ ChunkCells = n
  BY <1>1, ChunkFacts, ChunksAre DEF SumInv, ReaderSums
<1>3. pos \in Nat /\ 0 \in Values(pos)
  BY <1>2 DEF ReadSoFar, Values
<1>. HIDE DEF n
<1>4. workbuf' \in [0 .. n - 1 -> Values(pos)]
  BY <1>1, <1>2, <1>3
<1>5. ReaderSums'
  BY <1>1, <1>2, <1>4 DEF SumInv, ReaderSums, n
<1>. QED
  BY <1>1, <1>5 DEF SumInv, MapSums, Readers

LEMMA OpenSums ==
  ASSUME SumInv, Open
  PROVE  SumInv'
<1>1. /\ spc = "open" /\ spc' = "loop" /\ workbuf' = workbuf /\ section' = section
      /\ test' = test /\ si' = si /\ pos' = pos /\ sum' = sum /\ missed' = missed
      /\ stray' = stray \/ stray' = (stray \/ test = "map")
  BY DEF Open
<1>2. ReaderSums'
  BY <1>1 DEF SumInv, ReaderSums
<1>3. stray => stray'
  BY <1>1, Zenon
<1>4. MapSums'
  BY <1>1, <1>3 DEF SumInv, MapSums
<1>. QED
  BY <1>2, <1>4 DEF SumInv

LEMMA MapSectionSums ==
  ASSUME SumInv, MapSection, test' # "gone"
  PROVE  SumInv'
<1>1. /\ test = "map" /\ spc = "loop" /\ si < Chunks /\ section' = TRUE
      /\ UNCHANGED <<test, spc, si, sum, stray>>
  BY DEF MapSection, Gone
<1>2. Chunks = ChunksOf(test)
  BY ChunksAre
<1>. QED
  BY <1>1, <1>2 DEF SumInv, MapSums, ReaderSums, Readers

LEMMA SumSectionSums ==
  ASSUME SumInv, SumSection
  PROVE  SumInv'
<1>. DEFINE n == CellsOf(test)
            C == ChunksOf(test)
<1>1. /\ test = "map" /\ spc = "loop" /\ section
      /\ section' = FALSE /\ si' = si + 1
      /\ UNCHANGED <<test, spc, stray>>
  BY DEF SumSection
<1>2. n \in Nat \ {0} /\ C \in Nat /\ n * C = FileCells /\ ChunkCells = n
  BY ChunkFacts, ChunksAre
<1>3. si \in 0 .. C /\ si < C /\ (~stray => sum = Prefix[n * si])
  BY <1>1 DEF SumInv, MapSums
<1>. HIDE DEF n, C
<1>4. si \in Nat /\ si + 1 \in 0 .. C /\ n * si <= FileCells /\ n * (si + 1) <= FileCells
  <2>1. si \in Nat /\ si <= C /\ si + 1 <= C
    BY <1>2, <1>3
  <2>2. \A i, j, k \in Nat : i <= j => k * i <= k * j
    OBVIOUS
  <2>. QED
    BY <1>2, <2>1, <2>2
<1>5. ASSUME ~stray PROVE sum' = Prefix[n * (si + 1)]
  <2>1. sum' = sum + SumBuffer([c \in ChunkAt(si) |-> Data[c]])
    BY <1>5 DEF SumSection
  <2>2. ChunkAt(si) = si * n .. (si + 1) * n - 1
    BY <1>2 DEF ChunkAt
  <2>3. SumBuffer([c \in si * n .. (si + 1) * n - 1 |-> Data[c]])
          = Prefix[n * (si + 1)] - Prefix[n * si]
    BY <1>2, <1>4, SectionSum
  <2>4. Prefix[n * (si + 1)] \in Int /\ Prefix[n * si] \in Int
    <3>1. n * (si + 1) \in 0 .. FileCells /\ n * si \in 0 .. FileCells
      BY <1>2, <1>4, FileFacts
    <3>. QED
      BY <3>1, FileFacts
  <2>. QED
    BY <1>3, <1>5, <2>1, <2>2, <2>3, <2>4
<1>6. MapSums'
  BY <1>1, <1>4, <1>5 DEF MapSums, n, C
<1>. QED
  BY <1>1, <1>6 DEF SumInv, ReaderSums, Readers

LEMMA CloseSums ==
  ASSUME SumInv, Close
  PROVE  SumInv'
<1>1. /\ test \in SequentialTests /\ spc = "loop" /\ si >= Chunks /\ ~section
      /\ spc' = "validate" /\ UNCHANGED <<test, si, pos, section, sum, missed, stray>>
  BY DEF Close
<1>2. Chunks = ChunksOf(test) /\ ChunksOf(test) \in Nat
  BY ChunksAre, ChunkFacts
<1>3. test \in Readers \/ test = "map" => si = ChunksOf(test)
  <2>1. test \in Readers \/ test = "map" => si \in 0 .. ChunksOf(test)
    BY DEF SumInv, ReaderSums, MapSums
  <2>. QED
    BY <1>1, <1>2, <2>1
<1>4. ReaderSums'
  BY <1>1, <1>3 DEF SumInv, ReaderSums
<1>5. MapSums'
  BY <1>1, <1>3 DEF SumInv, MapSums
<1>. QED
  BY <1>4, <1>5 DEF SumInv

LEMMA SumsNext == SumInv /\ [TestsNext]_allVars => SumInv'
<1>. SUFFICES ASSUME SumInv, TestsNext \/ UNCHANGED allVars PROVE SumInv'
  OBVIOUS
<1>1. CASE SequentialStep
  <2>1. CASE test' = "gone"
    BY <2>1 DEF SumInv, ReaderSums, MapSums, Readers
  <2>2. CASE CheckResult /\ test' # "gone"
    BY <2>2, StartSums DEF CheckResult, Gone
  <2>3. CASE ThreadedReturns
    BY <2>3, StartSums DEF ThreadedReturns
  <2>. QED
    BY <1>1, <2>1, <2>2, <2>3, AllocateSums, OpenSums, ChunkKeeps, MapSectionSums, SumSectionSums,
       CloseSums DEF SequentialStep
<1>2. CASE test = "threaded" /\ (Main \/ Worker) /\ UNCHANGED tests
  BY <1>2 DEF tests, run, SumInv, ReaderSums, MapSums, Readers
<1>3. CASE UNCHANGED allVars
  <2>1. UNCHANGED <<test, spc, si, pos, sum, missed, workbuf, section, stray>> /\ UNCHANGED vars
    BY <1>3 DEF allVars, tests, run
  <2>. QED
    BY <2>1 DEF SumInv, ReaderSums, MapSums
<1>. QED
  BY <1>1, <1>2, <1>3 DEF TestsNext

\* What the sum of a sequential test is made of when it is validated, for every
\* file.  If no read fell short it is that of the file, so that the assertions
\* (file_processing.cpp:206, 228, 341) raise no false alarm; the reference is
\* what the threaded test takes it for.  If one did, the file was not read to its
\* end, and the sum is that of as many cells as the file has, each zero or one of
\* those that were read: an assertion lets a short read pass only if some of
\* these, perhaps repeated, add up to the sum of the file.
SumsOfCellsRead ==
  test \in SequentialTests /\ spc = "validate" =>
    /\ test = "reference" => sum = req_workres
    /\ test \in Readers /\ ~missed => sum = Prefix[FileCells]
    /\ test \in Readers /\ missed =>
         /\ pos < FileCells
         /\ \E cells \in [0 .. FileCells - 1 -> {0} \cup {Data[c] : c \in 0 .. pos - 1}] : sum = SumBuffer(cells)
    /\ test = "map" /\ ~stray => sum = Prefix[FileCells]

\* The sums of the sequential tests, whatever the file holds and whatever the
\* system delivers of it (file_processing.cpp:200, 223, 336).
THEOREM SumsAreOfCellsRead == TestsSpec => []SumsOfCellsRead
<1>1. SumInv => SumsOfCellsRead
  <2>. SUFFICES ASSUME SumInv, test \in SequentialTests, spc = "validate"
                PROVE  /\ test = "reference" => sum = req_workres
                       /\ test \in Readers /\ ~missed => sum = Prefix[FileCells]
                       /\ test \in Readers /\ missed => pos < FileCells /\ SumOf(FileCells, pos, sum)
                       /\ test = "map" /\ ~stray => sum = Prefix[FileCells]
    BY DEF SumsOfCellsRead, SumOf, Values
  <2>. DEFINE n == CellsOf(test)
              C == ChunksOf(test)
  <2>1. n \in Nat \ {0} /\ C \in Nat /\ n * C = FileCells /\ (test = "reference" => C = 1)
    BY ChunkFacts
  <2>2. CASE test \in Readers
    <3>1. si = C /\ ReadSoFar(n, C, pos, sum, missed) /\ (test = "reference" /\ si # 0 => sum = req_workres)
      BY <2>2 DEF SumInv, ReaderSums
    <3>. HIDE DEF n, C
    <3>2. ~missed => sum = Prefix[FileCells]
      BY <2>1, <3>1 DEF ReadSoFar
    <3>3. missed => pos < FileCells /\ SumOf(FileCells, pos, sum)
      BY <2>1, <3>1 DEF ReadSoFar
    <3>4. test = "reference" => sum = req_workres
      BY <2>1, <3>1
    <3>. QED
      BY <2>2, <3>2, <3>3, <3>4 DEF Readers
  <2>3. CASE test = "map"
    <3>1. si = C /\ (~stray => sum = Prefix[n * si])
      BY <2>3 DEF SumInv, MapSums
    <3>. QED
      BY <2>1, <2>3, <3>1 DEF Readers
  <2>. QED
    BY <2>2, <2>3 DEF SequentialTests
<1>2. TestsSpec => TestsInit /\ [][TestsNext]_allVars
  BY PTL DEF TestsSpec
<1>. QED
  BY <1>1, <1>2, SumsInit, SumsNext, PTL
=============================================================================
