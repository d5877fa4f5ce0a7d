----------------------------- MODULE ThreadedRead -----------------------------
(***************************************************************************)
(* The "Os read + thread" tester of MemoryTests/file_processing.cpp: the   *)
(* main thread reads a file chunk by chunk into two buffers in turn while  *)
(* a worker thread sums the chunks already read.  Each buffer carries a    *)
(* volatile flag; each thread spins on the flag of the buffer it wants     *)
(* next and hands the buffer back by flipping it.                          *)
(*                                                                         *)
(* A cell is the unit in which memory is read and written (an aligned      *)
(* machine word); sizes, offsets and file positions are counted in cells.  *)
(* Memory is sequentially consistent here; ThreadedReadWeak has the store   *)
(* buffers and the fences.  Sums are integers where the code has i64:      *)
(* wrapping addition is associative and commutative, so two sums of the    *)
(* same cells wrap to the same value.                                      *)
(***************************************************************************)
EXTENDS Integers

CONSTANTS
  BufCells,      \* cells of one buffer: buf_size = chunk_size / 2
  Iters,         \* iters = file_size / buf_size
  Data,          \* the file: a cell for each offset 0 .. FileCells - 1
  Prefix,        \* Prefix[n]: the sum of the first n cells of the file
  RequestLimit,  \* the most cells one read() moves (0x7ffff000 bytes on Linux)
  ReadFaults     \* may a read deliver less than the file holds (I/O error)?

FileCells == Iters * BufCells

\* Offset of the first cell of chunk k.
Start(k) == k * BufCells

ASSUME SizeAssumption ==
  /\ BufCells \in Nat \ {0}
  /\ Iters \in Nat \ {0}

ASSUME DataAssumption == Data \in [0 .. FileCells - 1 -> Int]

ASSUME PrefixAssumption ==
  /\ Prefix \in [0 .. FileCells -> Int]
  /\ Prefix[0] = 0
  /\ \A n \in 0 .. FileCells - 1 : Prefix[n + 1] = Prefix[n] + Data[n]

ASSUME PlatformAssumption ==
  /\ RequestLimit \in Nat \ {0}
  /\ ReadFaults \in BOOLEAN

VARIABLES
  mpc,        \* where the main thread is
  mi,         \* its loop variable i
  copied,     \* cells the read in progress has copied
  mgot,       \* cells the read in progress will deliver
  opened,     \* did os_read_open_file return a valid file?
  fpos,       \* the position of the open file, kept by the kernel
  wpc,        \* where the worker is: "none" before it is spawned
  wi,         \* its loop variable i
  wc,         \* cells sum_buffer has loaded
  wacc,       \* their sum, in the registers of sum_buffer
  state,      \* buffers[b].state: "written" (free for the reader) or "read"
  mem,        \* mem[b][c]: cell c of buffer b
  live,       \* are the two buffers allocated?
  work_sink   \* *output

mainVars == <<mpc, mi, copied, mgot, opened, fpos>>
workerVars == <<wpc, wi, wc, wacc>>
vars == <<mainVars, workerVars, state, mem, live, work_sink>>

Bufs == {0, 1}
Cells == 0 .. BufCells - 1

\* buffers[i & 1]
BufOf(i) == i % 2

\* What one os_file_read can move.  (The Windows build narrows the size to a
\* DWORD instead, but there ftell in get_flen keeps files below 2^31 bytes.)
Transfer(n) == IF n < RequestLimit THEN n ELSE RequestLimit

\* What a read of n cells may deliver at the current position: everything
\* there is, or less if reads can fail.
Delivered(n) ==
  LET rest == FileCells - fpos
      full == IF Transfer(n) < rest THEN Transfer(n) ELSE rest
  IN  IF ReadFaults THEN 0 .. full ELSE {full}

\* The reference result: main sums the whole file with ONE os_file_read of
\* flen bytes into a fresh (zeroed) buffer of flen bytes, unvalidated.
req_workres == Prefix[Transfer(FileCells)]

Init ==
  /\ mpc = "start" /\ mi = 0 /\ copied = {} /\ mgot = 0 /\ opened = FALSE /\ fpos = 0
  /\ wpc = "none" /\ wi = 0 /\ wc = 0 /\ wacc = 0
  /\ state = [b \in Bufs |-> "written"]
  /\ mem = [b \in Bufs |-> [c \in Cells |-> 0]]
  /\ live = FALSE
  /\ work_sink = 0

\* A failed assertion ends the process, and the worker with it.
AbortProcess ==
  /\ mpc' = "aborted"
  /\ wpc' = "killed"
  /\ UNCHANGED <<mi, copied, mgot, opened, fpos, wi, wc, wacc, state, mem, live, work_sink>>

----------------------------------------------------------------------------
(* The main thread *)

\* allocate twice (fresh pages are zero), asserting that each is valid.
AllocateBuffers ==
  /\ mpc = "start"
  /\ \/ /\ live' = TRUE
        /\ mpc' = "spawn"
        /\ UNCHANGED <<mi, copied, mgot, opened, fpos, workerVars, state, mem, work_sink>>
     \/ AbortProcess

\* os_spawn_thread, asserting that the thread is valid.
SpawnWorker ==
  /\ mpc = "spawn"
  /\ \/ /\ mpc' = "open"
        /\ wpc' = "spin"
        /\ UNCHANGED <<mi, copied, mgot, opened, fpos, wi, wc, wacc, state, mem, live, work_sink>>
     \/ AbortProcess

\* os_read_open_file: a failure is not looked at here.
OpenFile ==
  /\ mpc = "open"
  /\ opened' \in BOOLEAN
  /\ mpc' = "spin"
  /\ UNCHANGED <<mi, copied, mgot, fpos, workerVars, state, mem, live, work_sink>>

\* FAULTY: main does not wait for the buffer to be free.
MainSkipsSpin == TRUE

\* The flag the main thread waits for.
MainMayEnter == state[BufOf(mi)] = "written"

\* os_file_read is called: it asserts that the file is valid.
EnterRead ==
  IF opened
  THEN /\ mpc' = "copy"
       /\ copied' = {}
       /\ mgot' \in Delivered(BufCells)
       /\ UNCHANGED <<mi, opened, fpos, workerVars, state, mem, live, work_sink>>
  ELSE AbortProcess

\* Leave the spin loop.
BeginRead ==
  /\ mpc = "spin"
  /\ MainMayEnter
  /\ EnterRead

\* The kernel copies a cell into the buffer; the order is its own.
CopyCell(c) ==
  /\ mpc = "copy"
  /\ c < mgot /\ c \notin copied
  /\ mem' = [mem EXCEPT ![BufOf(mi)][c] = Data[fpos + c]]
  /\ copied' = copied \cup {c}
  /\ UNCHANGED <<mpc, mi, mgot, opened, fpos, workerVars, state, live, work_sink>>

\* os_file_read returns; nobody looks at how much it delivered.
EndRead ==
  /\ mpc = "copy"
  /\ copied = 0 .. mgot - 1
  /\ fpos' = fpos + mgot
  /\ mpc' = "publish"
  /\ UNCHANGED <<mi, copied, mgot, opened, workerVars, state, mem, live, work_sink>>

\* buf.state = e_bs_read, then the loop's increment and test.
Publish ==
  /\ mpc = "publish"
  /\ state' = [state EXCEPT ![BufOf(mi)] = "read"]
  /\ mi' = mi + 1
  /\ mpc' = IF mi + 1 < Iters THEN "spin" ELSE "join"
  /\ UNCHANGED <<copied, mgot, opened, fpos, workerVars, mem, live, work_sink>>

\* FAULTY: the buffers are released without waiting for the worker.
MainSkipsJoin == TRUE

\* What os_join_thread waits for.
MainMayJoin == wpc = "exit"

JoinWorker ==
  /\ mpc = "join"
  /\ MainMayJoin
  /\ mpc' = "cleanup"
  /\ UNCHANGED <<mi, copied, mgot, opened, fpos, workerVars, state, mem, live, work_sink>>

\* os_close_file and the two deallocate calls.
Cleanup ==
  /\ mpc = "cleanup"
  /\ opened' = FALSE
  /\ live' = FALSE
  /\ mpc' = "validate"
  /\ UNCHANGED <<mi, copied, mgot, fpos, workerVars, state, mem, work_sink>>

\* assert(work_sink == req_workres)
Validate ==
  /\ mpc = "validate"
  /\ IF work_sink = req_workres
     THEN /\ mpc' = "done"
          /\ UNCHANGED <<mi, copied, mgot, opened, fpos, workerVars, state, mem, live, work_sink>>
     ELSE AbortProcess

Main ==
  \/ AllocateBuffers \/ SpawnWorker \/ OpenFile
  \/ BeginRead \/ (\E c \in Cells : CopyCell(c)) \/ EndRead \/ Publish
  \/ JoinWorker \/ Cleanup \/ Validate

----------------------------------------------------------------------------
(* The worker: work_loop *)

\* FAULTY: the worker does not wait for the buffer to be read.
WorkerSkipsSpin == TRUE

\* The flag the worker waits for.
WorkerMayEnter == state[BufOf(wi)] = "read"

\* sum_buffer is called.
EnterSum ==
  /\ wpc' = "sum"
  /\ wc' = 0
  /\ wacc' = 0
  /\ UNCHANGED <<mainVars, wi, state, mem, live, work_sink>>

\* Leave the spin loop.
BeginSum ==
  /\ wpc = "spin"
  /\ WorkerMayEnter
  /\ EnterSum

\* sum_buffer loads the next cell; it always goes through the whole buffer.
LoadCell ==
  /\ wpc = "sum"
  /\ wc < BufCells
  /\ wacc' = wacc + mem[BufOf(wi)][wc]
  /\ wc' = wc + 1
  /\ UNCHANGED <<mainVars, wpc, wi, state, mem, live, work_sink>>

\* FAULTY: = instead of +=.
AssignToOutput ==
  /\ wpc = "sum"
  /\ wc = BufCells
  /\ work_sink' = wacc
  /\ wpc' = "release"
  /\ UNCHANGED <<mainVars, wi, wc, wacc, state, mem, live>>

\* *work->output += the sum
AddToOutput ==
  /\ wpc = "sum"
  /\ wc = BufCells
  /\ work_sink' = work_sink + wacc
  /\ wpc' = "release"
  /\ UNCHANGED <<mainVars, wi, wc, wacc, state, mem, live>>

\* FAULTY: the worker forgets to hand the buffer back.
ReleaseNothing ==
  /\ wpc = "release"
  /\ wi' = wi + 1
  /\ wpc' = IF wi + 1 < Iters THEN "spin" ELSE "exit"
  /\ UNCHANGED <<mainVars, wc, wacc, state, mem, live, work_sink>>

\* buf.state = e_bs_written, then the loop's increment and test.
Release ==
  /\ wpc = "release"
  /\ state' = [state EXCEPT ![BufOf(wi)] = "written"]
  /\ wi' = wi + 1
  /\ wpc' = IF wi + 1 < Iters THEN "spin" ELSE "exit"
  /\ UNCHANGED <<mainVars, wc, wacc, mem, live, work_sink>>

Worker == BeginSum \/ LoadCell \/ AddToOutput \/ Release

----------------------------------------------------------------------------
\* The test function has returned, or the process is gone.
Terminating ==
  /\ mpc \in {"done", "aborted"}
  /\ UNCHANGED vars

Next == Main \/ Worker \/ Terminating

Spec == Init /\ [][Next]_vars

----------------------------------------------------------------------------
(* Properties *)

TypeOK ==
  /\ mpc \in {"start", "spawn", "open", "spin", "copy", "publish",
              "join", "cleanup", "validate", "done", "aborted"}
  /\ mi \in 0 .. Iters /\ copied \in SUBSET Cells /\ mgot \in 0 .. BufCells
  /\ opened \in BOOLEAN /\ fpos \in 0 .. FileCells
  /\ wpc \in {"none", "spin", "sum", "release", "exit", "killed"}
  /\ wi \in 0 .. Iters /\ wc \in 0 .. BufCells /\ wacc \in Int
  /\ state \in [Bufs -> {"written", "read"}]
  /\ mem \in [Bufs -> [Cells -> Int]]
  /\ live \in BOOLEAN
  /\ work_sink \in Int

\* The flags are the only thing between a read and a sum on the same buffer
\* (file_processing.cpp:260 and :299): while os_file_read fills a buffer, or
\* has filled it and not yet published it, sum_buffer is not inside it.
BufferExclusion ==
  ~ /\ mpc \in {"copy", "publish"}
    /\ wpc \in {"sum", "release"}
    /\ BufOf(mi) = BufOf(wi)

\* The worker holds a pointer to main's stack frame and to its two buffers
\* (:292); they are released only after it has finished (:313-:317).
NoUseAfterFree == wpc \in {"spin", "sum", "release"} => live

\* The assertion at :320: what the two threads computed is the reference sum.
\* It presumes complete reads.
ResultValidates == mpc = "validate" => work_sink = req_workres

\* A chunk counts as handed over when it is published and as summed when its
\* sum has reached the output.
Pipeline == INSTANCE ChunkPipeline WITH
  Chunks <- Iters,
  Depth <- 2,
  ChunkSum <- [k \in 0 .. Iters - 1 |-> Prefix[Start(k + 1)] - Prefix[Start(k)]],
  handed <- mi,
  summed <- IF wpc = "release" THEN wi + 1 ELSE wi,
  total <- work_sink,
  status <- IF mpc \in {"done", "aborted"} THEN mpc ELSE "running"

\* Every chunk of the file is summed exactly once and in order, at most two
\* are in flight, and an assertion ends the process only before the first
\* chunk or after the last: the reader implements the pipeline.
ImplementsPipeline == Pipeline!Spec

==============================================================================
