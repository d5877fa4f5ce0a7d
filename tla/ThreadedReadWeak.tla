--------------------------- MODULE ThreadedReadWeak ---------------------------
(***************************************************************************)
(* The threaded reader of ThreadedRead on a machine where a store becomes  *)
(* visible to the other thread some time after it was executed, and stores *)
(* to different locations in any order.  This covers the store buffers of  *)
(* x86 and a compiler that moves the plain stores of os_file_read and      *)
(* sum_buffer across the volatile ones; only _mm_mfence, which             *)
(* file_processing.cpp:250 trusts to order both, waits for all of them.    *)
(* Loads are performed in program order.                                   *)
(*                                                                         *)
(* The variables of ThreadedRead keep their meaning, with mem, state and   *)
(* work_sink the values every thread can see; a thread that has left a     *)
(* spin loop and waits in the first fence is at "fence".                   *)
(***************************************************************************)
EXTENDS ThreadedRead, Sequences

VARIABLES
  mbuf,  \* the main thread's stores that are not yet visible, oldest first
  wbuf   \* the worker's

weakVars == <<vars, mbuf, wbuf>>

CellStore(b, c, v) == [loc |-> <<"cell", b, c>>, val |-> v]
FlagStore(b, v)    == [loc |-> <<"flag", b, 0>>, val |-> v]
SinkStore(v)       == [loc |-> <<"sink", 0, 0>>, val |-> v]

Pending(buf, loc) == \E i \in DOMAIN buf : buf[i].loc = loc

\* A thread sees its own latest store to a location before anyone else does.
Latest(buf, loc) ==
  buf[CHOOSE i \in DOMAIN buf : /\ buf[i].loc = loc
                                /\ \A j \in DOMAIN buf : buf[j].loc = loc => j <= i].val

SeenFlag(buf, b) ==
  IF Pending(buf, <<"flag", b, 0>>) THEN Latest(buf, <<"flag", b, 0>>) ELSE state[b]

SeenSink == IF Pending(wbuf, <<"sink", 0, 0>>) THEN Latest(wbuf, <<"sink", 0, 0>>) ELSE work_sink

\* FAULTY: the fences are missing.
NoFence(buf) == TRUE

\* _mm_mfence lets the thread pass once its stores are visible.
Fence(buf) == buf = <<>>

WeakInit == Init /\ mbuf = <<>> /\ wbuf = <<>>

----------------------------------------------------------------------------
(* The main thread: what it does as in ThreadedRead, and its stores *)

WeakSpin ==
  /\ mpc = "spin"
  /\ SeenFlag(mbuf, BufOf(mi)) = "written"
  /\ mpc' = "fence"
  /\ UNCHANGED <<mi, copied, mgot, opened, fpos, workerVars, state, mem, live,
                 work_sink, mbuf, wbuf>>

WeakBeginRead ==
  /\ mpc = "fence"
  /\ Fence(mbuf)
  /\ EnterRead
  /\ UNCHANGED <<mbuf, wbuf>>

WeakCopyCell(c) ==
  /\ mpc = "copy"
  /\ c < mgot /\ c \notin copied
  /\ copied' = copied \cup {c}
  /\ mbuf' = Append(mbuf, CellStore(BufOf(mi), c, Data[fpos + c]))
  /\ UNCHANGED <<mpc, mi, mgot, opened, fpos, workerVars, state, mem, live, work_sink, wbuf>>

WeakPublish ==
  /\ mpc = "publish"
  /\ Fence(mbuf)
  /\ mbuf' = Append(mbuf, FlagStore(BufOf(mi), "read"))
  /\ mi' = mi + 1
  /\ mpc' = IF mi + 1 < Iters THEN "spin" ELSE "join"
  /\ UNCHANGED <<copied, mgot, opened, fpos, workerVars, state, mem, live, work_sink, wbuf>>

\* A thread that has ended has made its stores visible.
WeakJoin == JoinWorker /\ wbuf = <<>> /\ UNCHANGED <<mbuf, wbuf>>

WeakMain ==
  \/ /\ AllocateBuffers \/ SpawnWorker \/ OpenFile \/ EndRead \/ Cleanup \/ Validate
     /\ UNCHANGED <<mbuf, wbuf>>
  \/ WeakSpin \/ WeakBeginRead \/ (\E c \in Cells : WeakCopyCell(c)) \/ WeakPublish
  \/ WeakJoin

----------------------------------------------------------------------------
(* The worker *)

WeakWorkerSpin ==
  /\ wpc = "spin"
  /\ SeenFlag(wbuf, BufOf(wi)) = "read"
  /\ wpc' = "fence"
  /\ UNCHANGED <<mainVars, wi, wc, wacc, state, mem, live, work_sink, mbuf, wbuf>>

WeakBeginSum ==
  /\ wpc = "fence"
  /\ Fence(wbuf)
  /\ EnterSum
  /\ UNCHANGED <<mbuf, wbuf>>

WeakAddToOutput ==
  /\ wpc = "sum"
  /\ wc = BufCells
  /\ wbuf' = Append(wbuf, SinkStore(SeenSink + wacc))
  /\ wpc' = "release"
  /\ UNCHANGED <<mainVars, wi, wc, wacc, state, mem, live, work_sink, mbuf>>

WeakRelease ==
  /\ wpc = "release"
  /\ Fence(wbuf)
  /\ wbuf' = Append(wbuf, FlagStore(BufOf(wi), "written"))
  /\ wi' = wi + 1
  /\ wpc' = IF wi + 1 < Iters THEN "spin" ELSE "exit"
  /\ UNCHANGED <<mainVars, wc, wacc, state, mem, live, work_sink, mbuf>>

WeakWorker ==
  \/ WeakWorkerSpin \/ WeakBeginSum \/ (LoadCell /\ UNCHANGED <<mbuf, wbuf>>)
  \/ WeakAddToOutput \/ WeakRelease

----------------------------------------------------------------------------
(* The machine: a store of a thread becomes visible *)

\* Stores to one location keep their order.
MayDrain(buf, i) == \A j \in 1 .. i - 1 : buf[j].loc # buf[i].loc

Without(buf, i) == SubSeq(buf, 1, i - 1) \o SubSeq(buf, i + 1, Len(buf))

Perform(store) ==
  LET kind == store.loc[1]  b == store.loc[2]  c == store.loc[3]
  IN  /\ mem' = IF kind = "cell" THEN [mem EXCEPT ![b][c] = store.val] ELSE mem
      /\ state' = IF kind = "flag" THEN [state EXCEPT ![b] = store.val] ELSE state
      /\ work_sink' = IF kind = "sink" THEN store.val ELSE work_sink
      /\ UNCHANGED <<mainVars, workerVars, live>>

DrainMain ==
  \E i \in DOMAIN mbuf :
    /\ MayDrain(mbuf, i)
    /\ Perform(mbuf[i])
    /\ mbuf' = Without(mbuf, i)
    /\ UNCHANGED wbuf

DrainWorker ==
  \E i \in DOMAIN wbuf :
    /\ MayDrain(wbuf, i)
    /\ Perform(wbuf[i])
    /\ wbuf' = Without(wbuf, i)
    /\ UNCHANGED mbuf

WeakTerminating == Terminating /\ UNCHANGED <<mbuf, wbuf>>

WeakNext == WeakMain \/ WeakWorker \/ DrainMain \/ DrainWorker \/ WeakTerminating

WeakSpec == WeakInit /\ [][WeakNext]_weakVars

----------------------------------------------------------------------------
(* Properties *)

FlagPending(buf) == \E i \in DOMAIN buf : buf[i].loc[1] = "flag"

PendingCells(buf) == {buf[i].loc[3] : i \in {j \in DOMAIN buf : buf[j].loc[1] = "cell"}}

\* The sequentially consistent reader lags behind: a store happens in it when
\* it becomes visible here, and a fence belongs to what follows it.
VisibleMpc ==
  IF FlagPending(mbuf) THEN "publish"
  ELSE IF mpc = "publish" THEN "copy"
  ELSE IF mpc = "fence" THEN "spin"
  ELSE mpc

VisibleMi == IF FlagPending(mbuf) THEN mi - 1 ELSE mi
VisibleCopied == copied \ PendingCells(mbuf)
VisibleFpos == IF mpc = "publish" THEN fpos - mgot ELSE fpos

VisibleWpc ==
  IF FlagPending(wbuf) THEN "release"
  ELSE IF wpc = "release" /\ wbuf # <<>> THEN "sum"
  ELSE IF wpc = "fence" THEN "spin"
  ELSE wpc

VisibleWi == IF FlagPending(wbuf) THEN wi - 1 ELSE wi

Sequential == INSTANCE ThreadedRead WITH
  mpc <- VisibleMpc, mi <- VisibleMi, copied <- VisibleCopied,
  fpos <- VisibleFpos, wpc <- VisibleWpc, wi <- VisibleWi

\* With its fences, the reader does on the weakly ordered machine only what
\* it does on a sequentially consistent one.
FencesSuffice == Sequential!Spec

==============================================================================
