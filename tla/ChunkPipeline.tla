---------------------------- MODULE ChunkPipeline ----------------------------
(***************************************************************************)
(* What the threaded file reader of MemoryTests/file_processing.cpp        *)
(* promises, without its buffers, flags and threads: the chunks 0, 1, ...  *)
(* of the file are handed over in order, each is summed exactly once, and  *)
(* no more than Depth of them are between the two at any time (the two     *)
(* halves of the double buffer).  The run either finishes, with the sum of *)
(* all the chunks, or the process is ended by an assertion.                *)
(***************************************************************************)
EXTENDS Integers

CONSTANTS
  Chunks,   \* number of chunks of the file, positive
  Depth,    \* chunks that may be handed over and not yet summed, positive
  ChunkSum  \* ChunkSum[k]: the sum of the words of chunk k, an integer

VARIABLES
  handed,   \* chunks handed over so far
  summed,   \* chunks summed so far
  total,    \* the sum so far
  status    \* "running", "done" or "aborted"

vars == <<handed, summed, total, status>>

Init ==
  /\ handed = 0
  /\ summed = 0
  /\ total = 0
  /\ status = "running"

HandOver ==
  /\ status = "running"
  /\ handed < Chunks
  /\ handed - summed < Depth
  /\ handed' = handed + 1
  /\ UNCHANGED <<summed, total, status>>

Sum ==
  /\ status = "running"
  /\ summed < handed
  /\ total' = total + ChunkSum[summed]
  /\ summed' = summed + 1
  /\ UNCHANGED <<handed, status>>

Finish ==
  /\ status = "running"
  /\ summed = Chunks
  /\ status' = "done"
  /\ UNCHANGED <<handed, summed, total>>

\* An assertion of the reader fails: before the first chunk is handed over
\* (no memory, no thread, no file) or when the final sum is not the expected one.
Abort ==
  /\ status = "running"
  /\ handed = 0 \/ summed = Chunks
  /\ status' = "aborted"
  /\ UNCHANGED <<handed, summed, total>>

Next == HandOver \/ Sum \/ Finish \/ Abort

Spec == Init /\ [][Next]_vars

==============================================================================
