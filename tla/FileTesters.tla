----------------------------- MODULE FileTesters -----------------------------
(***************************************************************************)
(* The tests of MemoryTests/file_processing.cpp that go through the file,  *)
(* in the order of main for one chunk size: the reference (os_read_tester  *)
(* with the whole file as its chunk, not validated), os_read_tester,       *)
(* fread_tester, the threaded test of ThreadedRead, and map_tester.        *)
(* run_test repeats a test as often as the repetition tester tells it to,  *)
(* here up to Repeats times (the threaded one once).  The sequential tests *)
(* share with each other and with the threaded one the descriptors of the  *)
(* process; what a chunk holds is one step, as nobody else sees it.        *)
(* Common/files.hpp is modelled in its Linux half.                         *)
(***************************************************************************)
EXTENDS ThreadedRead, FiniteSetsExt

CONSTANTS
  Repeats,     \* bound: how often a sequential test is repeated
  StdinCells,  \* what a mapping of standard input shows, if it is a file
  None         \* no buffer

ASSUME RepeatsAssumption == Repeats \in Nat \ {0}
ASSUME ChunkAssumption == Iters % 2 = 0
ASSUME StdinAssumption == StdinCells \in [0 .. FileCells - 1 -> Int]

VARIABLES
  test,     \* the test that main runs; "end" after the last, "gone" if aborted
  rep,      \* how often it has run
  spc,      \* where a sequential test is
  si,       \* its loop variable: chunks done
  workbuf,  \* its buffer, zeroed when allocated, or None
  fd,       \* the descriptor in its file record; -1 is invalid
  pos,      \* the position of its file
  section,  \* is a section of the file mapped?
  sum,      \* work_sink of the test
  fds,      \* the descriptors that the process has open
  missed,   \* history: has this run of the test missed a cell of the file?
  stray     \* history: has map_tester worked on a file it could not open?

run == <<spc, si, workbuf, fd, pos, section, sum, missed>>
tests == <<test, rep, run, fds, stray>>
allVars == <<vars, tests>>

Readers == {"reference", "os_read", "fread"}
SequentialTests == Readers \cup {"map"}
StandardFds == {0, 1, 2}

\* The chunk of a test, and the cells of chunk k.
ChunkCells == IF test = "reference" THEN FileCells ELSE 2 * BufCells
ChunkAt(k) == k * ChunkCells .. (k + 1) * ChunkCells - 1
Chunks == FileCells \div ChunkCells

\* sum_buffer
SumBuffer(cells) == MapThenSumSet(LAMBDA c : cells[c], DOMAIN cells)

\* What a test begins with.  map_tester has no buffer.
RunStarts(t) ==
  /\ spc' = IF t \in Readers THEN "allocate" ELSE "open"
  /\ si' = 0 /\ workbuf' = None /\ fd' = -1 /\ pos' = 0 /\ section' = FALSE
  /\ sum' = 0 /\ missed' = FALSE

TestsInit ==
  /\ Init
  /\ test = "reference" /\ rep = 0
  /\ spc = "allocate" /\ si = 0 /\ workbuf = None /\ fd = -1 /\ pos = 0
  /\ section = FALSE /\ sum = 0 /\ missed = FALSE
  /\ fds = StandardFds /\ stray = FALSE

\* An assertion fails, or a null pointer is used.
Gone == test' = "gone" /\ UNCHANGED <<rep, run, fds, stray>>

----------------------------------------------------------------------------
\* allocate, asserting that the buffer is valid.
Allocate ==
  /\ test \in Readers /\ spc = "allocate"
  /\ \/ /\ workbuf' = [c \in 0 .. ChunkCells - 1 |-> 0]
        /\ spc' = "open"
        /\ UNCHANGED <<test, rep, si, fd, pos, section, sum, fds, missed, stray>>
     \/ Gone

\* What a failed open leaves in the record: os_file_t has -1 as its default,
\* FILE * is null, but os_mapped_file_t is zeroed, which is standard input.
FailedFd == IF test = "map" THEN 0 ELSE -1

\* open takes the lowest descriptor; nobody looks at a failure.
Open ==
  /\ test \in SequentialTests /\ spc = "open"
  /\ \/ /\ fd' = CHOOSE n \in 0 .. 3 : n \notin fds /\ \A k \in 0 .. n - 1 : k \in fds
        /\ fds' = fds \cup {fd'}
        /\ UNCHANGED stray
     \/ /\ fd' = FailedFd
        /\ stray' = (stray \/ test = "map")
        /\ UNCHANGED fds
  /\ spc' = "loop"
  /\ UNCHANGED <<test, rep, si, workbuf, pos, section, sum, missed>>

\* What a read may deliver: os_file_read is one read(), fread goes on until it
\* has all of it or fails.  The reference is taken not to fail.
MayDeliver ==
  LET rest == FileCells - pos
      full == Min({ChunkCells, rest} \cup IF test = "fread" THEN {} ELSE {RequestLimit})
  IN  IF test = "reference" THEN {full} ELSE 0 .. full

\* FAULTY: every read starts at the beginning of the file.
FilledFromStart(got) == [c \in DOMAIN workbuf |-> IF c < got THEN Data[c] ELSE workbuf[c]]

\* The buffer after a read of got cells: the rest keeps what the last chunk left.
Filled(got) == [c \in DOMAIN workbuf |-> IF c < got THEN Data[pos + c] ELSE workbuf[c]]

\* os_file_read asserts that the file is valid, fread uses the null pointer;
\* sum_buffer goes through the whole buffer, however much was delivered.
ReadChunk ==
  /\ test \in Readers /\ spc = "loop" /\ si < Chunks
  /\ IF fd < 0 THEN Gone
     ELSE \E got \in MayDeliver :
            /\ workbuf' = Filled(got)
            /\ pos' = pos + got
            /\ sum' = sum + SumBuffer(workbuf')
            /\ missed' = (missed \/ got < ChunkCells)
            /\ si' = si + 1
            /\ UNCHANGED <<test, rep, spc, fd, section, fds, stray>>

\* os_read_map_section: a failed mmap leaves a null pointer, which sum_buffer
\* reads.  Of the standard streams only a file that was redirected can be mapped.
MapSection ==
  /\ test = "map" /\ spc = "loop" /\ si < Chunks /\ ~section
  /\ \/ /\ fd \in fds
        /\ section' = TRUE
        /\ UNCHANGED <<test, rep, spc, si, workbuf, fd, pos, sum, fds, missed, stray>>
     \/ Gone

\* sum_buffer and os_unmap_section
SumSection ==
  /\ test = "map" /\ spc = "loop" /\ section
  /\ LET file == IF fd \in StandardFds /\ stray THEN StdinCells ELSE Data
     IN  sum' = sum + SumBuffer([c \in ChunkAt(si) |-> file[c]])
  /\ section' = FALSE
  /\ si' = si + 1
  /\ UNCHANGED <<test, rep, spc, workbuf, fd, pos, fds, missed, stray>>

\* FAULTY: the descriptor is left open.
NothingClosed == fds

\* os_close_file, fclose and os_unmap_file close a descriptor that looks valid.
AfterClose == IF fd >= 0 THEN fds \ {fd} ELSE fds

\* The file is closed, the buffer deallocated.
Close ==
  /\ test \in SequentialTests /\ spc = "loop" /\ si >= Chunks /\ ~section
  /\ fds' = AfterClose
  /\ fd' = -1
  /\ workbuf' = None
  /\ spc' = "validate"
  /\ UNCHANGED <<test, rep, si, pos, section, sum, missed, stray>>

Following == [reference |-> {"os_read"}, os_read |-> {"fread"}, fread |-> {"threaded"},
              map |-> {"end"}]

\* assert(work_sink == req_workres), except for the reference; then the test is
\* repeated or the next one started.
CheckResult ==
  /\ test \in SequentialTests /\ spc = "validate"
  /\ IF test # "reference" /\ sum # req_workres THEN Gone
     ELSE /\ \/ test # "reference" /\ rep + 1 < Repeats /\ test' = test /\ rep' = rep + 1
             \/ test' \in Following[test] /\ rep' = 0
          /\ RunStarts(test')
          /\ UNCHANGED <<fds, stray>>

\* The threaded test returned: map_tester follows for chunks of whole pages.
ThreadedReturns ==
  /\ test = "threaded" /\ mpc = "done"
  /\ test' \in {"map", "end"}
  /\ RunStarts(test')
  /\ UNCHANGED <<rep, fds, stray>>

SequentialStep ==
  \/ Allocate \/ Open \/ ReadChunk \/ MapSection \/ SumSection \/ Close
  \/ CheckResult \/ ThreadedReturns

TestsNext ==
  \/ SequentialStep /\ UNCHANGED vars
  \/ test = "threaded" /\ (Main \/ Worker) /\ UNCHANGED tests
  \/ (test \in {"end", "gone"} \/ mpc = "aborted") /\ UNCHANGED allVars

\* The operating system runs both threads, the main thread from its first test
\* to its last: neither blocks except in the join.
TestsFairness ==
  /\ WF_allVars(SequentialStep /\ UNCHANGED vars)
  /\ WF_allVars(test = "threaded" /\ Main /\ UNCHANGED tests)
  /\ WF_allVars(test = "threaded" /\ Worker /\ UNCHANGED tests)

TestsSpec == TestsInit /\ [][TestsNext]_allVars /\ TestsFairness

----------------------------------------------------------------------------
(* Properties *)

\* Every test leaves the process as it found it, whatever failed on the way
\* (file_processing.cpp:200, 223, 330; files.hpp:178, 240, 256): no buffer, section,
\* worker or descriptor stays behind, and none that is not the test's own is
\* closed.  The one departure: a file that could not be mapped has the number
\* of standard input in its record, which is closed in its place.
LeavesNothing ==
  test \in SequentialTests /\ spc \in {"allocate", "validate"} =>
    /\ workbuf = None /\ ~section /\ ~live /\ ~opened
    /\ fds = IF stray THEN StandardFds \ {0} ELSE StandardFds

\* The assertions (:206, 228, 341) notice every read that fell short, although
\* nobody looks at what it returned (:200, 223): the sum of as many cells as the
\* file has is that of the file only if each was read once.  And the reference
\* is what the threaded test takes it for.
ShortReadsShow ==
  test \in SequentialTests /\ spc = "validate" =>
    /\ test \in {"os_read", "fread"} => (sum = Prefix[FileCells] <=> ~missed)
    /\ test = "reference" => sum = req_workres
    /\ test = "map" /\ ~stray => sum = req_workres

\* The tests come to an end, or an assertion or a null pointer ends them: the
\* spin loops of the threaded one (:260, 299) and its join (:313) never wait for
\* each other forever.
TestsEnd == <>(test \in {"end", "gone"} \/ mpc = "aborted")

==============================================================================
