\* Six halves of three cells for the threaded test: each half is used three times
\* by each thread, and a read can be overtaken in the middle.  Three chunks of
\* six cells for the others, each of which runs up to twice.
CONSTANTS
  BufCells = 3
  Iters = 6
  RequestLimit = 20
  ReadFaults = FALSE
  Repeats = 2
  None = None
  Data <- MCData
  Prefix <- MCPrefix
  StdinCells <- MCData
SPECIFICATION TestsSpec
INVARIANTS
  BufferExclusion
  NoUseAfterFree
  ResultValidates
  LeavesNothing
  ShortReadsShow
PROPERTIES
  ImplementsPipeline
  TestsEnd
