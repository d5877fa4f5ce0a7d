\* Six chunks of one cell, on a machine where one read() moves at most five: the
\* file is just longer than one read() can deliver.
CONSTANTS
  BufCells = 1
  Iters = 6
  RequestLimit = 5
  ReadFaults = FALSE
  Data <- MCData
  Prefix <- MCPrefix
SPECIFICATION Spec
INVARIANT
  ResultValidates
