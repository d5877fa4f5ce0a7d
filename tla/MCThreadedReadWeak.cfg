\* Four chunks of two cells, with reads that may deliver less than asked.
CONSTANTS
  BufCells = 2
  Iters = 4
  RequestLimit = 16
  ReadFaults = TRUE
  Data <- MCData
  Prefix <- MCPrefix
SPECIFICATION WeakSpec
PROPERTIES
  FencesSuffice
