CONSTANTS
  t1 = t1
  t2 = t2
  a1 = a1
  a2 = a2
  nobody = nobody
  Threads <- MCThreads
  BlockAddresses <- MCBlocks
  Requests <- MCRequests
  Modulus = 4
  Nobody = nobody
SYMMETRY Symmetry
SPECIFICATION MemSpec
INVARIANT AccountExact
