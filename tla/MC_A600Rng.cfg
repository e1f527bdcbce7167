\* a600_rng_read: lengths around and across a word boundary, two calls,
\* an RNG that is off, on, warming up or with its FIFO full.  After the last
\* call, once the FIFO is full, nothing is left to happen.
CONSTANTS
  Lens = {1, 3, 4, 5, 8, 9}
  MaxCalls = 2
  WARMUP = 2
  FIFO_DEPTH = 2
SPECIFICATION Spec
INVARIANT TypeOK
INVARIANT ReadFillsBufferExactly
PROPERTY EveryReadReturns
CHECK_DEADLOCK FALSE
