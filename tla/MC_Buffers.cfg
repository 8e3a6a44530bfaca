\* Three classes 2 < 4 < 8 (MEM_SIZES scaled so DEFAULT_BUFFER_SIZE is 2),
\* the output ceiling at the middle class, a cap that an input buffer growing
\* to the top class reaches, one chunk of the smallest class preallocated. One
\* input and one output buffer, on two loops.
CONSTANTS
  in1 = in1
  in2 = in2
  out1 = out1
  InBufs <- MCOneIn
  OutBufs <- MCOutBufs
  MemSizes <- MCMemSizes
  Prealloc <- MCPrealloc
  Cap = 12
  DefaultSize = 2
  MaxBuf = 4
  ReadCap = 4
  WriteLens = {1, 3}
SPECIFICATION Spec
INVARIANTS TypeOK AllocFitsRequest ChunkBounds UsageMatchesHeld
