------------------------------- MODULE Buffers -------------------------------
(***************************************************************************)
(* The chunk pool (MemoryPool, src/memory/memory_pool.cpp) and the I/O     *)
(* buffers built on it (InputBuffer, OutputBuffer; their code is in       *)
(* src/net/TcpServer.hpp, Chunk in src/unnamed/part_002). Every buffer is *)
(* owned by one worker loop thread, so one buffer's operations are        *)
(* sequential; buffers of different loops call the pool concurrently, and *)
(* the pool serialises each call under its mutex_. alloc_chunk's slow     *)
(* path is two critical sections with the allocation between them, and   *)
(* a buffer that grows allocates, copies, and then returns its old chunk  *)
(* in a later critical section: both are separate steps here.             *)
(* Sizes are in units of one MEM_SIZES[0] / DefaultSize step; a chunk is *)
(* known by its capacity (every chunk in circulation has a class size),   *)
(* and the free lists by how many chunks each holds. Bytes are not        *)
(* tracked, only lengths and offsets.                                     *)
(***************************************************************************)
EXTENDS Naturals, Sequences, FiniteSets, FiniteSetsExt, Functions

CONSTANTS
  MemSizes,     \* MEM_SIZES, increasing
  Prealloc,     \* initialize_pool: chunks preallocated per class
  Cap,          \* max_capacity_bytes_
  DefaultSize,  \* DEFAULT_BUFFER_SIZE (the smallest class)
  MaxBuf,       \* OutputBuffer's MAX_BUFFER_SIZE ceiling
  ReadCap,      \* read_from_fd's 64 KiB limit per read
  WriteLens,    \* lengths passed to write_to_buf
  InBufs,       \* InputBuffers (one per connection, on their loops)
  OutBufs       \* OutputBuffers

Classes == {MemSizes[i] : i \in DOMAIN MemSizes}
Bufs == InBufs \cup OutBufs
NoChunk == 0

ASSUME /\ DefaultSize = MemSizes[1]
       /\ InBufs \cap OutBufs = {}
       /\ SumSet({Prealloc[i] * MemSizes[i] : i \in DOMAIN MemSizes}) <= Cap

VARIABLES
  free,    \* pool_: class -> number of chunks on its free list
  usage,   \* current_usage_bytes_
  bcap,    \* data_buf->capacity, NoChunk when data_buf is null
  blen,    \* data_buf->length
  bhead,   \* data_buf->head
  spare,   \* a chunk allocated for growth, not yet swapped in
  pc,      \* "idle", "alloc" (between alloc_chunk's two critical sections),
           \* "swap" (new chunk held, old one not yet returned), "read", "write"
  need,    \* the class alloc_chunk is creating on its slow path
  wlen,    \* the length write_to_buf is appending
  req      \* history: the size n last passed to alloc_chunk

poolVars == <<free, usage>>
vars == <<free, usage, bcap, blen, bhead, spare, pc, need, wlen, req>>

-----------------------------------------------------------------------------

\* find_suitable_size: the first class, in MEM_SIZES order, that holds n.
RECURSIVE FindFrom(_, _)
FindFrom(n, i) ==
  IF i > Len(MemSizes) THEN 0
  ELSE IF n <= MemSizes[i] THEN MemSizes[i]
  ELSE FindFrom(n, i + 1)

\* The same loop testing requested_size < size.
RECURSIVE FindFromStrict(_, _)
FindFromStrict(n, i) ==
  IF i > Len(MemSizes) THEN 0
  ELSE IF n < MemSizes[i] THEN MemSizes[i]
  ELSE FindFromStrict(n, i + 1)

FindSuitableSizeStrict(n) ==
  FindFromStrict(n, 1)

FindSuitableSize(n) ==
  FindFrom(n, 1)

\* retrieve(chunk): onto its class's free list; usage drops, clamped at 0.
Retrieve(c) ==
  /\ free' = [free EXCEPT ![c] = @ + 1]
  /\ usage' = IF usage >= c THEN usage - c ELSE 0

\* Where a buffer goes once it has the space: InputBuffer reads,
\* OutputBuffer copies the data in.
Goal(b) == IF b \in InBufs THEN "read" ELSE "write"

\* A buffer operation that failed returns -1 to its caller (write_to_buf's
\* length is then stale and overwritten by the next call).
Fail(b) ==
  pc' = [pc EXCEPT ![b] = "idle"]

\* A chunk of class c handed to buffer b: installed as data_buf when it had
\* none, otherwise held for the copy and swap. (Callers set head: every
\* path that allocates has already adjusted it to 0.)
Receive(b, c) ==
  IF bcap[b] = NoChunk
  THEN /\ bcap' = [bcap EXCEPT ![b] = c]
       /\ blen' = [blen EXCEPT ![b] = 0]
       /\ pc' = [pc EXCEPT ![b] = Goal(b)]
       /\ UNCHANGED spare
  ELSE /\ spare' = [spare EXCEPT ![b] = c]
       /\ pc' = [pc EXCEPT ![b] = "swap"]
       /\ UNCHANGED <<bcap, blen>>

\* alloc_chunk's slow path creating new Chunk(n), the requested size,
\* instead of the class size.
AllocChunkRaw(b, n) ==
  LET c == FindSuitableSize(n) IN
  /\ req' = [req EXCEPT ![b] = n]
  /\ \/ /\ c = 0
          /\ Fail(b)
          /\ UNCHANGED <<poolVars, bcap, blen, spare, need>>
       \/ /\ c # 0
          /\ free[c] > 0
          /\ free' = [free EXCEPT ![c] = @ - 1]
          /\ usage' = usage + c
          /\ Receive(b, c)
          /\ UNCHANGED need
       \/ /\ c # 0
          /\ free[c] = 0
          /\ usage + c > Cap
          /\ Fail(b)
          /\ UNCHANGED <<poolVars, bcap, blen, spare, need>>
       \/ /\ c # 0
          /\ free[c] = 0
          /\ usage + c <= Cap
          /\ pc' = [pc EXCEPT ![b] = "alloc"]
          /\ need' = [need EXCEPT ![b] = n]
          /\ UNCHANGED <<poolVars, bcap, blen, spare>>

\* alloc_chunk(n) from buffer b, first critical section: no class (nullptr),
\* a chunk from the free list, the cap exceeded (MemoryPoolExhaustedError),
\* or, with an empty free list, leave the lock to create a new chunk.
AllocChunk(b, n) ==
  LET c == FindSuitableSize(n) IN
  /\ req' = [req EXCEPT ![b] = n]
  /\ \/ /\ c = 0
          /\ Fail(b)
          /\ UNCHANGED <<poolVars, bcap, blen, spare, need>>
       \/ /\ c # 0
          /\ free[c] > 0
          /\ free' = [free EXCEPT ![c] = @ - 1]
          /\ usage' = usage + c
          /\ Receive(b, c)
          /\ UNCHANGED need
       \/ /\ c # 0
          /\ free[c] = 0
          /\ usage + c > Cap
          /\ Fail(b)
          /\ UNCHANGED <<poolVars, bcap, blen, spare, need>>
       \/ /\ c # 0
          /\ free[c] = 0
          /\ usage + c <= Cap
          /\ pc' = [pc EXCEPT ![b] = "alloc"]
          /\ need' = [need EXCEPT ![b] = c]
          /\ UNCHANGED <<poolVars, bcap, blen, spare>>

\* alloc_chunk, second critical section: the cap is checked again; the new
\* chunk is deleted on failure, or counted and returned.
AllocPublish(b) ==
  /\ pc[b] = "alloc"
  /\ need' = [need EXCEPT ![b] = 0]
  /\ IF usage + need[b] <= Cap
     THEN /\ usage' = usage + need[b]
          /\ Receive(b, need[b])
          /\ UNCHANGED free
     ELSE /\ Fail(b)
          /\ UNCHANGED <<poolVars, bcap, blen, spare>>
  /\ UNCHANGED <<bhead, wlen, req>>

\* Chunk::adjust: memmove the live bytes to offset 0.
Adjust(b) ==
  bhead' = [bhead EXCEPT ![b] = 0]

\* Chunk::copy into the new chunk: the live bytes land at offset 0.
Copy(b) ==
  bhead' = [bhead EXCEPT ![b] = 0]

\* Swap without retrieve(data_buf): the old chunk is dropped, not returned.
SwapNoRetrieve(b) ==
  /\ pc[b] = "swap"
  /\ UNCHANGED poolVars
  /\ bcap' = [bcap EXCEPT ![b] = spare[b]]
  /\ Copy(b)
  /\ spare' = [spare EXCEPT ![b] = NoChunk]
  /\ pc' = [pc EXCEPT ![b] = Goal(b)]
  /\ UNCHANGED <<blen, need, wlen, req>>

\* expand_buffer / ensure_capacity after the allocation: new_buf->copy
\* (data to offset 0), retrieve(data_buf), data_buf = new_buf.
Swap(b) ==
  /\ pc[b] = "swap"
  /\ Retrieve(bcap[b])
  /\ bcap' = [bcap EXCEPT ![b] = spare[b]]
  /\ Copy(b)
  /\ spare' = [spare EXCEPT ![b] = NoChunk]
  /\ pc' = [pc EXCEPT ![b] = Goal(b)]
  /\ UNCHANGED <<blen, need, wlen, req>>

\* Chunk::pop(len): all of it resets head and length, less advances head.
ChunkPop(b, k) ==
  IF k >= blen[b]
  THEN /\ blen' = [blen EXCEPT ![b] = 0]
       /\ bhead' = [bhead EXCEPT ![b] = 0]
  ELSE /\ bhead' = [bhead EXCEPT ![b] = @ + k]
       /\ blen' = [blen EXCEPT ![b] = @ - k]

\* BufferBase::pop(len) for 0 < len <= length: Chunk::pop, and an emptied
\* chunk goes back to the pool.
Pop(b, k) ==
  /\ ChunkPop(b, k)
  /\ IF k = blen[b]
     THEN /\ Retrieve(bcap[b])
          /\ bcap' = [bcap EXCEPT ![b] = NoChunk]
     ELSE UNCHANGED <<poolVars, bcap>>

-----------------------------------------------------------------------------

\* InputBuffer::ensure_space_available(additional): allocate
\* max(additional, default) when there is no chunk; otherwise adjust() to
\* head 0 and, when less than additional is free, expand_buffer(needed)
\* with needed = additional - available, which asks alloc_chunk for
\* length + needed.
EnsureSpaceAvailable(b, additional) ==
  /\ Adjust(b)
  /\ IF bcap[b] = NoChunk
     THEN AllocChunk(b, IF additional > DefaultSize THEN additional ELSE DefaultSize)
     ELSE LET avail == bcap[b] - blen[b]
          IN IF avail >= additional
             THEN /\ pc' = [pc EXCEPT ![b] = "read"]
                  /\ UNCHANGED <<poolVars, bcap, blen, spare, need, req>>
             ELSE AllocChunk(b, blen[b] + (additional - avail))

\* read_from_fd, first part: ensure_space_available(DEFAULT_BUFFER_SIZE).
ReadFromFd(b) ==
  /\ b \in InBufs
  /\ pc[b] = "idle"
  /\ EnsureSpaceAvailable(b, DefaultSize)
  /\ UNCHANGED wlen

\* read_from_fd, the read itself: at most min(available, 64 KiB) bytes;
\* 0 (EOF or EAGAIN) and -1 leave the buffer as it is.
ReadData(b) ==
  /\ pc[b] = "read"
  /\ \E n \in 0..ReadCap :
       /\ n <= bcap[b] - blen[b]
       /\ blen' = [blen EXCEPT ![b] = @ + n]
  /\ pc' = [pc EXCEPT ![b] = "idle"]
  /\ UNCHANGED <<poolVars, bcap, bhead, spare, need, wlen, req>>

\* on_message consumes k bytes of the input: buffer.pop(k).
Consume(b) ==
  /\ b \in InBufs
  /\ pc[b] = "idle"
  /\ bcap[b] # NoChunk
  /\ \E k \in 1..blen[b] : Pop(b, k)
  /\ UNCHANGED <<spare, pc, need, wlen, req>>

\* OutputBuffer::ensure_capacity(len) with new_size = length +
\* (len - available), the InputBuffer's formula.
EnsureCapacityShort(b, len) ==
  /\ Adjust(b)
  /\ IF bcap[b] = NoChunk
     THEN AllocChunk(b, IF len > DefaultSize THEN len ELSE DefaultSize)
     ELSE LET avail == bcap[b] - blen[b]
          IN IF avail >= len
             THEN /\ pc' = [pc EXCEPT ![b] = "write"]
                  /\ UNCHANGED <<poolVars, bcap, blen, spare, need, req>>
             ELSE IF blen[b] + (len - avail) > MaxBuf
             THEN /\ Fail(b)
                  /\ UNCHANGED <<poolVars, bcap, blen, spare, need, req>>
             ELSE AllocChunk(b, blen[b] + (len - avail))

\* OutputBuffer::ensure_capacity(len): allocate max(len, default) when
\* there is no chunk; otherwise adjust() to head 0 and, when less than len
\* is free, allocate length + len unless that passes MAX_BUFFER_SIZE.
EnsureCapacity(b, len) ==
  /\ Adjust(b)
  /\ IF bcap[b] = NoChunk
     THEN AllocChunk(b, IF len > DefaultSize THEN len ELSE DefaultSize)
     ELSE LET avail == bcap[b] - blen[b]
          IN IF avail >= len
             THEN /\ pc' = [pc EXCEPT ![b] = "write"]
                  /\ UNCHANGED <<poolVars, bcap, blen, spare, need, req>>
             ELSE IF blen[b] + len > MaxBuf
             THEN /\ Fail(b)
                  /\ UNCHANGED <<poolVars, bcap, blen, spare, need, req>>
             ELSE AllocChunk(b, blen[b] + len)

\* write_to_buf(data, len), first part: ensure_capacity(len).
WriteToBuf(b) ==
  /\ b \in OutBufs
  /\ pc[b] = "idle"
  /\ \E len \in WriteLens :
       /\ wlen' = [wlen EXCEPT ![b] = len]
       /\ EnsureCapacity(b, len)

\* write_to_buf, second part: memcpy at data + length, length += len.
WriteCopy(b) ==
  /\ pc[b] = "write"
  /\ blen' = [blen EXCEPT ![b] = @ + wlen[b]]
  /\ wlen' = [wlen EXCEPT ![b] = 0]
  /\ pc' = [pc EXCEPT ![b] = "idle"]
  /\ UNCHANGED <<poolVars, bcap, bhead, spare, need, req>>

\* write_to_fd: ::write of the whole buffer from data + head takes n bytes
\* (a partial write when the socket is full), then pop(n); EAGAIN changes
\* nothing.
WriteToFd(b) ==
  /\ b \in OutBufs
  /\ pc[b] = "idle"
  /\ bcap[b] # NoChunk
  /\ blen[b] > 0
  /\ \E n \in 1..blen[b] : Pop(b, n)
  /\ UNCHANGED <<spare, pc, need, wlen, req>>

\* The connection is destroyed: ~BufferBase runs clear(), which returns
\* the chunk; the next connection starts with no chunk.
Clear(b) ==
  /\ pc[b] = "idle"
  /\ bcap[b] # NoChunk
  /\ Retrieve(bcap[b])
  /\ bcap' = [bcap EXCEPT ![b] = NoChunk]
  /\ blen' = [blen EXCEPT ![b] = 0]
  /\ bhead' = [bhead EXCEPT ![b] = 0]
  /\ UNCHANGED <<spare, pc, need, wlen, req>>

\* MemoryPool(): initialize_pool preallocates Prealloc[i] chunks of each
\* class, not counted as in use; the buffers start with no chunk.
Init ==
  /\ free = [c \in Classes |-> Prealloc[CHOOSE i \in DOMAIN MemSizes : MemSizes[i] = c]]
  /\ usage = 0
  /\ bcap = [b \in Bufs |-> NoChunk]
  /\ blen = [b \in Bufs |-> 0]
  /\ bhead = [b \in Bufs |-> 0]
  /\ spare = [b \in Bufs |-> NoChunk]
  /\ pc = [b \in Bufs |-> "idle"]
  /\ need = [b \in Bufs |-> 0]
  /\ wlen = [b \in Bufs |-> 0]
  /\ req = [b \in Bufs |-> 0]

Next ==
  \E b \in Bufs :
    \/ ReadFromFd(b) \/ ReadData(b) \/ Consume(b)
    \/ WriteToBuf(b) \/ WriteCopy(b) \/ WriteToFd(b)
    \/ AllocPublish(b) \/ Swap(b) \/ Clear(b)

Spec == Init /\ [][Next]_vars

-----------------------------------------------------------------------------

TypeOK ==
  /\ free \in [Classes -> Nat]
  /\ usage \in Nat
  /\ bcap \in [Bufs -> Classes \cup {NoChunk}]
  /\ spare \in [Bufs -> Classes \cup {NoChunk}]
  /\ blen \in [Bufs -> Nat]
  /\ bhead \in [Bufs -> Nat]
  /\ pc \in [Bufs -> {"idle", "alloc", "swap", "read", "write"}]
  /\ need \in [Bufs -> Classes \cup {0}]
  /\ wlen \in [Bufs -> {0} \cup WriteLens]
  /\ req \in [Bufs -> Nat]

\* The pool contract (spec 4.4): a chunk alloc_chunk(n) creates, and a
\* chunk held for growth, is of the smallest class whose capacity >= n.
\* A larger one wastes the pool's cap; a smaller one is overrun.
AllocFitsRequest ==
  \A b \in Bufs :
    LET fits == {c \in Classes : req[b] <= c}
    IN /\ pc[b] = "alloc" => need[b] = Min(fits)
       /\ pc[b] = "swap" => spare[b] = Min(fits)

\* Chunk bounds (spec 8): the live bytes of every chunk in use lie inside
\* it, head + length <= capacity, after any mix of reads, consumes,
\* appends, partial writes and growth by several loops at once; a
\* violation is a memcpy or read past the end of the chunk.
ChunkBounds ==
  \A b \in Bufs : bcap[b] # NoChunk => bhead[b] + blen[b] <= bcap[b]

\* Pool accounting (spec 8): current_usage_bytes_ equals the capacity of
\* the chunks the buffers hold, counting a chunk allocated for growth
\* that has not been swapped in yet.
UsageMatchesHeld ==
  usage = SumFunctionOnSet(bcap, Bufs) + SumFunctionOnSet(spare, Bufs)

\* The pool's cap (spec 8: current_usage_bytes <= max_capacity_bytes),
\* which alloc_chunk checks only when it creates a chunk.
UsageWithinCap ==
  usage <= Cap

\* OutputBuffer head (spec 8 and write_to_fd's assert): an OutputBuffer's
\* chunk always has head == 0, so write_to_fd may write from data.
OutputHeadZero ==
  \A b \in OutBufs : bcap[b] # NoChunk => bhead[b] = 0

\* ensure_space_available (spec 4.4: grow to the smallest class holding
\* the live bytes plus the request): when read_from_fd reads, the buffer
\* has at least DEFAULT_BUFFER_SIZE free.
ReadSpaceEnsured ==
  \A b \in InBufs : pc[b] = "read" => bcap[b] - blen[b] >= DefaultSize

=============================================================================
