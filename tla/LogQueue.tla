------------------------------ MODULE LogQueue ------------------------------
(***************************************************************************)
(* logger::LogQueue<T> (src/logger/log_queue.hpp): a ring buffer of       *)
(* capacity_ slots with front_, rear_ and size_, every operation under    *)
(* one mutex_, so each operation is one atomic step. A wait on a          *)
(* condition variable is the operation's guard; a wait that times out, or *)
(* a non-blocking pop on an empty queue, returns false and changes        *)
(* nothing, so it is a stuttering step and not written out. std::move out *)
(* of a slot leaves it holding a default value, Blank, which is also what *)
(* make_unique<T[]> fills the slots with. In debug mode the queue counts  *)
(* reads and writes in read_count_ and write_count_.                      *)
(***************************************************************************)
EXTENDS Naturals, Sequences

CONSTANTS
  Cap,       \* capacity_
  Items,     \* values pushed
  Blank,     \* a default-constructed or moved-from T
  MaxBatch,  \* largest max_count passed to pop_batch
  Debug      \* debug_

ASSUME Cap \in Nat \ {0} /\ Blank \notin Items /\ Debug \in BOOLEAN

VARIABLES
  buffer,      \* buffer_: slot -> value
  front,       \* front_
  rear,        \* rear_
  size,        \* size_
  readCount,   \* read_count_
  writeCount,  \* write_count_
  got          \* what the last pop or pop_batch handed to its caller

vars == <<buffer, front, rear, size, readCount, writeCount, got>>

Slots == 0..(Cap - 1)

\* The items held, oldest first: size_ slots from front_ on, wrapping.
Held == [i \in 1..size |-> buffer[(front + i - 1) % Cap]]

\* The constructor.
Init ==
  /\ buffer = [s \in Slots |-> Blank]
  /\ front = 0
  /\ rear = 0
  /\ size = 0
  /\ readCount = 0
  /\ writeCount = 0
  /\ got = <<>>

\* Where push stores an item: buffer_[rear_] = item; rear_ = (rear_ + 1) % capacity_.
PushNoWrap(x) ==
  /\ buffer' = [buffer EXCEPT ![rear] = x]
  /\ rear' = rear + 1
Store(x) ==
  /\ buffer' = [buffer EXCEPT ![rear] = x]
  /\ rear' = (rear + 1) % Cap

\* push(const T&): waits for size_ < capacity_, stores, and in debug mode
\* increments read_count_.
PushCopy(x) ==
  /\ size < Cap
  /\ Store(x)
  /\ size' = size + 1
  /\ readCount' = IF Debug THEN readCount + 1 ELSE readCount
  /\ UNCHANGED <<front, writeCount, got>>

\* push(T&&): the same, but counts in write_count_.
PushMove(x) ==
  /\ size < Cap
  /\ Store(x)
  /\ size' = size + 1
  /\ writeCount' = IF Debug THEN writeCount + 1 ELSE writeCount
  /\ UNCHANGED <<front, readCount, got>>

\* pop: waits for (or, non-blocking, requires) size_ > 0, moves the front
\* item out and advances front_.
Pop ==
  /\ size > 0
  /\ got' = <<buffer[front]>>
  /\ buffer' = [buffer EXCEPT ![front] = Blank]
  /\ front' = (front + 1) % Cap
  /\ size' = size - 1
  /\ readCount' = IF Debug THEN readCount + 1 ELSE readCount
  /\ UNCHANGED <<rear, writeCount>>

\* pop_batch with the front_ advanced by max_count instead of by the
\* number of items taken.
PopBatchByMax(n) ==
  /\ size > 0
  /\ LET count == IF n < size THEN n ELSE size
         taken == {(front + i) % Cap : i \in 0..(count - 1)}
     IN /\ got' = [i \in 1..count |-> buffer[(front + i - 1) % Cap]]
        /\ buffer' = [s \in Slots |-> IF s \in taken THEN Blank ELSE buffer[s]]
        /\ front' = (front + n) % Cap
        /\ size' = size - count
        /\ readCount' = IF Debug THEN readCount + count ELSE readCount
  /\ UNCHANGED <<rear, writeCount>>

\* pop_batch(items, max_count): waits for size_ > 0, then moves out up to
\* max_count items from the front, one per loop iteration.
PopBatch(n) ==
  /\ size > 0
  /\ LET count == IF n < size THEN n ELSE size
         taken == {(front + i) % Cap : i \in 0..(count - 1)}
     IN /\ got' = [i \in 1..count |-> buffer[(front + i - 1) % Cap]]
        /\ buffer' = [s \in Slots |-> IF s \in taken THEN Blank ELSE buffer[s]]
        /\ front' = (front + count) % Cap
        /\ size' = size - count
        /\ readCount' = IF Debug THEN readCount + count ELSE readCount
  /\ UNCHANGED <<rear, writeCount>>

\* clear: resets the indices (and, in debug mode, the counters); the slots
\* keep their values.
Clear ==
  /\ size' = 0
  /\ front' = 0
  /\ rear' = 0
  /\ readCount' = IF Debug THEN 0 ELSE readCount
  /\ writeCount' = IF Debug THEN 0 ELSE writeCount
  /\ UNCHANGED <<buffer, got>>

Next ==
  \/ \E x \in Items : PushCopy(x) \/ PushMove(x)
  \/ Pop
  \/ \E n \in 1..MaxBatch : PopBatch(n)
  \/ Clear

Spec == Init /\ [][Next]_vars

-----------------------------------------------------------------------------

TypeOK ==
  /\ buffer \in [Slots -> Items \cup {Blank}]
  /\ front \in Slots
  /\ rear \in Slots
  /\ size \in 0..Cap
  /\ readCount \in Nat
  /\ writeCount \in Nat
  /\ got \in Seq(Items \cup {Blank})

\* The ring buffer is a bounded FIFO (what the logger relies on when its
\* writer thread drains the queue): with Held as the queue, every push,
\* pop, pop_batch and clear is a step of BoundedFifo, so items come out in
\* push order, none is returned twice and no Blank slot is ever handed out.
Fifo == INSTANCE BoundedFifo WITH queue <- Held
FifoRefinement == Fifo!Spec

\* The debug counters agree with the queue (their names, and the
\* push(T&&) overload, say read_count_ counts items taken and write_count_
\* items stored): while debugging, write_count_ - read_count_ = size_.
CountersMatchSize ==
  Debug => writeCount = readCount + size

\* Bounds the debug counters for model checking.
CounterBound == readCount + writeCount <= 4

=============================================================================
