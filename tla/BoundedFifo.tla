----------------------------- MODULE BoundedFifo -----------------------------
(***************************************************************************)
(* What a bounded blocking queue promises its users: items come out in the *)
(* order they went in, at most Cap are held, a batch take returns the     *)
(* oldest items, and clearing forgets everything held. got is what the    *)
(* last take handed to its caller.                                        *)
(***************************************************************************)
EXTENDS Naturals, Sequences

CONSTANTS
  Cap,       \* capacity
  Items,     \* values that can be queued
  MaxBatch   \* largest batch a caller asks for

VARIABLES
  queue,     \* items held, oldest first
  got        \* what the last take returned

vars == <<queue, got>>

Init ==
  /\ queue = <<>>
  /\ got = <<>>

Put(x) ==
  /\ Len(queue) < Cap
  /\ queue' = Append(queue, x)
  /\ UNCHANGED got

Get ==
  /\ queue # <<>>
  /\ got' = <<Head(queue)>>
  /\ queue' = Tail(queue)

GetBatch(n) ==
  /\ queue # <<>>
  /\ LET k == IF n < Len(queue) THEN n ELSE Len(queue)
     IN /\ got' = SubSeq(queue, 1, k)
        /\ queue' = SubSeq(queue, k + 1, Len(queue))

Empty ==
  /\ queue' = <<>>
  /\ UNCHANGED got

Next ==
  \/ \E x \in Items : Put(x)
  \/ Get
  \/ \E n \in 1..MaxBatch : GetBatch(n)
  \/ Empty

Spec == Init /\ [][Next]_vars

=============================================================================
