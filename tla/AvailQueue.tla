----------------------------- MODULE AvailQueue -----------------------------
(***************************************************************************)
(* What an avail ring promises the device: the driver publishes one entry  *)
(* at a time, an entry is complete when it appears and never changes while *)
(* it waits, and the device takes them in the order of publication.        *)
(***************************************************************************)
EXTENDS Naturals, Sequences

CONSTANTS Entries,   \* what an entry stands for: the descriptor it names
          Capacity   \* the queue holds no more than this

VARIABLE pending     \* published and not yet taken, oldest first

Init == pending = <<>>

Publish ==
  LET n == Len(pending)
  IN  /\ n < Capacity
      /\ Len(pending') = n + 1
      /\ SubSeq(pending', 1, n) = pending
      /\ pending'[n + 1] \in Entries

\* One doorbell, everything that waits.
Take == pending # <<>> /\ pending' = <<>>

Next == Publish \/ Take

Spec == Init /\ [][Next]_pending

============================================================================
