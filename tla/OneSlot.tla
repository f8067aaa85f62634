------------------------------ MODULE OneSlot ------------------------------
(***************************************************************************)
(* What the hand-off queue of pdns-logger-queue.c promises its callers,    *)
(* without threads, mutexes or the condition variable: a slot for ONE      *)
(* row.  Rows are numbered in the order in which fifo_push_item is called. *)
(* A row either enters the empty slot or is lost; the consumer takes rows  *)
(* out one at a time.                                                      *)
(***************************************************************************)
EXTENDS Naturals, Sequences

CONSTANT MaxRows        \* bound on the number of rows ever pushed

VARIABLES
  next,                 \* rows pushed so far; the last one has this number
  slot,                 \* the row in the slot, 0 when it is empty
  taken,                \* rows the consumer took, in order
  dropped               \* rows that never entered the slot

slotVars == <<next, slot, taken, dropped>>

SlotInit ==
  /\ next = 0
  /\ slot = 0
  /\ taken = <<>>
  /\ dropped = {}

\* A row pushed while the slot is empty enters it.
Put ==
  /\ next < MaxRows
  /\ slot = 0
  /\ next' = next + 1
  /\ slot' = next + 1
  /\ UNCHANGED <<taken, dropped>>

\* A row may be lost instead: the slot is taken, or there is no memory.
Drop ==
  /\ next < MaxRows
  /\ next' = next + 1
  /\ dropped' = dropped \cup {next + 1}
  /\ UNCHANGED <<slot, taken>>

\* The consumer empties the slot.
Take ==
  /\ slot # 0
  /\ taken' = Append(taken, slot)
  /\ slot' = 0
  /\ UNCHANGED <<next, dropped>>

SlotNext == Put \/ Drop \/ Take

\* The safety part, and the promise that a row in the slot is taken.
SlotSafety == SlotInit /\ [][SlotNext]_slotVars
SlotSpec == SlotSafety /\ WF_slotVars(Take)
=============================================================================
