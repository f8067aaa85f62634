-------------------------------- MODULE Fifo --------------------------------
(***************************************************************************)
(* The queue between the connection threads and the SQLite thread          *)
(* (src/src/pdns-logger-queue.c).                                          *)
(*                                                                         *)
(* Producers are the connection threads inside logsqlite_log; Bg is the    *)
(* single consumer, bg_thread_exec.  An item is known by the number of its *)
(* row: rows are numbered 1, 2, ... in the order in which fifo_push takes  *)
(* them, and 0 stands for the null pointer.                                *)
(*                                                                         *)
(* A critical section under fifo->lock touches head and tail only, so it   *)
(* is one step, taken when the lock is free.  sync_mutex is held across    *)
(* steps, because the condition variable is the part whose interleavings   *)
(* matter: a signal is lost unless the consumer is inside the wait.        *)
(***************************************************************************)
EXTENDS Naturals, Sequences

CONSTANTS
  Producers,            \* threads that call fifo_push_item
  Bg,                   \* the thread that calls fifo_pop_item
  Free,                 \* "no owner" of a mutex
  NDEBUG,               \* TRUE: assert() is compiled out (CMake's Release)
  MaxRows               \* bound on the number of rows pushed

ASSUME FifoAssumption ==
  /\ Bg \notin Producers
  /\ Free \notin Producers \cup {Bg}
  /\ NDEBUG \in BOOLEAN
  /\ MaxRows \in Nat

VARIABLES
  next,                 \* rows pushed so far
  head,                 \* fifo->head
  tail,                 \* fifo->tail
  lock,                 \* owner of fifo->lock
  sync,                 \* owner of fifo->sync_mutex
  ppc,                  \* where each producer is in fifo_push_item
  cpc,                  \* where the consumer is in fifo_pop_item
  ret,                  \* the result of the consumer's last fifo_pop
  popped,               \* history: rows popped, in order
  dropped,              \* history: rows fifo_push did not link
  alive                 \* FALSE once assert(0) aborted the process

fifoVars == <<next, head, tail, lock, sync, ppc, cpc, ret, popped, dropped,
              alive>>

NULL == 0

\* Where a producer can be: outside, before fifo_send_signal takes the mutex,
\* and holding it.
ProducerPC == {"idle", "signal", "signalling"}

\* Where the consumer can be: before sync_mutex, holding it, inside
\* pthread_cond_timedwait, woken and about to take the mutex again, in
\* fifo_pop, and back in its caller.
ConsumerPC == {"wait", "holding", "waiting", "woken", "pop", "returned"}

FifoInit ==
  /\ next = 0
  /\ head = NULL /\ tail = NULL
  /\ lock = Free /\ sync = Free
  /\ ppc = [p \in Producers |-> "idle"]
  /\ ret = NULL
  /\ popped = <<>>
  /\ dropped = {}
  /\ alive = TRUE

-----------------------------------------------------------------------------
(* fifo_push_item, on a producer's thread.                                 *)

\* A slip: the early path out of fifo_push forgets to unlock.
fifo_push_first_keeps_lock(p) ==
  /\ alive /\ next < MaxRows
  /\ ppc[p] = "idle" /\ lock = Free
  /\ tail = NULL /\ head = NULL
  /\ next' = next + 1
  /\ head' = next + 1 /\ tail' = next + 1
  /\ lock' = p
  /\ ppc' = [ppc EXCEPT ![p] = "signal"]
  /\ UNCHANGED <<sync, cpc, ret, popped, dropped, alive>>

\* fifo_push, both ends null: the new item becomes head and tail.
fifo_push_first(p) ==
  /\ alive /\ next < MaxRows
  /\ ppc[p] = "idle" /\ lock = Free
  /\ tail = NULL /\ head = NULL
  /\ next' = next + 1
  /\ head' = next + 1 /\ tail' = next + 1
  /\ ppc' = [ppc EXCEPT ![p] = "signal"]
  /\ UNCHANGED <<lock, sync, cpc, ret, popped, dropped, alive>>

\* A slip: the second item replaces the first instead of being refused.
fifo_push_second_replaces(p) ==
  /\ alive /\ next < MaxRows
  /\ ppc[p] = "idle" /\ lock = Free
  /\ tail # NULL \/ head # NULL
  /\ next' = next + 1
  /\ head' = next + 1 /\ tail' = next + 1
  /\ ppc' = [ppc EXCEPT ![p] = "signal"]
  /\ UNCHANGED <<lock, sync, cpc, ret, popped, dropped, alive>>

\* fifo_push, anything queued: "Should not happen".  With assertions the
\* process aborts; without them the item is not linked and the caller is told
\* PDNS_OK.  The third branch of the code, which would link a second item,
\* is the negation of the first two and can never run.
fifo_push_second(p) ==
  /\ alive /\ next < MaxRows
  /\ ppc[p] = "idle" /\ lock = Free
  /\ tail # NULL \/ head # NULL
  /\ next' = next + 1
  /\ dropped' = dropped \cup {next + 1}
  /\ alive' = NDEBUG
  /\ ppc' = [ppc EXCEPT ![p] = "signal"]
  /\ UNCHANGED <<head, tail, lock, sync, cpc, ret, popped>>

\* fifo_push, malloc fails: PDNS_NO, no lock taken and no signal sent.
fifo_push_nomem(p) ==
  /\ alive /\ next < MaxRows
  /\ ppc[p] = "idle"
  /\ next' = next + 1
  /\ dropped' = dropped \cup {next + 1}
  /\ UNCHANGED <<head, tail, lock, sync, ppc, cpc, ret, popped, alive>>

\* fifo_send_signal, pthread_mutex_lock.
fifo_send_signal_lock(p) ==
  /\ alive
  /\ ppc[p] = "signal" /\ sync = Free
  /\ sync' = p
  /\ ppc' = [ppc EXCEPT ![p] = "signalling"]
  /\ UNCHANGED <<next, head, tail, lock, cpc, ret, popped, dropped, alive>>

\* fifo_send_signal, pthread_cond_signal and pthread_mutex_unlock.  Only a
\* consumer inside the wait is woken; otherwise the signal is lost.
fifo_send_signal(p) ==
  /\ alive
  /\ ppc[p] = "signalling"
  /\ cpc' = IF cpc = "waiting" THEN "woken" ELSE cpc
  /\ sync' = Free
  /\ ppc' = [ppc EXCEPT ![p] = "idle"]
  /\ UNCHANGED <<next, head, tail, lock, ret, popped, dropped, alive>>

-----------------------------------------------------------------------------
(* fifo_pop_item, on the consumer's thread.                                *)

\* fifo_wait_signal, pthread_mutex_lock.
fifo_wait_lock ==
  /\ alive
  /\ cpc = "wait" /\ sync = Free
  /\ sync' = Bg
  /\ cpc' = "holding"
  /\ UNCHANGED <<next, head, tail, lock, ppc, ret, popped, dropped, alive>>

\* fifo_wait_signal, pthread_cond_timedwait releases the mutex and waits,
\* whatever is queued: the code tests no predicate.
fifo_wait_block ==
  /\ alive
  /\ cpc = "holding"
  /\ sync' = Free
  /\ cpc' = "waiting"
  /\ UNCHANGED <<next, head, tail, lock, ppc, ret, popped, dropped, alive>>

\* A slip: pthread_cond_wait in place of pthread_cond_timedwait.
fifo_wait_forever == FALSE /\ UNCHANGED fifoVars

\* fifo_wait_signal, the second is over (or the wakeup is spurious).
fifo_wait_timeout ==
  /\ alive
  /\ cpc = "waiting"
  /\ cpc' = "woken"
  /\ UNCHANGED <<next, head, tail, lock, sync, ppc, ret, popped, dropped,
                 alive>>

\* fifo_wait_signal, the wait takes the mutex again and it is released.
fifo_wait_return ==
  /\ alive
  /\ cpc = "woken" /\ sync = Free
  /\ cpc' = "pop"
  /\ UNCHANGED <<next, head, tail, lock, sync, ppc, ret, popped, dropped,
                 alive>>

\* Two slips: fifo_pop clears only head, or returns the item without
\* unlinking it.
fifo_pop_keeps_tail ==
  /\ alive
  /\ cpc = "pop" /\ lock = Free
  /\ ret' = head
  /\ popped' = IF head = NULL THEN popped ELSE Append(popped, head)
  /\ head' = NULL
  /\ cpc' = "returned"
  /\ UNCHANGED <<next, tail, lock, sync, ppc, dropped, alive>>
fifo_pop_peeks ==
  /\ alive
  /\ cpc = "pop" /\ lock = Free
  /\ ret' = head
  /\ popped' = IF head = NULL THEN popped ELSE Append(popped, head)
  /\ cpc' = "returned"
  /\ UNCHANGED <<next, head, tail, lock, sync, ppc, dropped, alive>>

\* fifo_pop.  The last branch of the code (head and tail differ) follows
\* item->next, which fifo_push never wrote: any row number or null.
fifo_pop ==
  /\ alive
  /\ cpc = "pop" /\ lock = Free
  /\ ret' = head
  /\ popped' = IF head = NULL THEN popped ELSE Append(popped, head)
  /\ head' \in IF tail = head THEN {NULL} ELSE 0..MaxRows
  /\ tail' = IF tail = head THEN NULL ELSE tail
  /\ cpc' = "returned"
  /\ UNCHANGED <<next, lock, sync, ppc, dropped, alive>>

-----------------------------------------------------------------------------
(* fifo_lock and fifo_unlock, for a caller t that keeps the queue closed.  *)

fifo_lock(t) == lock = Free /\ lock' = t
fifo_unlock(t) == lock = t /\ lock' = Free

-----------------------------------------------------------------------------
(* The queue alone: its consumer calls fifo_pop_item again and again.      *)

fifo_pop_again ==
  /\ alive
  /\ cpc = "returned"
  /\ cpc' = "wait"
  /\ UNCHANGED <<next, head, tail, lock, sync, ppc, ret, popped, dropped,
                 alive>>

\* A push, and the signal that ends the call, of producer p.
fifo_push(p) == fifo_push_first(p) \/ fifo_push_second(p) \/ fifo_push_nomem(p)
FifoSignal(p) == fifo_send_signal_lock(p) \/ fifo_send_signal(p)

\* One step of fifo_wait_signal.
fifo_wait_signal ==
  fifo_wait_lock \/ fifo_wait_block \/ fifo_wait_timeout \/ fifo_wait_return

FifoNext ==
  \/ \E p \in Producers : fifo_push(p) \/ FifoSignal(p)
  \/ fifo_wait_signal
  \/ fifo_pop
  \/ fifo_pop_again

\* The safety part of the queue alone: the consumer is about to wait.
QueueInit == FifoInit /\ cpc = "wait"
FifoSafety == QueueInit /\ [][FifoNext]_fifoVars

\* A thread that can run is eventually scheduled, and a timed wait ends: that
\* is all the fairness the operating system gives.  New pushes are the
\* clients' choice and get none.
FifoFairness ==
  /\ WF_fifoVars(fifo_wait_signal \/ fifo_pop \/ fifo_pop_again)
  /\ \A p \in Producers : WF_fifoVars(FifoSignal(p))

FifoSpec == FifoSafety /\ FifoFairness

-----------------------------------------------------------------------------
(* Properties.                                                             *)

\* The values the variables take: in particular fifo_push and fifo_pop leave
\* the queue unlocked (queue.c:91-101, 119-129).
FifoTypeOK ==
  /\ next \in 0..MaxRows
  /\ head \in 0..MaxRows /\ tail \in 0..MaxRows
  /\ lock \in {Free} /\ sync \in Producers \cup {Bg, Free}
  /\ ppc \in [Producers -> ProducerPC]
  /\ cpc \in ConsumerPC
  /\ ret \in 0..MaxRows
  /\ popped \in Seq(1..MaxRows)
  /\ dropped \in SUBSET (1..MaxRows)
  /\ alive \in BOOLEAN

\* head and tail always agree, so fifo_pop never follows item->next, which
\* fifo_push leaves uninitialised (queue.c:111-138).
HeadIsTail == head = tail

\* Rows leave the queue in the order in which they were pushed and none
\* leaves it twice, although several threads push (queue.c:81-138).
PoppedInOrder ==
  /\ \A i, j \in 1..Len(popped) : i < j => popped[i] < popped[j]
  /\ \A i \in 1..Len(popped) : head # NULL => popped[i] < head

\* Every row handed to fifo_push_item is in exactly one place: lost, queued,
\* or delivered to the consumer.  A row is never both lost and delivered.
RowsAccountedFor ==
  \A n \in 1..next :
    LET delivered == \E i \in 1..Len(popped) : popped[i] = n
    IN  \/ n \in dropped /\ n # head /\ ~delivered
        \/ n \notin dropped /\ n = head /\ ~delivered
        \/ n \notin dropped /\ n # head /\ delivered

\* "Should not happen" (queue.c:95): no push finds the queue occupied, so the
\* assertion of a Debug build never aborts the process.
NeverAborts == alive

\* A queued row is popped, even when its signal was sent while the consumer
\* was not waiting: the one-second timeout makes up for the lost wakeup.
QueuedRowIsPopped == head # NULL ~> head = NULL

\* fifo_push_item and fifo_pop_item, with their threads, mutexes and the
\* condition variable, implement the one-slot buffer: head is the slot.
Slot == INSTANCE OneSlot WITH slot <- head, taken <- popped
ImplementsOneSlot == Slot!SlotSpec
ImplementsOneSlotSafety == Slot!SlotSafety
=============================================================================
