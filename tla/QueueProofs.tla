---------------------------- MODULE QueueProofs -----------------------------
(***************************************************************************)
(* Proofs about the queue, for any number of producers and rows, and the   *)
(* lemmas that the proofs about the SQLite back end, which drains it, rest *)
(* on.                                                                     *)
(*                                                                         *)
(* One inductive invariant carries the queue: head and tail agree, and the *)
(* rows popped, queued and pushed form one increasing list.                *)
(*                                                                         *)
(* The invariant of the back end has these parts: the types (Types,        *)
(* Flags), what each thread still has to run (Stmts), where the threads    *)
(* are (Control), the handle (Handle), and the fate of the rows (Fate):    *)
(* those written form one increasing list, the one in the writer's hand    *)
(* and the one queued come after it, and all others are lost in exactly    *)
(* one way. Flushes says which stages the running thread goes through      *)
(* between two flushes, as long as nothing fails or rotates.               *)
(***************************************************************************)
EXTENDS SqliteEngine, TLAPS

-----------------------------------------------------------------------------
(* The queue.                                                              *)

\* The list of rows popped is increasing, what is queued comes after it, and
\* nothing in either was lost or is beyond the last row pushed.
FifoIInv ==
  /\ FifoTypeOK
  /\ HeadIsTail
  /\ PoppedInOrder
  /\ head <= next
  /\ \A i \in 1..Len(popped) : popped[i] <= next /\ popped[i] \notin dropped
  /\ \A n \in dropped : n <= next /\ n # head
  /\ RowsAccountedFor

\* Initially the queue is empty and no row was pushed.
LEMMA FifoInitIInv == QueueInit => FifoIInv
BY FifoAssumption DEF QueueInit, FifoInit, FifoIInv, FifoTypeOK, HeadIsTail,
   PoppedInOrder, RowsAccountedFor, NULL, ConsumerPC, ProducerPC

\* Steps that leave the rows alone.
LEMMA FifoQuietStep ==
  ASSUME FifoIInv,
         UNCHANGED <<next, head, tail, popped, dropped>>,
         lock' \in {Free}, sync' \in Producers \cup {Bg, Free},
         ppc' \in [Producers -> ProducerPC],
         cpc' \in ConsumerPC, ret' \in 0..MaxRows, alive' \in BOOLEAN
  PROVE  FifoIInv'
BY DEF FifoIInv, FifoTypeOK, HeadIsTail, PoppedInOrder, RowsAccountedFor

\* A push adds the next row to the queue or to the lost ones.
LEMMA FifoPushStep ==
  ASSUME FifoIInv, NEW p \in Producers, fifo_push(p)
  PROVE  FifoIInv'
<1> USE FifoAssumption
<1>0. /\ next \in Nat /\ popped \in Seq(1..MaxRows) /\ Len(popped) \in Nat
      /\ \A i \in 1..Len(popped) : popped[i] \in 1..MaxRows
      /\ \A i \in 1..Len(popped) : popped[i] <= next /\ popped[i] \notin dropped
      /\ \A n \in dropped : n \in Nat /\ n <= next /\ n # head
      /\ head \in 0..next
      /\ HeadIsTail /\ PoppedInOrder /\ RowsAccountedFor
  BY DEF FifoIInv, FifoTypeOK
<1>1. CASE fifo_push_first(p)
  <2>1. /\ head = NULL /\ next' = next + 1
        /\ head' = next + 1 /\ tail' = next + 1
        /\ UNCHANGED <<popped, dropped>>
    BY <1>1 DEF fifo_push_first
  <2>2. FifoTypeOK'
    BY <1>1, <2>1 DEF fifo_push_first, FifoIInv, FifoTypeOK, NULL, ProducerPC
  <2>3. HeadIsTail' /\ PoppedInOrder'
    BY <2>1, <1>0 DEF HeadIsTail, PoppedInOrder, NULL
  <2>4. (/\ head <= next
         /\ \A i \in 1..Len(popped) :
              popped[i] <= next /\ popped[i] \notin dropped
         /\ \A n \in dropped : n <= next /\ n # head)'
    BY <2>1, <1>0 DEF NULL
  <2>5. RowsAccountedFor'
    BY <2>1, <1>0 DEF RowsAccountedFor, NULL
  <2>6. QED
    BY <2>2, <2>3, <2>4, <2>5 DEF FifoIInv
<1>2. CASE fifo_push_second(p)
  <2>1. /\ next' = next + 1 /\ dropped' = dropped \cup {next + 1}
        /\ UNCHANGED <<head, tail, popped>>
    BY <1>2 DEF fifo_push_second
  <2>2. FifoTypeOK'
    BY <1>2, <2>1 DEF fifo_push_second, FifoIInv, FifoTypeOK, NULL, ProducerPC
  <2>3. HeadIsTail' /\ PoppedInOrder'
    BY <2>1, <1>0 DEF HeadIsTail, PoppedInOrder, NULL
  <2>4. (/\ head <= next
         /\ \A i \in 1..Len(popped) :
              popped[i] <= next /\ popped[i] \notin dropped
         /\ \A n \in dropped : n <= next /\ n # head)'
    BY <2>1, <1>0 DEF NULL
  <2>5. RowsAccountedFor'
    BY <2>1, <1>0 DEF RowsAccountedFor, NULL
  <2>6. QED
    BY <2>2, <2>3, <2>4, <2>5 DEF FifoIInv
<1>3. CASE fifo_push_nomem(p)
  <2>1. /\ next' = next + 1 /\ dropped' = dropped \cup {next + 1}
        /\ UNCHANGED <<head, tail, popped>>
    BY <1>3 DEF fifo_push_nomem
  <2>2. FifoTypeOK'
    BY <1>3, <2>1 DEF fifo_push_nomem, FifoIInv, FifoTypeOK, NULL, ProducerPC
  <2>3. HeadIsTail' /\ PoppedInOrder'
    BY <2>1, <1>0 DEF HeadIsTail, PoppedInOrder, NULL
  <2>4. (/\ head <= next
         /\ \A i \in 1..Len(popped) :
              popped[i] <= next /\ popped[i] \notin dropped
         /\ \A n \in dropped : n <= next /\ n # head)'
    BY <2>1, <1>0 DEF NULL
  <2>5. RowsAccountedFor'
    BY <2>1, <1>0 DEF RowsAccountedFor, NULL
  <2>6. QED
    BY <2>2, <2>3, <2>4, <2>5 DEF FifoIInv
<1>4. QED
  BY <1>1, <1>2, <1>3 DEF fifo_push

\* A pop moves the queued row, if any, to the end of the list.
LEMMA FifoPopStep ==
  ASSUME FifoIInv, fifo_pop
  PROVE  FifoIInv'
<1> USE FifoAssumption
<1>1. /\ tail = head /\ head' = NULL /\ tail' = NULL
      /\ ret' = head /\ cpc' = "returned"
      /\ UNCHANGED <<next, lock, sync, ppc, dropped, alive>>
  BY DEF fifo_pop, FifoIInv, HeadIsTail
<1>2. CASE head = NULL
  <2>1. UNCHANGED <<next, head, tail, popped, dropped>>
    BY <1>1, <1>2 DEF fifo_pop
  <2>2. QED
    BY <1>1, <2>1, FifoQuietStep DEF FifoIInv, FifoTypeOK, ConsumerPC
<1>3. CASE head # NULL
  <2>1. popped' = Append(popped, head)
    BY <1>3 DEF fifo_pop
  <2>2. head \in 1..MaxRows /\ popped \in Seq(1..MaxRows)
    BY <1>3 DEF FifoIInv, FifoTypeOK, NULL
  <2>3. /\ popped' \in Seq(1..MaxRows)
        /\ Len(popped) \in Nat
        /\ Len(popped') = Len(popped) + 1
        /\ popped'[Len(popped) + 1] = head
        /\ \A i \in 1..Len(popped) : popped'[i] = popped[i]
    BY <2>1, <2>2
  <2>4. FifoTypeOK' /\ HeadIsTail'
    BY <1>1, <2>3 DEF FifoIInv, FifoTypeOK, HeadIsTail, ConsumerPC, NULL
  <2>5. /\ \A i \in 1..Len(popped) : /\ popped[i] \in Nat
                                      /\ popped[i] < head
                                      /\ popped[i] <= next
                                      /\ popped[i] \notin dropped
        /\ head <= next /\ next \in Nat /\ head \notin dropped
        /\ \A n \in dropped : n \in Nat /\ n <= next /\ n # 0
    BY <1>3, <2>2 DEF FifoIInv, FifoTypeOK, PoppedInOrder
  <2>6. PoppedInOrder'
    <3>1. \A i, j \in 1..Len(popped) : i < j => popped[i] < popped[j]
      BY DEF FifoIInv, PoppedInOrder
    <3>2. ASSUME NEW i \in 1..Len(popped) + 1, NEW j \in 1..Len(popped) + 1,
                 i < j
          PROVE  popped'[i] < popped'[j]
      <4>1. i \in 1..Len(popped) /\ popped'[i] = popped[i]
        BY <2>3, <3>2
      <4>2. CASE j = Len(popped) + 1
        BY <2>3, <2>5, <4>1, <4>2
      <4>3. CASE j \in 1..Len(popped)
        BY <2>3, <3>1, <3>2, <4>1, <4>3
      <4>4. QED
        BY <2>3, <4>2, <4>3
    <3>3. QED
      BY <1>1, <2>3, <3>2 DEF PoppedInOrder
  <2>7. /\ (head <= next)'
        /\ (\A i \in 1..Len(popped) :
              popped[i] <= next /\ popped[i] \notin dropped)'
        /\ (\A n \in dropped : n <= next /\ n # head)'
    <3>1. \A i \in 1..Len(popped) + 1 :
            popped'[i] <= next /\ popped'[i] \notin dropped
      BY <2>3, <2>5
    <3>2. QED
      BY <1>1, <2>3, <2>5, <3>1 DEF NULL
  <2>8. RowsAccountedFor'
    <3> SUFFICES ASSUME NEW n \in 1..next
                 PROVE  LET delivered == \E i \in 1..Len(popped') :
                                           popped'[i] = n
                        IN  \/ n \in dropped /\ n # 0 /\ ~delivered
                            \/ n \notin dropped /\ n # 0 /\ delivered
      BY <1>1 DEF RowsAccountedFor, NULL
    <3>1. (\E i \in 1..Len(popped') : popped'[i] = n)
            <=> (n = head \/ \E i \in 1..Len(popped) : popped[i] = n)
      <4>1. /\ Len(popped) + 1 \in 1..Len(popped')
            /\ \A i \in 1..Len(popped') :
                 i \in 1..Len(popped) \/ i = Len(popped) + 1
            /\ \A i \in 1..Len(popped) : i \in 1..Len(popped')
        BY <2>3
      <4>2. QED
        BY <2>3, <4>1
    <3>2. QED
      BY <2>5, <3>1 DEF FifoIInv, RowsAccountedFor
  <2>9. QED
    BY <2>4, <2>6, <2>7, <2>8 DEF FifoIInv
<1>4. QED
  BY <1>2, <1>3

\* Every step of the queue preserves the invariant.
LEMMA FifoNextIInv == FifoIInv /\ [FifoNext]_fifoVars => FifoIInv'
<1> SUFFICES ASSUME FifoIInv, [FifoNext]_fifoVars PROVE FifoIInv'
  OBVIOUS
<1> USE FifoAssumption
<1>1. ASSUME NEW p \in Producers, fifo_push(p) PROVE FifoIInv'
  BY <1>1, FifoPushStep
<1>2. ASSUME NEW p \in Producers, FifoSignal(p) PROVE FifoIInv'
  BY <1>2, FifoQuietStep DEF FifoSignal, fifo_send_signal_lock,
     fifo_send_signal, FifoIInv, FifoTypeOK, ProducerPC, ConsumerPC
<1>3. CASE fifo_wait_signal
  BY <1>3, FifoQuietStep DEF fifo_wait_signal, fifo_wait_lock,
     fifo_wait_block, fifo_wait_timeout, fifo_wait_return, FifoIInv,
     FifoTypeOK, ConsumerPC
<1>4. CASE fifo_pop
  BY <1>4, FifoPopStep
<1>5. CASE fifo_pop_again
  BY <1>5, FifoQuietStep DEF fifo_pop_again, FifoIInv, FifoTypeOK, ConsumerPC
<1>6. CASE UNCHANGED fifoVars
  BY <1>6, FifoQuietStep DEF fifoVars, FifoIInv, FifoTypeOK
<1>7. QED
  BY <1>1, <1>2, <1>3, <1>4, <1>5, <1>6 DEF FifoNext

\* The queue always satisfies the inductive invariant.
THEOREM FifoInvariant == FifoSafety => []FifoIInv
BY FifoInitIInv, FifoNextIInv, PTL DEF FifoSafety

\* The variables of the queue keep their types, for any number of producers.
THEOREM FifoTypeCorrect == FifoSafety => []FifoTypeOK
<1>1. FifoIInv => FifoTypeOK
  BY DEF FifoIInv
<1>2. QED
  BY <1>1, FifoInvariant, PTL

\* fifo_pop never reads the uninitialised item->next.
THEOREM FifoHeadIsTail == FifoSafety => []HeadIsTail
<1>1. FifoIInv => HeadIsTail
  BY DEF FifoIInv
<1>2. QED
  BY <1>1, FifoInvariant, PTL

\* Rows are popped in push order, none twice, for any number of producers.
THEOREM FifoPoppedInOrder == FifoSafety => []PoppedInOrder
<1>1. FifoIInv => PoppedInOrder
  BY DEF FifoIInv
<1>2. QED
  BY <1>1, FifoInvariant, PTL

\* Every row pushed is lost, queued or delivered, and only one of the three.
THEOREM FifoRowsAccountedFor == FifoSafety => []RowsAccountedFor
<1>1. FifoIInv => RowsAccountedFor
  BY DEF FifoIInv
<1>2. QED
  BY <1>1, FifoInvariant, PTL

\* Every step of the queue is a step of the one-slot buffer or leaves it alone.
LEMMA FifoStepSimulates ==
  FifoIInv /\ [FifoNext]_fifoVars => [Slot!SlotNext]_(Slot!slotVars)
<1> SUFFICES ASSUME FifoIInv, [FifoNext]_fifoVars
             PROVE  Slot!SlotNext \/ UNCHANGED Slot!slotVars
  OBVIOUS
<1> USE DEF Slot!SlotNext, Slot!slotVars, NULL
<1>1. ASSUME NEW p \in Producers, fifo_push(p)
      PROVE  Slot!SlotNext
  BY <1>1 DEF fifo_push, fifo_push_first, fifo_push_second, fifo_push_nomem,
     Slot!Put, Slot!Drop
<1>2. ASSUME NEW p \in Producers, FifoSignal(p)
      PROVE  UNCHANGED Slot!slotVars
  BY <1>2 DEF FifoSignal, fifo_send_signal_lock, fifo_send_signal
<1>3. CASE fifo_wait_signal \/ fifo_pop_again
  BY <1>3 DEF fifo_wait_signal, fifo_wait_lock, fifo_wait_block,
     fifo_wait_timeout, fifo_wait_return, fifo_pop_again
<1>4. CASE fifo_pop
  BY <1>4 DEF fifo_pop, Slot!Take, FifoIInv, HeadIsTail
<1>5. CASE UNCHANGED fifoVars
  BY <1>5 DEF fifoVars
<1>6. QED
  BY <1>1, <1>2, <1>3, <1>4, <1>5 DEF FifoNext

\* The queue implements the one-slot lossy buffer (safety part), for any
\* number of producers.
THEOREM FifoImplementsOneSlot == FifoSafety => ImplementsOneSlotSafety
<1>1. QueueInit => Slot!SlotInit
  BY DEF QueueInit, FifoInit, Slot!SlotInit, NULL
<1>2. QED
  BY <1>1, FifoInvariant, FifoStepSimulates, PTL
     DEF FifoSafety, ImplementsOneSlotSafety, Slot!SlotSafety

-----------------------------------------------------------------------------
(* Lists of rows.                                                          *)

RowSet == 1..MaxRows
Increasing(s) == \A i, j \in 1..Len(s) : i < j => s[i] < s[j]

\* An empty list has no rows.
LEMMA RowsEmpty == Rows(<<>>) = {}
BY DEF Rows

\* The rows of a list with one more.
LEMMA RowsAppend ==
  ASSUME NEW s \in Seq(RowSet), NEW x \in RowSet
  PROVE  Rows(Append(s, x)) = Rows(s) \cup {x} /\ Append(s, x) \in Seq(RowSet)
<1>1. /\ Len(Append(s, x)) = Len(s) + 1 /\ Len(s) \in Nat
      /\ Append(s, x)[Len(s) + 1] = x
      /\ \A i \in 1..Len(s) : Append(s, x)[i] = s[i]
  OBVIOUS
<1>2. /\ \A i \in 1..(Len(s) + 1) : i \in 1..Len(s) \/ i = Len(s) + 1
      /\ \A i \in 1..Len(s) : i \in 1..(Len(s) + 1)
      /\ Len(s) + 1 \in 1..(Len(s) + 1)
  BY <1>1
<1>3. QED
  BY <1>1, <1>2 DEF Rows

\* The rows of two lists.
LEMMA RowsConcat ==
  ASSUME NEW s \in Seq(RowSet), NEW r \in Seq(RowSet)
  PROVE  Rows(s \o r) = Rows(s) \cup Rows(r) /\ s \o r \in Seq(RowSet)
<1>1. /\ Len(s) \in Nat /\ Len(r) \in Nat /\ Len(s \o r) = Len(s) + Len(r)
      /\ \A i \in 1..Len(s) : (s \o r)[i] = s[i]
      /\ \A i \in 1..Len(r) : (s \o r)[Len(s) + i] = r[i]
  OBVIOUS
<1>2. /\ \A i \in 1..Len(s) : i \in 1..Len(s \o r)
      /\ \A i \in 1..Len(r) : Len(s) + i \in 1..Len(s \o r)
      /\ \A i \in 1..Len(s \o r) :
           i \in 1..Len(s) \/ \E j \in 1..Len(r) : i = Len(s) + j
  <2>1. ASSUME NEW i \in 1..Len(s \o r), i \notin 1..Len(s)
        PROVE  i - Len(s) \in 1..Len(r) /\ i = Len(s) + (i - Len(s))
    BY <1>1, <2>1
  <2>2. /\ \A i \in 1..Len(s) : i \in 1..Len(s \o r)
        /\ \A i \in 1..Len(r) : Len(s) + i \in 1..Len(s \o r)
    BY <1>1
  <2>3. QED
    BY <2>1, <2>2, Zenon
<1>3. Rows(s \o r) \subseteq Rows(s) \cup Rows(r)
  <2>1. ASSUME NEW i \in 1..Len(s \o r)
        PROVE  (s \o r)[i] \in Rows(s) \cup Rows(r)
    <3>1. CASE i \in 1..Len(s)
      BY <1>1, <3>1 DEF Rows
    <3>2. CASE \E j \in 1..Len(r) : i = Len(s) + j
      BY <1>1, <3>2 DEF Rows
    <3>3. QED
      BY <1>2, <3>1, <3>2
  <2>2. QED
    BY <2>1 DEF Rows
<1>4. Rows(s) \cup Rows(r) \subseteq Rows(s \o r)
  <2>1. \A i \in 1..Len(s) : s[i] \in Rows(s \o r)
    BY <1>1, <1>2 DEF Rows
  <2>2. \A i \in 1..Len(r) : r[i] \in Rows(s \o r)
    BY <1>1, <1>2, Zenon DEF Rows
  <2>3. QED
    BY <2>1, <2>2 DEF Rows
<1>5. QED
  BY <1>3, <1>4

\* A list stays increasing when a larger row is appended.
LEMMA IncreasingAppend ==
  ASSUME NEW s \in Seq(RowSet), NEW x \in RowSet, Increasing(s),
         \A m \in Rows(s) : m < x
  PROVE  Increasing(Append(s, x))
<1>1. /\ Len(Append(s, x)) = Len(s) + 1 /\ Len(s) \in Nat
      /\ Append(s, x)[Len(s) + 1] = x
      /\ \A i \in 1..Len(s) : Append(s, x)[i] = s[i] /\ s[i] < x
  BY DEF Rows
<1>2. ASSUME NEW i \in 1..(Len(s) + 1), NEW j \in 1..(Len(s) + 1), i < j
      PROVE  Append(s, x)[i] < Append(s, x)[j]
  <2>1. i \in 1..Len(s)
    BY <1>1, <1>2
  <2>2. CASE j = Len(s) + 1
    BY <1>1, <2>1, <2>2
  <2>3. CASE j \in 1..Len(s)
    BY <1>1, <1>2, <2>1, <2>3 DEF Increasing
  <2>4. QED
    BY <1>1, <2>2, <2>3
<1>3. QED
  BY <1>1, <1>2 DEF Increasing

\* The first part of an increasing list is increasing and shares no row with
\* the rest.
LEMMA IncreasingParts ==
  ASSUME NEW s \in Seq(RowSet), NEW r \in Seq(RowSet), Increasing(s \o r)
  PROVE  Increasing(s) /\ Rows(s) \cap Rows(r) = {}
<1>1. /\ Len(s) \in Nat /\ Len(r) \in Nat /\ Len(s \o r) = Len(s) + Len(r)
      /\ \A i \in 1..Len(s) : (s \o r)[i] = s[i]
      /\ \A i \in 1..Len(r) : (s \o r)[Len(s) + i] = r[i]
  OBVIOUS
<1>2. /\ \A i \in 1..Len(s) : i \in 1..Len(s \o r)
      /\ \A i \in 1..Len(r) : Len(s) + i \in 1..Len(s \o r)
  BY <1>1
<1>3. Increasing(s)
  BY <1>1, <1>2 DEF Increasing
<1>4. ASSUME NEW i \in 1..Len(s), NEW j \in 1..Len(r) PROVE s[i] # r[j]
  <2>1. i < Len(s) + j
    BY <1>1
  <2>2. s[i] < r[j]
    BY <1>1, <1>2, <2>1, Zenon DEF Increasing
  <2>3. s[i] \in Nat /\ r[j] \in Nat
    <3>1. s[i] \in RowSet /\ r[j] \in RowSet
      OBVIOUS
    <3>2. \A m \in RowSet : m \in Nat
      BY FifoAssumption DEF RowSet
    <3>3. QED
      BY <3>1, <3>2, Zenon
  <2>4. QED
    BY <2>2, <2>3
<1>5. QED
  BY <1>3, <1>4 DEF Rows

\* Nothing after a list.
LEMMA ConcatEmpty ==
  ASSUME NEW s \in Seq(RowSet)
  PROVE  s \o <<>> = s
OBVIOUS

\* Appending to the second part of a list.
LEMMA ConcatAppend ==
  ASSUME NEW s \in Seq(RowSet), NEW r \in Seq(RowSet), NEW x \in RowSet
  PROVE  s \o Append(r, x) = Append(s \o r, x)
OBVIOUS

-----------------------------------------------------------------------------
(* The invariant.                                                          *)

\* A statement that is no INSERT; autocommit=1 runs no COMMIT and no BEGIN.
Plain(a) ==
  [op : {"CREATE", "FLUSH"} \cup (IF a THEN {} ELSE {"COMMIT", "BEGIN"}),
   row : {0}]

\* What thread t may have to run: only the writer inserts, and one row.
Script(t, s, a, n) ==
  \/ s \in Seq(Plain(a))
  \/ t = Bg /\ \E m \in 1..n : s = <<Insert(m)>>

\* TypeOK without the rows.
Calls == [at : {"enter", "count", "run", "check"}, c : Nat, h : Nat]
Types ==
  /\ next \in 0..MaxRows /\ head \in 0..MaxRows /\ tail \in 0..MaxRows
  /\ lock \in {Free, Bg, Main} /\ sync \in Producers \cup {Bg, Free}
  /\ ppc \in [Producers -> ProducerPC]
  /\ cpc \in BgPC
  /\ ret \in 0..MaxRows
  /\ mpc \in MainPC /\ hpc \in HupPC
  /\ DOMAIN todo = DbThreads
  /\ call \in [DbThreads -> Calls]
  /\ counter \in Nat
  /\ db \in Nat
  /\ dbst \in {"null", "open", "bad", "closed"}
  /\ faults \in 0..MaxFaults
  /\ rotations \in 0..MaxRotations /\ overlaps \in 0..MaxOverlaps
Flags ==
  /\ alive \in BOOLEAN /\ bgrunning \in BOOLEAN /\ misuse \in BOOLEAN
  /\ autocommit \in BOOLEAN /\ foreground \in BOOLEAN /\ txn \in BOOLEAN

\* What each thread has to run, depending on where it is.
Stmts ==
  /\ todo = [t \in DbThreads |-> todo[t]]
  /\ \A t \in DbThreads : Script(t, todo[t], autocommit, next)
  /\ \A t \in DbThreads :
       call[t].at # "enter" => todo[t] # <<>> /\ Head(todo[t]).op # "FLUSH"
  /\ cpc # "exec" => todo[Bg] = <<>>
  /\ hpc \in {"close", "open"} => todo[Main] = <<>>
  /\ mpc \in {"start", "open"} => todo[Main] = <<>>
  /\ Serving /\ hpc = "idle" => todo[Main] = <<>>

\* Where the threads are.
Control ==
  /\ head = tail /\ head <= next /\ ret <= next
  /\ cpc # "returned" => ret = 0
  /\ cpc = "exec" => next # 0
  /\ mpc \in {"start", "open", "opening"} => next = 0
  /\ mpc \in {"start", "open"} => hpc = "idle" /\ dbst = "null"
  /\ mpc \in {"close", "closed"} => cpc \in {"exited", "gone"}
  /\ mpc = "exit" => ~alive

\* Before the first rotation nobody holds a handle that is not the current one.
Handle ==
  rotations = 0 =>
    /\ ~misuse
    /\ hpc = "idle"
    /\ dbst = "closed" => mpc \in {"closed", "exit"}
    /\ \A t \in DbThreads : call[t].at = "run" => call[t].h = db

\* The row the writer holds: popped, and not yet given to SQLite.
Hand ==
  {n \in 1..next :
     \/ cpc = "returned" /\ ret = n
     \/ cpc # "returned" /\ todo[Bg] = <<Insert(n)>> /\ call[Bg].at # "check"}
Lost == dropped \cup failed \cup rolledback
Written == Rows(stored \o pending)

Fate ==
  /\ popped \in Seq(1..MaxRows)
  /\ pending \in Seq(1..MaxRows) /\ stored \in Seq(1..MaxRows)
  /\ dropped \in SUBSET (1..MaxRows) /\ failed \in SUBSET (1..MaxRows)
  /\ rolledback \in SUBSET (1..MaxRows)
  /\ \A n \in Lost \cup Written : n <= next
  /\ Increasing(stored \o pending)
  /\ \A n \in Hand : n \notin Lost /\ \A m \in Written : m < n
  /\ head # 0 => /\ head \notin Lost
                 /\ \A n \in Written \cup Hand : n < head
  /\ Lost \cap Written = {}
  /\ dropped \cap failed = {} /\ rolledback \cap (dropped \cup failed) = {}
  /\ \A n \in 1..next : n \in Lost \cup Written \cup Hand \cup {head}
  /\ ~txn => pending = <<>>
  /\ autocommit => ~txn /\ rolledback = {}

SqliteIInv == Types /\ Flags /\ Stmts /\ Control /\ Handle /\ Fate

-----------------------------------------------------------------------------
(* Scripts.                                                                *)

\* What is left of a script holds no INSERT.
LEMMA ScriptTail ==
  ASSUME NEW t, NEW s, NEW a \in BOOLEAN, NEW n \in Nat,
         Script(t, s, a, n), s # <<>>
  PROVE  Tail(s) \in Seq(Plain(a))
<1>1. CASE s \in Seq(Plain(a))
  BY <1>1
<1>2. CASE \E m \in 1..n : s = <<Insert(m)>>
  <2>1. Tail(s) = <<>> /\ <<>> \in Seq(Plain(a))
    BY <1>2
  <2>2. QED
    BY <2>1, Zenon
<1>3. QED
  BY <1>1, <1>2 DEF Script

\* A flush puts statements in front of a script.
LEMMA ScriptPush ==
  ASSUME NEW a, NEW s \in Seq(Plain(a)), NEW x \in Plain(a), NEW y \in Plain(a)
  PROVE  <<x>> \o s \in Seq(Plain(a)) /\ <<x, y>> \o s \in Seq(Plain(a))
<1>1. <<x>> \in Seq(Plain(a)) /\ <<x, y>> \in Seq(Plain(a))
  OBVIOUS
<1>2. QED
  BY <1>1

\* A script stays one when a row is pushed.
LEMMA ScriptMore ==
  ASSUME NEW t, NEW s, NEW a, NEW n \in Nat, Script(t, s, a, n)
  PROVE  Script(t, s, a, n + 1)
<1>1. \A m \in 1..n : m \in 1..(n + 1)
  OBVIOUS
<1>2. QED
  BY <1>1 DEF Script

\* The statements of db_open and db_flush are no INSERTs.
LEMMA PlainHas ==
  ASSUME NEW a \in BOOLEAN
  PROVE  /\ Sql("CREATE") \in Plain(a) /\ Sql("FLUSH") \in Plain(a)
         /\ ~a => Sql("COMMIT") \in Plain(a) /\ Sql("BEGIN") \in Plain(a)
         /\ OpenScript \in Seq(Plain(a))
<1>1. /\ Sql("CREATE") \in Plain(a) /\ Sql("FLUSH") \in Plain(a)
      /\ ~a => Sql("COMMIT") \in Plain(a) /\ Sql("BEGIN") \in Plain(a)
  BY DEF Plain, Sql
<1>2. QED
  BY <1>1 DEF OpenScript

\* One thread's script changes.
LEMMA TodoExcept ==
  ASSUME Types, Stmts, NEW t \in DbThreads, NEW s,
         todo' = [todo EXCEPT ![t] = s]
  PROVE  /\ todo' = [u \in DbThreads |-> todo'[u]]
         /\ todo'[t] = s
         /\ \A u \in DbThreads : u # t => todo'[u] = todo[u]
BY DEF Types, Stmts

\* A thread that has something to run ends a call of db_exec or db_flush.
LEMMA ScriptStep ==
  ASSUME Types, Stmts, NEW t \in DbThreads, NEW s,
         todo[t] # <<>>, Script(t, s, autocommit, next),
         todo' = [todo EXCEPT ![t] = s],
         call'[t].at = "enter",
         \A u \in DbThreads : u # t => call'[u] = call[u],
         UNCHANGED <<autocommit, next, cpc, hpc, mpc>>
  PROVE  Stmts'
<1>1. /\ todo' = [u \in DbThreads |-> todo'[u]]
      /\ todo'[t] = s
      /\ \A u \in DbThreads : u # t => todo'[u] = todo[u]
  BY TodoExcept, Zenon
<1>2. \A u \in DbThreads : Script(u, todo'[u], autocommit', next')
  BY <1>1 DEF Stmts
<1>3. \A u \in DbThreads :
        call'[u].at # "enter" => todo'[u] # <<>> /\ Head(todo'[u]).op # "FLUSH"
  BY <1>1 DEF Stmts
<1>4. /\ cpc' # "exec" => todo'[Bg] = <<>>
      /\ hpc' \in {"close", "open"} => todo'[Main] = <<>>
      /\ mpc' \in {"start", "open"} => todo'[Main] = <<>>
      /\ Serving' /\ hpc' = "idle" => todo'[Main] = <<>>
  BY <1>1, SqliteAssumption DEF Stmts, Serving, DbThreads
<1>5. QED
  BY <1>1, <1>2, <1>3, <1>4 DEF Stmts

\* The statement a thread runs.
LEMMA Statement ==
  ASSUME Types, Flags, Stmts, NEW t \in DbThreads, todo[t] # <<>>
  PROVE  \/ /\ todo[t] \in Seq(Plain(autocommit))
            /\ Head(todo[t]) \in Plain(autocommit)
         \/ /\ t = Bg
            /\ \E n \in 1..next :
                 todo[t] = <<Insert(n)>> /\ Head(todo[t]) = Insert(n)
<1>1. CASE todo[t] \in Seq(Plain(autocommit))
  BY <1>1
<1>2. CASE t = Bg /\ \E m \in 1..next : todo[t] = <<Insert(m)>>
  BY <1>2
<1>3. QED
  BY <1>1, <1>2 DEF Stmts, Script

\* What db_exec and db_flush leave to run.
LEMMA ReturnScript ==
  ASSUME Types, Flags, Stmts, NEW t \in DbThreads,
         db_exec_fails(t) \/ db_exec_check(t) \/ db_flush(t)
  PROVE  /\ todo[t] # <<>>
         /\ \E s \in Seq(Plain(autocommit)) : todo' = [todo EXCEPT ![t] = s]
         /\ call'[t].at = "enter"
         /\ \A u \in DbThreads : u # t => call'[u] = call[u]
         /\ UNCHANGED <<autocommit, next, cpc, ret, hpc, mpc>>
<1> DEFINE s == Tail(todo[t])
<1>1. todo[t] # <<>>
  BY DEF db_exec_fails, db_exec_check, db_flush, Stmts
<1>2. s \in Seq(Plain(autocommit))
  BY <1>1, ScriptTail DEF Stmts, Types, Flags
<1>3. /\ <<Sql("FLUSH")>> \o s \in Seq(Plain(autocommit))
      /\ ~autocommit => /\ <<Sql("BEGIN")>> \o s \in Seq(Plain(autocommit))
                        /\ <<Sql("COMMIT"), Sql("BEGIN")>> \o s
                             \in Seq(Plain(autocommit))
  BY <1>2, ScriptPush, PlainHas DEF Flags
<1>4. CASE db_exec_fails(t)
  BY <1>1, <1>2, <1>4, Zenon DEF db_exec_fails, SqliteRefuses, SqliteRollsBack,
     SqliteMisuse, NoCall, Types, fifoVars, runVars, ctlVars, conf
<1>5. CASE db_exec_check(t)
  BY <1>1, <1>2, <1>3, <1>5, Zenon DEF db_exec_check, NoCall, Types, fifoVars,
     runVars, ctlVars, conf
<1>6. CASE db_flush(t)
  <2>1. \E r \in Seq(Plain(autocommit)) : todo' = [todo EXCEPT ![t] = r]
    BY <1>2, <1>3, <1>6, Zenon DEF db_flush, Flags
  <2>2. call[t].at = "enter"
    BY <1>6 DEF db_flush, Stmts
  <2>3. QED
    BY <1>1, <1>6, <2>1, <2>2, Zenon DEF db_flush, fifoVars, runVars, ctlVars,
       conf
<1>7. QED
  BY <1>4, <1>5, <1>6

-----------------------------------------------------------------------------
(* The steps.                                                              *)

\* Steps of Main and of the writer that change no script, row or connection.
MainMoves ==
  \/ exits_early \/ bg_thread_stop \/ bg_thread_join \/ main_returns
  \/ rotate_lock \/ rotate_unlock
BgMoves ==
  \/ bg_thread_begins \/ bg_thread_tests \/ bg_thread_frees
  \/ fifo_wait_signal /\ UNCHANGED <<dbVars, runVars, ctlVars, misuse>>

\* Next, as the proofs below split it.
LEMMA NextSteps ==
  ASSUME Next \/ UNCHANGED vars
  PROVE  \/ MainMoves \/ BgMoves
         \/ bg_thread_start \/ logsqlite_init \/ fork_and_close_parent
         \/ logsqlite_stop \/ rotate_close \/ rotate_open \/ bg_thread_got
         \/ fifo_pop /\ UNCHANGED <<dbVars, runVars, ctlVars, misuse>>
         \/ \E p \in Producers : logsqlite_log(p) \/ logsqlite_log_signals(p)
         \/ \E t \in DbThreads :
              \/ db_exec_load(t) \/ db_exec_count(t) \/ db_exec_runs(t)
              \/ db_exec_fails(t) \/ db_exec_check(t) \/ db_flush(t)
         \/ UNCHANGED vars
BY DEF Next, MainStep, BgStep, DbStep, Gone, MainMoves, BgMoves, DbThreads

\* What those steps leave alone.
LEMMA MovesFrame ==
  ASSUME MainMoves \/ BgMoves
  PROVE  /\ UNCHANGED <<next, head, tail, ppc, ret, popped, dropped, dbVars,
                        runVars, misuse>>
         /\ \/ cpc' = cpc
            \/ cpc # "returned" /\ cpc' # "returned" /\ cpc' \in BgPC
<1>1. CASE MainMoves
  <2>1. CASE exits_early
    BY <2>1 DEF exits_early, fifoVars
  <2>2. CASE bg_thread_stop
    BY <2>2 DEF bg_thread_stop, fifoVars
  <2>3. CASE bg_thread_join
    BY <2>3 DEF bg_thread_join, fifoVars
  <2>4. CASE main_returns
    BY <2>4 DEF main_returns, fifoVars
  <2>5. CASE rotate_lock
    BY <2>5 DEF rotate_lock, CanRotate, fifo_lock, fifoVars
  <2>6. CASE rotate_unlock
    BY <2>6 DEF rotate_unlock, fifo_unlock, fifoVars
  <2>7. QED
    BY <1>1, <2>1, <2>2, <2>3, <2>4, <2>5, <2>6, Zenon DEF MainMoves
<1>2. CASE BgMoves
  <2>1. CASE bg_thread_begins
    BY <2>1 DEF bg_thread_begins, BgPC, ConsumerPC
  <2>2. CASE bg_thread_tests
    BY <2>2 DEF bg_thread_tests, BgPC, ConsumerPC
  <2>3. CASE bg_thread_frees
    BY <2>3 DEF bg_thread_frees, BgPC, ConsumerPC
  <2>4. CASE fifo_wait_signal /\ UNCHANGED <<dbVars, runVars, ctlVars, misuse>>
    BY <2>4 DEF fifo_wait_signal, fifo_wait_lock,
       fifo_wait_block, fifo_wait_timeout, fifo_wait_return, BgPC, ConsumerPC
  <2>5. QED
    BY <1>2, <2>1, <2>2, <2>3, <2>4, Zenon DEF BgMoves
<1>3. QED
  BY <1>1, <1>2

-----------------------------------------------------------------------------
(* The fate of the rows.                                                   *)

\* Where Written comes from.
LEMMA WrittenParts ==
  ASSUME Fate
  PROVE  /\ stored \o pending \in Seq(RowSet)
         /\ Written = Rows(stored) \cup Rows(pending)
         /\ Rows(stored) \cap Rows(pending) = {}
         /\ Increasing(stored)
         /\ Written \subseteq RowSet
<1>1. stored \in Seq(RowSet) /\ pending \in Seq(RowSet)
  BY DEF Fate, RowSet
<1>2. /\ stored \o pending \in Seq(RowSet)
      /\ Written = Rows(stored) \cup Rows(pending)
      /\ Rows(stored) \cap Rows(pending) = {}
      /\ Increasing(stored)
  BY <1>1, RowsConcat, IncreasingParts DEF Fate, Written
<1>3. Written \subseteq RowSet
  BY <1>2 DEF Written, Rows
<1>4. QED
  BY <1>2, <1>3

\* Rows in hand fail, and nothing else happens to a row.
LEMMA FateFails ==
  ASSUME Types, Fate, NEW S \in SUBSET Hand, Hand' = Hand \ S,
         failed' = failed \cup S,
         UNCHANGED <<next, head, popped, dropped, rolledback, stored, pending,
                     txn, autocommit>>
  PROVE  Fate'
<1>1. Written' = Written /\ Lost' = Lost \cup S
  BY DEF Written, Lost
<1>2. Hand \subseteq 1..next /\ 1..next \subseteq 1..MaxRows
  BY FifoAssumption DEF Hand, Types
<1>3. /\ \A n \in Lost' \cup Written' : n <= next'
      /\ Lost' \cap Written' = {}
      /\ dropped' \cap failed' = {}
      /\ rolledback' \cap (dropped' \cup failed') = {}
      /\ failed' \in SUBSET (1..MaxRows)
  <2>1. S \subseteq 1..MaxRows /\ \A n \in S : n <= next
    BY <1>2 DEF Types
  <2>2. S \cap Lost = {}
    BY DEF Fate
  <2>3. S \cap Written = {}
    <3>1. \A n \in S : n \in Nat /\ ~(n < n)
      BY <2>1
    <3>2. QED
      BY <3>1, Zenon DEF Fate
  <2>4. QED
    BY <1>1, <2>1, <2>2, <2>3 DEF Fate, Lost
<1>4. /\ \A n \in Hand' : n \notin Lost' /\ \A m \in Written' : m < n
      /\ head' # 0 => /\ head' \notin Lost'
                      /\ \A n \in Written' \cup Hand' : n < head'
  BY <1>1, <1>2 DEF Fate, Types
<1>5. \A n \in 1..next' : n \in Lost' \cup Written' \cup Hand' \cup {head'}
  BY <1>1 DEF Fate
<1>6. QED
  BY <1>3, <1>4, <1>5 DEF Fate

\* The open transaction is rolled back, and rows in hand may fail.
LEMMA FateRollsBack ==
  ASSUME Types, Fate, NEW S \in SUBSET Hand, Hand' = Hand \ S,
         failed' = failed \cup S,
         ~txn', pending' = <<>>, rolledback' = rolledback \cup Rows(pending),
         UNCHANGED <<next, head, popped, dropped, stored, autocommit>>
  PROVE  Fate'
<1>1. /\ Written = Rows(stored) \cup Rows(pending)
      /\ Rows(stored) \cap Rows(pending) = {}
      /\ Increasing(stored) /\ Written \subseteq 1..MaxRows
  BY WrittenParts DEF RowSet
<1>2. stored' \o pending' = stored
  BY ConcatEmpty DEF Fate, RowSet
<1>3. Written' = Rows(stored) /\ Lost' = Lost \cup Rows(pending) \cup S
  BY <1>2 DEF Written, Lost
<1>4. Increasing(stored' \o pending') /\ pending' \in Seq(1..MaxRows)
  BY <1>1, <1>2
<1>5. autocommit => Rows(pending) = {}
  BY RowsEmpty DEF Fate
<1>6. /\ Hand \subseteq 1..MaxRows
      /\ \A n \in Hand : n \in Nat /\ ~(n < n) /\ n <= next
      /\ head \in Nat /\ ~(head < head)
  BY FifoAssumption DEF Hand, Types
<1>7. /\ Hand \cap Written = {} /\ Hand \cap Lost = {}
      /\ head # 0 => head \notin Rows(pending) /\ head \notin S
  BY <1>1, <1>6, Zenon DEF Fate
<1>8. /\ \A n \in Lost' \cup Written' : n <= next'
      /\ Lost' \cap Written' = {}
      /\ dropped' \cap failed' = {}
      /\ rolledback' \cap (dropped' \cup failed') = {}
      /\ rolledback' \in SUBSET (1..MaxRows) /\ failed' \in SUBSET (1..MaxRows)
  <2>1. \A n \in Lost' \cup Written' : n <= next'
    BY <1>1, <1>3, <1>6, Zenon DEF Fate
  <2>2. Lost' \cap Written' = {}
    BY <1>1, <1>3, <1>7, Zenon DEF Fate
  <2>3. dropped' \cap failed' = {}
    BY <1>7, Zenon DEF Fate, Lost
  <2>4. rolledback' \cap (dropped' \cup failed') = {}
    BY <1>1, <1>7, Zenon DEF Fate, Lost
  <2>5. rolledback' \in SUBSET (1..MaxRows) /\ failed' \in SUBSET (1..MaxRows)
    BY <1>1, <1>6, Zenon DEF Fate
  <2>6. QED
    BY <2>1, <2>2, <2>3, <2>4, <2>5
<1>9. /\ \A n \in Hand' : n \notin Lost' /\ \A m \in Written' : m < n
      /\ head' # 0 => /\ head' \notin Lost'
                      /\ \A n \in Written' \cup Hand' : n < head'
      /\ \A n \in 1..next' : n \in Lost' \cup Written' \cup Hand' \cup {head'}
  BY <1>1, <1>3, <1>7 DEF Fate
<1>10. autocommit' => ~txn' /\ rolledback' = {}
  BY <1>5, Zenon DEF Fate
<1>11. QED
  BY <1>4, <1>8, <1>9, <1>10 DEF Fate

\* The row in hand is written, and nothing else happens to a row.
LEMMA FateWrites ==
  ASSUME Types, Fate, NEW n \in 1..next, Hand = {n}, Hand' = {},
         \/ txn /\ pending' = Append(pending, n) /\ stored' = stored
         \/ ~txn /\ pending' = pending /\ stored' = Append(stored, n),
         UNCHANGED <<next, head, popped, dropped, failed, rolledback, txn,
                     autocommit>>
  PROVE  Fate'
<1>1. /\ stored \in Seq(RowSet) /\ pending \in Seq(RowSet) /\ n \in RowSet
      /\ stored \o pending \in Seq(RowSet)
  BY WrittenParts, FifoAssumption DEF Fate, RowSet, Types
<1>2. stored' \o pending' = Append(stored \o pending, n)
  <2>1. CASE txn /\ pending' = Append(pending, n) /\ stored' = stored
    BY <1>1, <2>1, ConcatAppend
  <2>2. CASE ~txn /\ pending' = pending /\ stored' = Append(stored, n)
    BY <1>1, <2>2, ConcatEmpty, RowsAppend DEF Fate
  <2>3. QED
    BY <2>1, <2>2
<1>3. Written' = Written \cup {n} /\ Lost' = Lost
  BY <1>1, <1>2, RowsAppend, Zenon DEF Written, Lost
<1>4. Increasing(stored' \o pending')
  <2>1. /\ Increasing(stored \o pending)
        /\ \A m \in Rows(stored \o pending) : m < n
    BY DEF Fate, Written
  <2>2. QED
    BY <1>1, <1>2, <2>1, IncreasingAppend, Zenon
<1>5. stored' \in Seq(1..MaxRows) /\ pending' \in Seq(1..MaxRows)
  BY <1>1, RowsAppend, Zenon DEF RowSet
<1>6. ~txn' => pending' = <<>>
  BY DEF Fate
<1>7. /\ \A m \in Lost' \cup Written' : m <= next'
      /\ Lost' \cap Written' = {}
      /\ head' # 0 => /\ head' \notin Lost'
                      /\ \A m \in Written' \cup Hand' : m < head'
      /\ \A m \in 1..next' : m \in Lost' \cup Written' \cup Hand' \cup {head'}
  BY <1>3 DEF Fate, Types
<1>8. QED
  BY <1>4, <1>5, <1>6, <1>7 DEF Fate

\* Nothing happens to the rows, except that a COMMIT may make them durable.
LEMMA FateQuiet ==
  ASSUME Types, Fate, Hand' = Hand,
         \/ UNCHANGED <<stored, pending>> /\ (txn' \/ txn' = txn)
         \/ stored' = stored \o pending /\ pending' = <<>>,
         autocommit => ~txn',
         UNCHANGED <<next, head, popped, dropped, failed, rolledback,
                     autocommit>>
  PROVE  Fate'
<1>1. /\ stored \in Seq(RowSet) /\ pending \in Seq(RowSet)
      /\ stored \o pending \in Seq(RowSet)
  BY WrittenParts DEF Fate, RowSet
<1>2. stored' \o pending' = stored \o pending
  BY <1>1, ConcatEmpty
<1>3. stored' \in Seq(1..MaxRows) /\ pending' \in Seq(1..MaxRows)
  <2>1. <<>> \in Seq(RowSet)
    OBVIOUS
  <2>2. QED
    BY <1>1, <2>1, Zenon DEF RowSet
<1>4. Written' = Written /\ Lost' = Lost
  BY <1>2 DEF Written, Lost
<1>5. ~txn' => pending' = <<>>
  BY DEF Fate
<1>6. QED
  BY <1>2, <1>3, <1>4, <1>5 DEF Fate

RowsSame ==
  UNCHANGED <<next, head, popped, dropped, failed, rolledback, stored, pending,
              txn, autocommit>>

\* Nothing happens to the rows.
LEMMA FateSame ==
  ASSUME Types, Fate, Hand' = Hand, RowsSame
  PROVE  Fate'
<1>1. autocommit => ~txn'
  BY DEF Fate, RowsSame
<1>2. QED
  BY <1>1, FateQuiet DEF RowsSame

\* A row is queued or dropped.
LEMMA FatePush ==
  ASSUME Types, Control, Fate, Hand' = Hand, next < MaxRows, next' = next + 1,
         \/ head = 0 /\ head' = next + 1 /\ dropped' = dropped
         \/ head' = head /\ dropped' = dropped \cup {next + 1},
         UNCHANGED <<popped, failed, rolledback, stored, pending, txn,
                     autocommit>>
  PROVE  Fate'
<1>1. Written' = Written /\ Hand \subseteq 1..next /\ Lost \subseteq 1..next
      /\ Written \subseteq 1..next
  <2>1. Written' = Written /\ Hand \subseteq 1..next
    BY DEF Written, Hand
  <2>2. \A n \in Lost \cup Written : n \in 1..MaxRows /\ n <= next
    BY WrittenParts, Zenon DEF Fate, Lost, RowSet
  <2>3. \A n \in 1..MaxRows : n <= next => n \in 1..next
    BY FifoAssumption DEF Types
  <2>4. QED
    BY <2>1, <2>2, <2>3, Zenon
<1>2. /\ next \in Nat /\ next + 1 \in 1..MaxRows /\ next + 1 \notin 1..next
      /\ \A n \in 1..(next + 1) : n \in 1..next \/ n = next + 1
  BY FifoAssumption DEF Types
<1>3. CASE head = 0 /\ head' = next + 1 /\ dropped' = dropped
  <2>1. Lost' = Lost
    BY <1>3 DEF Lost
  <2>2. \A n \in 1..next : n \in Lost \cup Written \cup Hand
    BY <1>3 DEF Fate
  <2>3. QED
    BY <1>1, <1>2, <1>3, <2>1, <2>2 DEF Fate
<1>4. CASE head' = head /\ dropped' = dropped \cup {next + 1}
  <2>1. Lost' = Lost \cup {next + 1} /\ dropped' \in SUBSET (1..MaxRows)
    BY <1>2, <1>4 DEF Lost, Fate
  <2>2. head \in Nat /\ head <= next
    BY DEF Types, Control
  <2>3. /\ \A n \in Lost' \cup Written' : n <= next'
        /\ \A n \in Hand' : n \notin Lost' /\ \A m \in Written' : m < n
        /\ Lost' \cap Written' = {}
        /\ head' # 0 => /\ head' \notin Lost'
                        /\ \A n \in Written' \cup Hand' : n < head'
    BY <1>1, <1>2, <1>4, <2>1, <2>2 DEF Fate
  <2>4. /\ dropped' \cap failed' = {}
        /\ rolledback' \cap (dropped' \cup failed') = {}
    BY <1>1, <1>2, <1>4 DEF Fate, Lost
  <2>5. \A n \in 1..next' : n \in Lost' \cup Written' \cup Hand' \cup {head'}
    BY <1>1, <1>2, <1>4, <2>1 DEF Fate
  <2>6. QED
    BY <1>1, <2>1, <2>3, <2>4, <2>5 DEF Fate, Written
<1>5. QED
  BY <1>3, <1>4

\* The queued row comes into the writer's hand.
LEMMA FatePop ==
  ASSUME Types, Control, Fate, Hand = {},
         Hand' = IF head = 0 THEN {} ELSE {head},
         head' = 0,
         popped' = IF head = 0 THEN popped ELSE Append(popped, head),
         UNCHANGED <<next, dropped, failed, rolledback, stored, pending, txn,
                     autocommit>>
  PROVE  Fate'
<1>1. Written' = Written /\ Lost' = Lost
  BY DEF Written, Lost
<1>2. popped' \in Seq(1..MaxRows)
  <2>1. CASE head = 0
    BY <2>1 DEF Fate
  <2>2. CASE head # 0
    <3>1. head \in 1..MaxRows
      BY <2>2, FifoAssumption DEF Types
    <3>2. QED
      BY <2>2, <3>1 DEF Fate
  <2>3. QED
    BY <2>1, <2>2
<1>3. 0 \notin 1..next
  OBVIOUS
<1>4. QED
  BY <1>1, <1>2, <1>3 DEF Fate

-----------------------------------------------------------------------------
(* The row in the writer's hand.                                           *)

\* A script without INSERT is not the script of an INSERT.
LEMMA NoInsert ==
  ASSUME NEW a \in BOOLEAN, NEW s \in Seq(Plain(a)), NEW n
  PROVE  s # <<Insert(n)>>
<1> SUFFICES ASSUME s = <<Insert(n)>> PROVE FALSE
  OBVIOUS
<1>1. Len(s) = 1 /\ s[1] = Insert(n)
  OBVIOUS
<1>2. s[1] \in Plain(a)
  BY <1>1
<1>3. QED
  BY <1>1, <1>2 DEF Plain, Insert

\* The hand depends on the writer only.
LEMMA HandSame ==
  ASSUME UNCHANGED <<next, ret>>, todo'[Bg] = todo[Bg],
         cpc' = cpc \/ (cpc # "returned" /\ cpc' # "returned"),
         call'[Bg].at = "check" <=> call[Bg].at = "check"
  PROVE  Hand' = Hand
BY DEF Hand

\* A writer that waits, or runs a statement that is no INSERT, holds no row.
LEMMA HandEmpty ==
  ASSUME Types, Flags, Stmts, cpc # "returned",
         todo[Bg] \in Seq(Plain(autocommit)) \/ call[Bg].at = "check"
  PROVE  Hand = {}
BY NoInsert, Zenon DEF Hand, Flags

\* A writer about to insert row n holds it.
LEMMA HandInsert ==
  ASSUME Types, Stmts, Control, NEW n \in 1..next, todo[Bg] = <<Insert(n)>>,
         call[Bg].at # "check"
  PROVE  Hand = {n} /\ cpc = "exec"
<1>1. cpc = "exec"
  BY DEF Stmts
<1>2. \A m \in 1..next : <<Insert(m)>> = <<Insert(n)>> => m = n
  BY DEF Insert
<1>3. QED
  BY <1>1, <1>2 DEF Hand

\* After the step the writer holds no row.
LEMMA HandNone ==
  ASSUME NEW a \in BOOLEAN, cpc' # "returned",
         todo'[Bg] \in Seq(Plain(a)) \/ call'[Bg].at = "check"
  PROVE  Hand' = {}
BY NoInsert, Zenon DEF Hand

\* A call that returns and did not run an INSERT leaves the hand as it is.
LEMMA HandReturn ==
  ASSUME Types, Flags, Stmts, NEW t \in DbThreads,
         \/ db_exec_fails(t) /\ todo[t] \in Seq(Plain(autocommit))
         \/ db_exec_check(t) \/ db_flush(t)
  PROVE  Hand' = Hand
<1>1. PICK s \in Seq(Plain(autocommit)) : todo' = [todo EXCEPT ![t] = s]
  BY ReturnScript
<1>2. /\ todo[t] # <<>> /\ UNCHANGED <<next, ret, cpc>>
      /\ call'[t].at = "enter"
      /\ \A u \in DbThreads : u # t => call'[u] = call[u]
  BY ReturnScript
<1>3. CASE t = Main
  <2>1. todo'[Bg] = todo[Bg] /\ call'[Bg] = call[Bg]
    BY <1>1, <1>2, <1>3, SqliteAssumption DEF Types, DbThreads
  <2>2. QED
    BY <1>2, <2>1, HandSame
<1>4. CASE t = Bg
  <2>1. cpc # "returned"
    BY <1>2, <1>4 DEF Stmts
  <2>2. todo[Bg] \in Seq(Plain(autocommit)) \/ call[Bg].at = "check"
    <3>1. CASE db_flush(t)
      <4>1. Head(todo[t]).op = "FLUSH"
        BY <3>1 DEF db_flush
      <4>2. \A n : Insert(n).op # "FLUSH"
        BY DEF Insert
      <4>3. QED
        BY <1>2, <1>4, <4>1, <4>2, Statement
    <3>2. QED
      BY <1>4, <3>1 DEF db_exec_check
  <2>3. Hand = {}
    BY <2>1, <2>2, HandEmpty
  <2>4. todo'[Bg] = s
    BY <1>1, <1>4 DEF Types
  <2>5. QED
    BY <1>2, <2>1, <2>3, <2>4, HandNone DEF Flags
<1>5. QED
  BY <1>3, <1>4 DEF DbThreads

-----------------------------------------------------------------------------
(* When rows wait for a COMMIT.                                            *)

\* The stages of the thread that runs the statements between two flushes: s is
\* what it has to run, the first of which is at `at' in db_exec; k is the
\* counter, N the number of rows waiting and tx whether a transaction is open.
Inserts == {<<Insert(m)>> : m \in 1..MaxRows}
Flush == <<Sql("FLUSH")>>
Commit == <<Sql("COMMIT"), Sql("BEGIN")>>
Begin == <<Sql("BEGIN")>>
Create == <<Sql("CREATE"), Sql("FLUSH")>>

\* The statements counted before the current one.
Counted(at, k) == IF at \in {"run", "check"} THEN k - 1 ELSE k

Idle(s, at, k, N, tx) ==
  s = <<>> /\ at = "enter" /\ tx /\ N + 2 <= k /\ k < FlushEvery
Inserting(s, at, k, N, tx) ==
  /\ s \in Inserts /\ tx /\ Counted(at, k) < FlushEvery
  /\ N + (IF at = "check" THEN 1 ELSE 2) <= Counted(at, k)
Flushing(s, at, k, N, tx) ==
  /\ s = Flush /\ at = "enter"
  /\ IF tx THEN k = 0 /\ N + 2 <= FlushEvery ELSE k = 2 /\ N = 0
Committing(s, at, k, N, tx) ==
  /\ s = Commit /\ Counted(at, k) = 0 /\ N + 2 <= FlushEvery
  /\ IF at = "check" THEN ~tx /\ N = 0 ELSE tx
Beginning(s, at, k, N, tx) ==
  /\ s = Begin /\ Counted(at, k) \in {1, 2} /\ N = 0
  /\ tx <=> at = "check"
Creating(s, at, k, N, tx) ==
  /\ \/ s = OpenScript /\ Counted(at, k) = 0
     \/ s = Create /\ Counted(at, k) = 1
  /\ N = 0 /\ ~tx

Stage(s, at, k, N, tx) ==
  \/ Idle(s, at, k, N, tx) \/ Inserting(s, at, k, N, tx)
  \/ Flushing(s, at, k, N, tx) \/ Committing(s, at, k, N, tx)
  \/ Beginning(s, at, k, N, tx) \/ Creating(s, at, k, N, tx)

\* Thread t has the database to itself, and is at such a stage.
Running(t) ==
  /\ dbst = "open"
  /\ Stage(todo[t], call[t].at, counter, Len(pending), txn)
  /\ call[t].at = "count" => call[t].c = counter

\* As long as nothing failed or rotated, with autocommit=0: Main opens the
\* database, then the writer has it to itself.
Quiet == faults = 0 /\ rotations = 0 /\ ~autocommit
Flushes ==
  Quiet =>
    /\ mpc \in {"start", "open"} => counter = 0 /\ pending = <<>> /\ ~txn
    /\ mpc = "opening" => pending = <<>> /\ Running(Main)
    /\ mpc \in {"serving", "join", "close"} => Running(Bg)
    /\ mpc \in {"closed", "exit"} => pending = <<>>

\* The statements of the stages.
LEMMA StageScripts ==
  /\ \A s \in Inserts : s # <<>> /\ Head(s).op = "INSERT" /\ Tail(s) = <<>>
  /\ Flush # <<>> /\ Head(Flush).op = "FLUSH" /\ Tail(Flush) = <<>>
  /\ Commit # <<>> /\ Head(Commit).op = "COMMIT" /\ Tail(Commit) = Begin
  /\ Begin # <<>> /\ Head(Begin).op = "BEGIN" /\ Tail(Begin) = <<>>
  /\ Create # <<>> /\ Head(Create).op = "CREATE" /\ Tail(Create) = Flush
  /\ OpenScript # <<>> /\ Head(OpenScript).op = "CREATE"
  /\ Tail(OpenScript) = Create
  /\ Flush \o <<>> = Flush /\ Begin \o <<>> = Begin /\ Commit \o <<>> = Commit
<1>1. \A op : Sql(op).op = op
  BY DEF Sql
<1>2. \A s \in Inserts : s # <<>> /\ Head(s).op = "INSERT" /\ Tail(s) = <<>>
  <2> SUFFICES ASSUME NEW m \in 1..MaxRows, NEW s, s = <<Insert(m)>>
               PROVE  s # <<>> /\ Head(s).op = "INSERT" /\ Tail(s) = <<>>
    BY DEF Inserts
  <2> QED
    BY DEF Insert
<1>3. /\ Flush # <<>> /\ Head(Flush).op = "FLUSH" /\ Tail(Flush) = <<>>
      /\ Begin # <<>> /\ Head(Begin).op = "BEGIN" /\ Tail(Begin) = <<>>
  BY <1>1 DEF Flush, Begin
<1>4. /\ Commit # <<>> /\ Head(Commit).op = "COMMIT" /\ Tail(Commit) = Begin
      /\ Create # <<>> /\ Head(Create).op = "CREATE" /\ Tail(Create) = Flush
  BY <1>1 DEF Commit, Create, Begin, Flush
<1>5. /\ OpenScript # <<>> /\ Head(OpenScript).op = "CREATE"
      /\ Tail(OpenScript) = Create
  BY <1>1 DEF OpenScript, Create
<1>6. Flush \o <<>> = Flush /\ Begin \o <<>> = Begin /\ Commit \o <<>> = Commit
  BY DEF Flush, Begin, Commit
<1> QED
  BY <1>2, <1>3, <1>4, <1>5, <1>6

\* db_exec is entered, and counts.
LEMMA StageCounts ==
  ASSUME NEW s, NEW k \in Nat, NEW N \in Nat, NEW tx \in BOOLEAN
  PROVE  /\ Stage(s, "enter", k, N, tx) /\ s # <<>> /\ Head(s).op # "FLUSH"
              => Stage(s, "count", k, N, tx)
         /\ Stage(s, "count", k, N, tx) => Stage(s, "run", k + 1, N, tx)
<1> USE DEF Stage, Idle, Inserting, Flushing, Committing, Beginning, Creating,
        Counted
<1>1. Stage(s, "enter", k, N, tx) /\ s # <<>> /\ Head(s).op # "FLUSH"
        => Stage(s, "count", k, N, tx)
  BY StageScripts
<1>2. Stage(s, "count", k, N, tx) => Stage(s, "run", k + 1, N, tx)
  OBVIOUS
<1> QED
  BY <1>1, <1>2

\* A statement is run: none is refused, as BEGIN and COMMIT alternate.
LEMMA StageRuns ==
  ASSUME NEW s, NEW k \in Nat, NEW N \in Nat, NEW tx \in BOOLEAN,
         Stage(s, "run", k, N, tx)
  PROVE  /\ Head(s).op = "INSERT" => tx /\ Stage(s, "check", k, N + 1, tx)
         /\ Head(s).op = "COMMIT" => tx /\ Stage(s, "check", k, 0, FALSE)
         /\ Head(s).op = "BEGIN" => ~tx /\ Stage(s, "check", k, N, TRUE)
         /\ Head(s).op \notin {"INSERT", "COMMIT", "BEGIN"} =>
              Stage(s, "check", k, N, tx)
<1> USE DEF Stage, Counted
<1>1. CASE Inserting(s, "run", k, N, tx)
  <2>1. Head(s).op = "INSERT"
    BY <1>1, StageScripts DEF Inserting
  <2>2. tx /\ Inserting(s, "check", k, N + 1, tx)
    BY <1>1 DEF Inserting
  <2> QED
    BY <2>1, <2>2
<1>2. CASE Committing(s, "run", k, N, tx)
  <2>1. Head(s).op = "COMMIT"
    BY <1>2, StageScripts DEF Committing
  <2>2. tx /\ Committing(s, "check", k, 0, FALSE)
    BY <1>2, SqliteAssumption DEF Committing
  <2> QED
    BY <2>1, <2>2
<1>3. CASE Beginning(s, "run", k, N, tx)
  BY <1>3, StageScripts DEF Beginning
<1>4. CASE Creating(s, "run", k, N, tx)
  BY <1>4, StageScripts DEF Creating
<1> QED
  BY <1>1, <1>2, <1>3, <1>4 DEF Idle, Flushing

\* db_exec looks at the counter.
LEMMA StageChecks ==
  ASSUME NEW s, NEW k \in Nat, NEW N \in Nat, NEW tx \in BOOLEAN,
         Stage(s, "check", k, N, tx)
  PROVE  /\ k >= FlushEvery => Stage(Flush \o Tail(s), "enter", 0, N, tx)
         /\ k < FlushEvery => Stage(Tail(s), "enter", k, N, tx)
<1> USE DEF Stage, Counted
<1>1. CASE Inserting(s, "check", k, N, tx)
  <2>1. Tail(s) = <<>> /\ Flush \o Tail(s) = Flush
    BY <1>1, StageScripts DEF Inserting
  <2>2. /\ k >= FlushEvery => Flushing(Flush, "enter", 0, N, tx)
        /\ k < FlushEvery => Idle(<<>>, "enter", k, N, tx)
    BY <1>1, SqliteAssumption DEF Inserting, Idle, Flushing
  <2> QED
    BY <2>1, <2>2
<1>2. CASE Committing(s, "check", k, N, tx)
  BY <1>2, StageScripts, SqliteAssumption DEF Committing, Beginning
<1>3. CASE Beginning(s, "check", k, N, tx)
  <2>1. Tail(s) = <<>> /\ Flush \o Tail(s) = Flush
    BY <1>3, StageScripts DEF Beginning
  <2>2. /\ k >= FlushEvery => Flushing(Flush, "enter", 0, N, tx)
        /\ k < FlushEvery => Idle(<<>>, "enter", k, N, tx)
    BY <1>3, SqliteAssumption DEF Beginning, Idle, Flushing
  <2> QED
    BY <2>1, <2>2
<1>4. CASE Creating(s, "check", k, N, tx)
  <2>1. /\ N = 0 /\ ~tx /\ k < FlushEvery /\ ~(k >= FlushEvery)
        /\ \/ s = OpenScript /\ k = 1
           \/ s = Create /\ k = 2
    BY <1>4, SqliteAssumption DEF Creating
  <2>2. /\ s = OpenScript => Creating(Tail(s), "enter", k, N, tx)
        /\ s = Create => Flushing(Tail(s), "enter", k, N, tx)
    BY <2>1, StageScripts DEF Creating, Flushing
  <2> QED
    BY <2>1, <2>2, Zenon
<1> QED
  BY <1>1, <1>2, <1>3, <1>4 DEF Idle, Flushing

\* db_flush looks at the transaction.
LEMMA StageFlushes ==
  ASSUME NEW s, NEW at, NEW k \in Nat, NEW N \in Nat, NEW tx \in BOOLEAN,
         Stage(s, at, k, N, tx), s # <<>>, Head(s).op = "FLUSH"
  PROVE  /\ tx => Stage(Commit \o Tail(s), at, k, N, tx)
         /\ ~tx => Stage(Begin \o Tail(s), at, k, N, tx)
<1>1. Flushing(s, at, k, N, tx)
  BY StageScripts DEF Stage, Idle, Inserting, Committing, Beginning, Creating
<1> QED
  BY <1>1, StageScripts DEF Stage, Flushing, Committing, Beginning, Counted

\* Who has something to run.
LEMMA Worker ==
  ASSUME SqliteIInv, Quiet, alive, NEW t \in DbThreads, todo[t] # <<>>
  PROVE  \/ mpc = "opening" /\ t = Main
         \/ mpc \in {"serving", "join", "close"} /\ t = Bg
<1>1. hpc = "idle" /\ mpc \in MainPC /\ (t = Main \/ t = Bg)
  BY DEF SqliteIInv, Handle, Quiet, Types, DbThreads
<1>2. mpc \in {"start", "open", "opening", "closed"} => todo[Bg] = <<>>
  BY DEF SqliteIInv, Stmts, Control
<1>3. mpc \in {"start", "open", "serving", "join", "close", "closed"} =>
        todo[Main] = <<>>
  BY <1>1 DEF SqliteIInv, Stmts, Serving
<1>4. mpc # "exit"
  BY DEF SqliteIInv, Control
<1> QED
  BY <1>1, <1>2, <1>3, <1>4 DEF MainPC

\* The types the stages need.
LEMMA StageTypes ==
  ASSUME SqliteIInv
  PROVE  counter \in Nat /\ Len(pending) \in Nat /\ txn \in BOOLEAN
BY DEF SqliteIInv, Types, Flags, Fate

\* At every stage few rows wait, and fewer than the counter when idle.
LEMMA StageFew ==
  ASSUME NEW s, NEW at, NEW k \in Nat, NEW N \in Nat, NEW tx \in BOOLEAN,
         Stage(s, at, k, N, tx)
  PROVE  N + 2 <= FlushEvery /\ (s = <<>> => N < k)
<1>1. s = <<>> => Idle(s, at, k, N, tx)
  BY StageScripts DEF Stage, Inserting, Flushing, Committing, Beginning, Creating
<1>2. s = <<>> => N < k
  BY <1>1 DEF Idle
<1> USE SqliteAssumption DEF Counted
<1>3. Inserting(s, at, k, N, tx) => N + 2 <= FlushEvery
  BY DEF Inserting
<1>4. Idle(s, at, k, N, tx) \/ Flushing(s, at, k, N, tx) => N + 2 <= FlushEvery
  BY DEF Idle, Flushing
<1>5. Committing(s, at, k, N, tx) => N + 2 <= FlushEvery
  BY Zenon DEF Committing
<1>6. Beginning(s, at, k, N, tx) \/ Creating(s, at, k, N, tx) => N = 0
  BY Zenon DEF Beginning, Creating
<1> QED
  BY <1>2, <1>3, <1>4, <1>5, <1>6 DEF Stage

=============================================================================
