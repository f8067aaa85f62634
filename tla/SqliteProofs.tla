---------------------------- MODULE SqliteProofs ----------------------------
(***************************************************************************)
(* The SQLite back end, for any number of producers, rows, rotations and   *)
(* faults, any FlushEvery and both commit modes: its invariant, the safety *)
(* properties that follow from it, and that it implements the lossy,       *)
(* ordered log of RowLog.                                                  *)
(*                                                                         *)
(* A step does one of seven things to the rows (the Fate lemmas of         *)
(* QueueProofs); which one depends on the row in the writer's hand.        *)
(***************************************************************************)
EXTENDS SqliteControlProofs, TLAPS

-----------------------------------------------------------------------------
(* The fate of the rows.                                                   *)

\* What each action does to the rows.
LEMMA FateStep ==
  ASSUME Types, Flags, Stmts, Control, Fate, Next \/ UNCHANGED vars
  PROVE  Fate'
<1>1. CASE MainMoves
  <2>1. RowsSame
    BY <1>1, MovesFrame DEF RowsSame, dbVars, runVars, conf
  <2>2. Hand' = Hand
    BY <1>1, MovesFrame, HandSame DEF runVars
  <2>3. QED
    BY <2>1, <2>2, FateSame, Zenon
<1>2. CASE BgMoves
  <2>1. RowsSame
    BY <1>2, MovesFrame DEF RowsSame, dbVars, runVars, conf
  <2>2. Hand' = Hand
    BY <1>2, MovesFrame, HandSame DEF runVars
  <2>3. QED
    BY <2>1, <2>2, FateSame, Zenon
<1>3. CASE bg_thread_start
  <2>1. RowsSame
    BY <1>3 DEF bg_thread_start, RowsSame, dbVars, runVars, conf
  <2>2. next = 0 /\ next' = 0
    BY <1>3 DEF bg_thread_start, Control
  <2>3. Hand' = {} /\ Hand = {}
    BY <2>2 DEF Hand
  <2>4. QED
    BY <2>1, <2>3, FateSame, Zenon
<1>4. CASE logsqlite_init
  <2>1. RowsSame
    BY <1>4 DEF logsqlite_init, db_open, RowsSame, fifoVars, conf
  <2>2. UNCHANGED <<next, ret, cpc, call>>
    BY <1>4 DEF logsqlite_init, fifoVars
  <2>3. todo'[Bg] = todo[Bg]
    BY <1>4, SqliteAssumption DEF logsqlite_init, db_open, Types, DbThreads
  <2>4. Hand' = Hand
    BY <2>2, <2>3, HandSame, Zenon
  <2>5. QED
    BY <2>1, <2>4, FateSame, Zenon
<1>5. CASE fork_and_close_parent
  <2>1. RowsSame
    BY <1>5 DEF fork_and_close_parent, RowsSame, dbVars, runVars, conf
  <2>2. next = 0 /\ next' = 0
    BY <1>5 DEF fork_and_close_parent, Control
  <2>3. Hand' = {} /\ Hand = {}
    BY <2>2 DEF Hand
  <2>4. QED
    BY <2>1, <2>3, FateSame, Zenon
<1>6. CASE logsqlite_stop
  <2>1. /\ UNCHANGED <<next, head, popped, dropped, failed, stored,
                        autocommit>>
        /\ ~txn' /\ pending' = <<>>
        /\ rolledback' = rolledback \cup Rows(pending)
    BY <1>6 DEF logsqlite_stop, db_close, runVars, conf
  <2>2. UNCHANGED <<next, ret, cpc, call, todo>>
    BY <1>6 DEF logsqlite_stop, runVars
  <2>3. Hand' = Hand
    BY <2>2, HandSame, Zenon
  <2>4. Hand' = Hand \ {} /\ failed' = failed \cup {} /\ {} \in SUBSET Hand
    BY <2>1, <2>3
  <2>5. QED
    BY <2>1, <2>4, FateRollsBack, Zenon
<1>7. CASE rotate_close
  <2>1. /\ UNCHANGED <<next, head, popped, dropped, failed, stored,
                        autocommit>>
        /\ ~txn' /\ pending' = <<>>
        /\ rolledback' = rolledback \cup Rows(pending)
    BY <1>7 DEF rotate_close, db_close, runVars, conf
  <2>2. UNCHANGED <<next, ret, cpc, call, todo>>
    BY <1>7 DEF rotate_close, runVars
  <2>3. Hand' = Hand
    BY <2>2, HandSame, Zenon
  <2>4. Hand' = Hand \ {} /\ failed' = failed \cup {} /\ {} \in SUBSET Hand
    BY <2>1, <2>3
  <2>5. QED
    BY <2>1, <2>4, FateRollsBack, Zenon
<1>8. CASE rotate_open
  <2>1. RowsSame
    BY <1>8 DEF rotate_open, db_open, RowsSame, fifoVars, conf
  <2>2. UNCHANGED <<next, ret, cpc, call>>
    BY <1>8 DEF rotate_open, fifoVars
  <2>3. todo'[Bg] = todo[Bg]
    BY <1>8, SqliteAssumption DEF rotate_open, db_open, Types, DbThreads
  <2>4. Hand' = Hand
    BY <2>2, <2>3, HandSame, Zenon
  <2>5. QED
    BY <2>1, <2>4, FateSame, Zenon
<1>9. CASE bg_thread_got
  <2>5. RowsSame
    BY <1>9 DEF bg_thread_got, RowsSame, fifoVars, dbVars, runVars, conf
  <2>1. ret \in 0..next /\ next' = next /\ DOMAIN todo = DbThreads
    BY <1>9 DEF Types, Control, bg_thread_got, fifoVars
  <2>2. CASE ret = 0
    <3>1. /\ cpc = "returned" /\ cpc' = "test" /\ todo'[Bg] = <<>>
      BY <1>9, <2>1, <2>2 DEF bg_thread_got, NULL, DbThreads
    <3>2. \A n : <<>> # <<Insert(n)>>
      OBVIOUS
    <3>3. Hand = {} /\ Hand' = {}
      BY <2>2, <3>1, <3>2 DEF Hand
    <3>4. QED
      BY <2>5, <3>3, FateSame, Zenon
  <2>3. CASE ret # 0
    <3>1. /\ cpc = "returned" /\ cpc' = "exec" /\ todo'[Bg] = <<Insert(ret)>>
          /\ call' = call
      BY <1>9, <2>1, <2>3 DEF bg_thread_got, NULL, DbThreads, runVars
    <3>2. call[Bg].at = "enter"
      BY <3>1 DEF Stmts, DbThreads
    <3>3. \A n : <<Insert(n)>> = <<Insert(ret)>> => n = ret
      BY DEF Insert
    <3>4. Hand = {ret} /\ Hand' = {ret}
      BY <2>1, <2>3, <3>1, <3>2, <3>3 DEF Hand
    <3>5. QED
      BY <2>5, <3>4, FateSame, Zenon
  <2>4. QED
    BY <2>2, <2>3
<1>10. CASE fifo_pop /\ UNCHANGED <<dbVars, runVars, ctlVars, misuse>>
  <2>1. cpc = "pop" /\ todo[Bg] = <<>> /\ todo' = todo
    BY <1>10 DEF fifo_pop, Stmts, runVars
  <2>2. Hand = {}
    BY <2>1, HandEmpty
  <2>3. /\ head' = 0 /\ ret' = head /\ cpc' = "returned" /\ next' = next
        /\ popped' = IF head = 0 THEN popped ELSE Append(popped, head)
    BY <1>10 DEF fifo_pop, NULL, Control
  <2>4. Hand' = IF head = 0 THEN {} ELSE {head}
    BY <2>3 DEF Hand, Types, Control
  <2>5. UNCHANGED <<next, dropped, failed, rolledback, stored, pending, txn,
                    autocommit>>
    BY <1>10 DEF fifo_pop, dbVars, runVars, conf
  <2>6. QED
    BY <2>2, <2>3, <2>4, <2>5, FatePop, Zenon
<1>11. ASSUME NEW p \in Producers, logsqlite_log(p) PROVE Fate'
  <2>1. /\ next < MaxRows /\ next' = next + 1
        /\ UNCHANGED <<ret, cpc, todo, call, popped, failed, rolledback,
                       stored, pending, txn, autocommit>>
        /\ \/ head = 0 /\ head' = next + 1 /\ dropped' = dropped
           \/ head' = head /\ dropped' = dropped \cup {next + 1}
    BY <1>11 DEF logsqlite_log, fifo_push, fifo_push_first, fifo_push_second,
       fifo_push_nomem, NULL, dbVars, runVars, conf
  <2>2. next \in Nat /\ ret \in Nat /\ ret <= next
    BY DEF Types, Control
  <2>3. todo[Bg] # <<Insert(next + 1)>>
    <3>1. CASE todo[Bg] \in Seq(Plain(autocommit))
      BY <3>1, NoInsert, Zenon DEF Flags
    <3>2. CASE \E m \in 1..next : todo[Bg] = <<Insert(m)>>
      BY <2>2, <3>2 DEF Insert
    <3>3. QED
      BY <3>1, <3>2 DEF Stmts, Script, DbThreads
  <2>4. Hand' = Hand
    <3>1. \A n : n \in 1..(next + 1) <=> (n \in 1..next \/ n = next + 1)
      BY <2>2
    <3>2. ret # next + 1
      BY <2>2
    <3>3. QED
      BY <2>1, <2>3, <3>1, <3>2 DEF Hand
  <2>5. QED
    BY <2>1, <2>4, FatePush
<1>12. ASSUME NEW p \in Producers, logsqlite_log_signals(p) PROVE Fate'
  <2>1. RowsSame
    BY <1>12 DEF logsqlite_log_signals, FifoSignal,
       fifo_send_signal_lock, fifo_send_signal, RowsSame, dbVars, runVars, conf
  <2>2. /\ UNCHANGED <<next, ret, todo, call>>
        /\ cpc' = cpc \/ (cpc # "returned" /\ cpc' # "returned")
    BY <1>12 DEF logsqlite_log_signals, FifoSignal,
       fifo_send_signal_lock, fifo_send_signal, runVars
  <2>3. Hand' = Hand
    BY <2>2, HandSame, Zenon
  <2>4. QED
    BY <2>1, <2>3, FateSame, Zenon
<1>13. ASSUME NEW t \in DbThreads, db_exec_load(t) PROVE Fate'
  <2>1. RowsSame
    BY <1>13 DEF db_exec_load, RowsSame, fifoVars, dbVars, conf
  <2>2. /\ UNCHANGED <<next, ret, cpc, todo>>
        /\ call'[Bg].at = "check" <=> call[Bg].at = "check"
    BY <1>13, SqliteAssumption DEF db_exec_load, fifoVars, Types,
       DbThreads
  <2>3. Hand' = Hand
    BY <2>2, HandSame, Zenon
  <2>4. QED
    BY <2>1, <2>3, FateSame, Zenon
<1>14. ASSUME NEW t \in DbThreads, db_exec_count(t) PROVE Fate'
  <2>1. RowsSame
    BY <1>14 DEF db_exec_count, RowsSame, fifoVars, dbVars, conf
  <2>2. /\ UNCHANGED <<next, ret, cpc, todo>>
        /\ call'[Bg].at = "check" <=> call[Bg].at = "check"
    BY <1>14, SqliteAssumption DEF db_exec_count, fifoVars, Types,
       DbThreads
  <2>3. Hand' = Hand
    BY <2>2, HandSame, Zenon
  <2>4. QED
    BY <2>1, <2>3, FateSame, Zenon
<1>15. ASSUME NEW t \in DbThreads, db_exec_runs(t) PROVE Fate'
  <2> DEFINE q == Head(todo[t])
  <2>1. /\ call[t].at = "run" /\ SqliteDoes(q)
        /\ call' = [call EXCEPT ![t] = [NoCall EXCEPT !.at = "check"]]
        /\ UNCHANGED <<next, head, popped, dropped, autocommit, todo, cpc,
                       ret>>
    BY <1>15 DEF db_exec_runs, fifoVars, runVars, ctlVars, conf
  <2>2. /\ todo[t] # <<>> /\ q.op # "FLUSH"
        /\ UNCHANGED <<failed, rolledback>>
    BY <2>1 DEF Stmts, SqliteDoes
  <2>3. CASE q \in Plain(autocommit) /\ todo[t] \in Seq(Plain(autocommit))
    <3>1. Hand' = Hand
      <4>1. CASE t = Main
        BY <2>1, <4>1, HandSame, SqliteAssumption DEF Types, DbThreads
      <4>2. CASE t = Bg
        <5>1. cpc # "returned"
          BY <2>2, <4>2 DEF Stmts
        <5>2. Hand = {}
          BY <2>3, <4>2, <5>1, HandEmpty
        <5>3. QED
          BY <2>1, <2>3, <4>2, <5>1, <5>2, HandNone DEF Flags
      <4>3. QED
        BY <4>1, <4>2 DEF DbThreads
    <3>2. /\ q.op \in {"CREATE", "COMMIT", "BEGIN"}
          /\ (autocommit => q.op = "CREATE")
      BY <2>2, <2>3 DEF Plain
    <3>3. /\ \/ UNCHANGED <<stored, pending>> /\ (txn' \/ txn' = txn)
             \/ stored' = stored \o pending /\ pending' = <<>>
          /\ autocommit => ~txn'
      BY <2>1, <3>2, Zenon DEF SqliteDoes, Fate
    <3>4. QED
      BY <2>1, <2>2, <3>1, <3>3, FateQuiet
  <2>4. CASE /\ t = Bg
             /\ \E n \in 1..next : todo[t] = <<Insert(n)>> /\ q = Insert(n)
    <3>1. PICK n \in 1..next : todo[Bg] = <<Insert(n)>> /\ q = Insert(n)
      BY <2>4
    <3>2. Hand = {n} /\ cpc = "exec"
      BY <2>1, <2>4, <3>1, HandInsert
    <3>3. call'[Bg].at = "check"
      BY <2>1, <2>4 DEF Types, NoCall
    <3>4. Hand' = {}
      BY <2>1, <3>2, <3>3 DEF Hand
    <3>5. q.op = "INSERT" /\ q.row = n
      BY <3>1 DEF Insert
    <3>6. /\ \/ txn /\ pending' = Append(pending, n) /\ stored' = stored
             \/ ~txn /\ pending' = pending /\ stored' = Append(stored, n)
          /\ txn' = txn
      BY <2>1, <3>5, Zenon DEF SqliteDoes, Flags
    <3>7. QED
      BY <2>1, <2>2, <3>2, <3>4, <3>6, FateWrites
  <2>5. QED
    BY <2>2, <2>3, <2>4, Statement
<1>16. ASSUME NEW t \in DbThreads, db_exec_fails(t) PROVE Fate'
  <2> DEFINE q == Head(todo[t])
  <2>1. /\ call[t].at = "run" /\ todo[t] # <<>>
        /\ UNCHANGED <<next, head, popped, dropped, stored, autocommit, cpc>>
        /\ failed' = IF q.op = "INSERT" THEN failed \cup {q.row} ELSE failed
        /\ \/ UNCHANGED <<txn, pending, rolledback>>
           \/ /\ ~txn' /\ pending' = <<>>
              /\ rolledback' = rolledback \cup Rows(pending)
    BY <1>16, Zenon DEF db_exec_fails, SqliteRefuses, SqliteRollsBack,
       SqliteMisuse, Stmts, fifoVars, conf
  <2>2. \E S \in SUBSET Hand : failed' = failed \cup S /\ Hand' = Hand \ S
    <3>1. CASE q \in Plain(autocommit) /\ todo[t] \in Seq(Plain(autocommit))
      <4>1. Hand' = Hand
        BY <1>16, <3>1, HandReturn
      <4>2. failed' = failed
        BY <2>1, <3>1 DEF Plain
      <4>3. QED
        BY <4>1, <4>2, Zenon
    <3>2. CASE /\ t = Bg
               /\ \E n \in 1..next : todo[t] = <<Insert(n)>> /\ q = Insert(n)
      <4>1. PICK n \in 1..next : todo[Bg] = <<Insert(n)>> /\ q = Insert(n)
        BY <3>2
      <4>2. Hand = {n} /\ cpc = "exec"
        BY <2>1, <3>2, <4>1, HandInsert
      <4>3. PICK s \in Seq(Plain(autocommit)) : todo' = [todo EXCEPT ![t] = s]
        BY <1>16, ReturnScript
      <4>4. todo'[Bg] = s
        BY <3>2, <4>3 DEF Types
      <4>5. Hand' = {}
        <5>1. autocommit \in BOOLEAN /\ cpc' # "returned"
          BY <2>1, <4>2, Zenon DEF Flags
        <5>2. QED
          BY <4>4, <5>1, HandNone
      <4>6. failed' = failed \cup {n}
        <5>1. q.op = "INSERT" /\ q.row = n
          BY <4>1 DEF Insert
        <5>2. QED
          BY <2>1, <5>1
      <4>7. QED
        BY <4>2, <4>5, <4>6, Zenon
    <3>3. QED
      BY <2>1, <3>1, <3>2, Statement, Zenon
  <2>3. QED
    BY <2>1, <2>2, FateFails, FateRollsBack, Zenon
<1>17. ASSUME NEW t \in DbThreads, db_exec_check(t) PROVE Fate'
  <2>1. RowsSame
    BY <1>17 DEF db_exec_check, RowsSame, fifoVars, dbVars, conf
  <2>2. Hand' = Hand
    BY <1>17, HandReturn, Zenon
  <2>3. QED
    BY <2>1, <2>2, FateSame, Zenon
<1>18. ASSUME NEW t \in DbThreads, db_flush(t) PROVE Fate'
  <2>1. RowsSame
    BY <1>18 DEF db_flush, RowsSame, fifoVars, dbVars, conf
  <2>2. Hand' = Hand
    BY <1>18, HandReturn, Zenon
  <2>3. QED
    BY <2>1, <2>2, FateSame, Zenon
<1>19. CASE UNCHANGED vars
  <2>1. RowsSame
    BY <1>19 DEF vars, RowsSame, fifoVars, dbVars, runVars, conf
  <2>2. UNCHANGED <<next, ret, cpc, call, todo>>
    BY <1>19 DEF vars, fifoVars, runVars
  <2>3. Hand' = Hand
    BY <2>2, HandSame, Zenon
  <2>4. QED
    BY <2>1, <2>3, FateSame, Zenon
<1>20. QED
  BY <1>1, <1>2, <1>3, <1>4, <1>5, <1>6, <1>7, <1>8, <1>9, <1>10, <1>11,
     <1>12, <1>13, <1>14, <1>15, <1>16, <1>17, <1>18, <1>19, NextSteps, Zenon

-----------------------------------------------------------------------------
(* The invariant holds, and what follows from it.                          *)

\* Every step preserves the invariant.
LEMMA SqliteNextIInv == SqliteIInv /\ [Next]_vars => SqliteIInv'
BY TypesStep, FlagsStep, StmtsStep, ControlStep, HandleStep, FateStep DEF
   SqliteIInv

\* The parts of the invariant hold in every reachable state, for any
\* number of producers, rows, rotations and SQLite errors.
THEOREM SqliteInvariant == Safety => []SqliteIInv
BY SqliteInitIInv, SqliteNextIInv, PTL DEF Safety

\* A list over a set is a list over a larger set.
LEMMA SeqMonotone ==
  ASSUME NEW A, NEW B, A \subseteq B, NEW s \in Seq(A)
  PROVE  s \in Seq(B)
<1>1. Len(s) \in Nat /\ s = [i \in 1..Len(s) |-> s[i]]
  OBVIOUS
<1>2. \A i \in 1..Len(s) : s[i] \in B
  OBVIOUS
<1>3. QED
  BY <1>1, <1>2

\* Every statement is one of the program's, and row numbers stay in range.
LEMMA SqliteTypes == SqliteIInv => TypeOK
<1> SUFFICES ASSUME SqliteIInv PROVE TypeOK
  OBVIOUS
<1> USE DEF SqliteIInv
<1> DEFINE Stmt == [op : SqlOps, row : 0..MaxRows]
<1>1. \A t \in DbThreads : todo[t] \in Seq(Stmt)
  <2> SUFFICES ASSUME NEW t \in DbThreads PROVE todo[t] \in Seq(Stmt)
    BY Zenon
  <2>1. CASE todo[t] \in Seq(Plain(autocommit))
    <3>1. Plain(autocommit) \subseteq Stmt
      BY FifoAssumption DEF Plain, SqlOps
    <3> HIDE DEF Stmt
    <3>2. QED
      BY <2>1, <3>1, SeqMonotone
  <2>2. CASE \E n \in 1..next : todo[t] = <<Insert(n)>>
    <3>1. PICK n \in 1..next : todo[t] = <<Insert(n)>>
      BY <2>2
    <3>2. Insert(n) \in Stmt
      BY FifoAssumption DEF Insert, SqlOps, Types
    <3>3. QED
      BY <3>1, <3>2
  <2>3. QED
    BY <2>1, <2>2 DEF Stmts, Script
<1>2. todo \in [DbThreads -> Seq(Stmt)]
  BY <1>1, Zenon DEF Stmts
<1>3. QED
  BY <1>2, Zenon DEF TypeOK, Types, Flags, Fate, Calls

\* The variables keep their types; in particular the writer never inserts row
\* 0, the null pointer of an idle fifo_pop_item (sqlite.c:156-161).
THEOREM SqliteTypeCorrect == Safety => []TypeOK
BY SqliteInvariant, SqliteTypes, PTL

\* The database holds rows in push order, none twice, whatever flushes,
\* rotations, failed statements and the shutdown do (sqlite.c:149-164).
THEOREM SqliteRowsInOrder == Safety => []RowsInOrder
<1>1. SqliteIInv => RowsInOrder
  BY DEF SqliteIInv, Fate, Increasing, RowsInOrder
<1>2. QED
  BY <1>1, SqliteInvariant, PTL

\* With autocommit=1 no row is ever waiting for a COMMIT or rolled back
\* (sqlite.c:111-143).
THEOREM SqliteAutocommitIsDurable == Safety => []AutocommitIsDurable
<1>1. SqliteIInv => AutocommitIsDurable
  BY DEF SqliteIInv, Fate, AutocommitIsDurable
<1>2. QED
  BY <1>1, SqliteInvariant, PTL

\* Without a rotation no thread uses a closed connection, at shutdown either
\* (sqlite.c:232-245).
THEOREM SqliteOnlyRotationClosesUnderWriter ==
  Safety => []OnlyRotationClosesUnderWriter
<1>1. SqliteIInv => OnlyRotationClosesUnderWriter
  BY DEF SqliteIInv, Types, Handle, OnlyRotationClosesUnderWriter
<1>2. QED
  BY <1>1, SqliteInvariant, PTL

\* Hand is InHand, without the null pointer.
LEMMA HandIsInHand ==
  ASSUME SqliteIInv, NEW n \in 1..next
  PROVE  n \in InHand <=> n \in Hand
<1> USE DEF SqliteIInv
<1>1. CASE cpc = "returned"
  BY <1>1 DEF InHand, Hand
<1>2. CASE cpc # "returned" /\ todo[Bg] = <<>>
  <2>1. \A m : <<>> # <<Insert(m)>>
    OBVIOUS
  <2>2. QED
    BY <1>2, <2>1 DEF InHand, Hand
<1>3. CASE cpc # "returned" /\ todo[Bg] # <<>>
  <2>1. CASE /\ todo[Bg] \in Seq(Plain(autocommit))
             /\ Head(todo[Bg]) \in Plain(autocommit)
    <3>1. Head(todo[Bg]).row = 0
      BY <2>1 DEF Plain
    <3>2. n # 0 /\ n \notin Hand
      BY <1>3, <2>1, HandEmpty
    <3>3. QED
      BY <1>3, <3>1, <3>2 DEF InHand
  <2>2. CASE \E m \in 1..next :
               todo[Bg] = <<Insert(m)>> /\ Head(todo[Bg]) = Insert(m)
    <3>1. PICK m \in 1..next :
            todo[Bg] = <<Insert(m)>> /\ Head(todo[Bg]) = Insert(m)
      BY <2>2
    <3>2. Head(todo[Bg]).row = m
      BY <3>1 DEF Insert
    <3>3. CASE call[Bg].at = "check"
      BY <1>3, <3>3 DEF InHand, Hand
    <3>4. CASE call[Bg].at # "check"
      BY <1>3, <3>1, <3>2, <3>4, HandInsert DEF InHand
    <3>5. QED
      BY <3>3, <3>4
  <2>3. QED
    BY <1>3, <2>1, <2>2, Statement DEF DbThreads
<1>4. QED
  BY <1>1, <1>2, <1>3

\* The partition of Fate is the one Places lists.
LEMMA SqliteOnePlace == SqliteIInv => EachRowInOnePlace
<1> SUFFICES ASSUME SqliteIInv, NEW n \in 1..next
             PROVE  \E i \in 1..7 : /\ Places(n)[i]
                                    /\ \A j \in 1..7 : j # i => ~Places(n)[j]
  BY DEF EachRowInOnePlace
<1>1. /\ Places(n)[1] <=> n \in dropped
      /\ Places(n)[2] <=> n = head
      /\ Places(n)[3] <=> n \in Hand
      /\ Places(n)[4] <=> n \in failed
      /\ Places(n)[5] <=> n \in Rows(pending)
      /\ Places(n)[6] <=> n \in Rows(stored)
      /\ Places(n)[7] <=> n \in rolledback
  BY HandIsInHand, Zenon DEF Places
<1>2. n \in Nat /\ n # 0 /\ ~(n < n)
  OBVIOUS
<1>3. /\ n \in dropped \/ n = head \/ n \in Hand \/ n \in failed
         \/ n \in Rows(pending) \/ n \in Rows(stored) \/ n \in rolledback
      /\ ~(n \in Rows(pending) /\ n \in Rows(stored))
  BY WrittenParts DEF SqliteIInv, Fate, Lost
<1>4. /\ n \in dropped => n \notin failed /\ n \notin rolledback
      /\ n \in failed => n \notin rolledback
      /\ n \in Lost => n # head /\ n \notin Hand /\ n \notin Rows(pending)
                       /\ n \notin Rows(stored)
      /\ n = head => n \notin Hand /\ n \notin Rows(pending)
                     /\ n \notin Rows(stored)
      /\ n \in Hand => n \notin Rows(pending) /\ n \notin Rows(stored)
  BY <1>2, WrittenParts DEF SqliteIInv, Fate
<1>5. n \in Lost <=> n \in dropped \/ n \in failed \/ n \in rolledback
  BY DEF Lost
<1>6. \A j \in 1..7 : j \in {1, 2, 3, 4, 5, 6, 7}
  OBVIOUS
<1>7. QED
  BY <1>1, <1>3, <1>4, <1>5, <1>6

\* Every row is in exactly one place: queued, in hand, waiting for COMMIT,
\* stored, or lost in one of three ways (sqlite.c:80-245, queue.c:81-138).
THEOREM SqliteEachRowInOnePlace == Safety => []EachRowInOnePlace
BY SqliteInvariant, SqliteOnePlace, PTL

-----------------------------------------------------------------------------
(* The back end implements the lossy, ordered log.                         *)

\* A row in hand is in flight, behind everything written.
LEMMA InFlightHand ==
  ASSUME SqliteIInv
  PROVE  /\ Log!Rows(pending) = Rows(pending)
         /\ \A n \in Hand : n \in Log!InFlight /\ \A m \in Log!Written : m < n
<1>1. Log!Rows(pending) = Rows(pending) /\ Log!Written = Written
  BY WrittenParts DEF SqliteIInv, Log!Rows, Rows, Log!Written
<1>2. ASSUME NEW n \in Hand
      PROVE  n \in 1..next /\ n \notin Lost /\ n \notin Written
             /\ \A m \in Written : m < n
  <2>1. n \in 1..next /\ n \in Nat /\ ~(n < n)
    BY DEF Hand, SqliteIInv, Types
  <2>2. QED
    BY <2>1 DEF SqliteIInv, Fate
<1>3. QED
  BY <1>1, <1>2 DEF Log!InFlight, Lost

\* A rollback, in which the row in hand may fail.
LEMMA LogRollsBack ==
  ASSUME SqliteIInv, UNCHANGED <<next, stored, dropped>>, pending' = <<>>,
         rolledback' = rolledback \cup Rows(pending),
         failed' = failed \/ \E n \in Hand : failed' = failed \cup {n}
  PROVE  Log!LogNext
<1> DEFINE InS(S) == Lost' = Lost \cup Rows(pending) \cup S
<1>1. Log!Rows(pending) = Rows(pending) /\ \A n \in Hand : n \in Log!InFlight
  BY InFlightHand
<1>2. \E S \in {{}} \cup {{n} : n \in Log!InFlight} : InS(S)
  <2>1. CASE failed' = failed
    <3>1. InS({})
      BY <2>1 DEF Lost
    <3>2. QED
      BY <3>1, Zenon
  <2>2. CASE \E n \in Hand : failed' = failed \cup {n}
    <3>1. PICK n \in Hand : failed' = failed \cup {n}
      BY <2>2
    <3>2. InS({n})
      BY <3>1 DEF Lost
    <3>3. QED
      BY <1>1, <3>1, <3>2, Zenon
  <2>3. QED
    BY <2>1, <2>2, Zenon
<1>3. Log!RollBack
  BY <1>1, <1>2, Zenon DEF Log!RollBack, Lost
<1>4. QED
  BY <1>3 DEF Log!LogNext

LogStep == Log!LogNext \/ UNCHANGED Log!logVars

\* Every step is a step of the log or leaves it alone.
LEMMA SqliteStepSimulates ==
  ASSUME SqliteIInv, Next \/ UNCHANGED vars
  PROVE  LogStep
<1> USE DEF LogStep, Log!logVars, fifoVars, dbVars, runVars, ctlVars, conf,
    vars
<1>1. CASE MainMoves
  BY <1>1, MovesFrame
<1>2. CASE BgMoves
  BY <1>2, MovesFrame
<1>3. CASE bg_thread_start
  BY <1>3 DEF bg_thread_start
<1>4. CASE logsqlite_init
  BY <1>4 DEF logsqlite_init, db_open, Fault
<1>5. CASE fork_and_close_parent
  BY <1>5 DEF fork_and_close_parent
<1>6. CASE logsqlite_stop
  <2>1. /\ UNCHANGED <<next, stored, dropped, failed>> /\ pending' = <<>>
        /\ rolledback' = rolledback \cup Rows(pending)
    BY <1>6 DEF logsqlite_stop, db_close
  <2>2. QED
    BY <2>1, LogRollsBack
<1>7. CASE rotate_close
  <2>1. /\ UNCHANGED <<next, stored, dropped, failed>> /\ pending' = <<>>
        /\ rolledback' = rolledback \cup Rows(pending)
    BY <1>7 DEF rotate_close, db_close
  <2>2. QED
    BY <2>1, LogRollsBack
<1>8. CASE rotate_open
  BY <1>8 DEF rotate_open, db_open, Fault
<1>9. CASE bg_thread_got
  BY <1>9 DEF bg_thread_got, NULL
<1>10. CASE fifo_pop /\ UNCHANGED <<dbVars, runVars, ctlVars, misuse>>
  BY <1>10 DEF fifo_pop, NULL
<1>11. ASSUME NEW p \in Producers, logsqlite_log(p) PROVE LogStep
  <2>1. /\ next < MaxRows /\ next' = next + 1
        /\ UNCHANGED <<pending, stored, failed, rolledback>>
        /\ dropped' = dropped \/ dropped' = dropped \cup {next + 1}
    BY <1>11 DEF logsqlite_log, fifo_push, fifo_push_first, fifo_push_second,
       fifo_push_nomem, dbVars
  <2>2. Log!Submit
    BY <2>1 DEF Log!Submit
  <2>3. QED
    BY <2>2 DEF Log!LogNext
<1>12. ASSUME NEW p \in Producers, logsqlite_log_signals(p) PROVE LogStep
  BY <1>12 DEF logsqlite_log_signals, FifoSignal, fifo_send_signal_lock,
     fifo_send_signal
<1>13. ASSUME NEW t \in DbThreads, db_exec_load(t) PROVE LogStep
  BY <1>13 DEF db_exec_load, Overlap
<1>14. ASSUME NEW t \in DbThreads, db_exec_count(t) PROVE LogStep
  BY <1>14 DEF db_exec_count
<1>15. ASSUME NEW t \in DbThreads, db_exec_runs(t) PROVE LogStep
  <2> DEFINE q == Head(todo[t])
  <2>1. /\ call[t].at = "run" /\ SqliteDoes(q)
        /\ UNCHANGED <<next, dropped, failed, rolledback>>
    BY <1>15 DEF db_exec_runs, SqliteDoes, fifoVars
  <2>2. todo[t] # <<>> /\ q.op # "FLUSH"
    BY <2>1 DEF SqliteIInv, Stmts
  <2>3. CASE q \in Plain(autocommit)
    <3>1. q.op \in {"CREATE", "COMMIT", "BEGIN"}
      BY <2>2, <2>3 DEF Plain
    <3>2. CASE q.op = "COMMIT"
      <4>1. Log!Commit
        BY <2>1, <3>2 DEF SqliteDoes, Log!Commit
      <4>2. QED
        BY <4>1 DEF Log!LogNext
    <3>3. CASE q.op # "COMMIT"
      BY <2>1, <3>1, <3>3 DEF SqliteDoes, Log!logVars
    <3>4. QED
      BY <3>2, <3>3
  <2>4. CASE /\ t = Bg
             /\ \E n \in 1..next : todo[t] = <<Insert(n)>> /\ q = Insert(n)
    <3>1. PICK n \in 1..next : todo[Bg] = <<Insert(n)>> /\ q = Insert(n)
      BY <2>4
    <3>2. Hand = {n}
      BY <2>1, <2>4, <3>1, HandInsert DEF SqliteIInv
    <3>3. q.op = "INSERT" /\ q.row = n
      BY <3>1 DEF Insert
    <3>4. \/ pending' = Append(pending, n) /\ stored' = stored
          \/ /\ pending = <<>> /\ pending' = pending
             /\ stored' = Append(stored, n)
      BY <2>1, <3>3 DEF SqliteDoes, SqliteIInv, Flags, Fate
    <3>5. Log!Write
      BY <2>1, <3>2, <3>4, InFlightHand DEF Log!Write
    <3>6. QED
      BY <3>5 DEF Log!LogNext
  <2>5. QED
    BY <2>2, <2>3, <2>4, Statement DEF SqliteIInv
<1>16. ASSUME NEW t \in DbThreads, db_exec_fails(t) PROVE LogStep
  <2> DEFINE q == Head(todo[t])
  <2>1. /\ call[t].at = "run" /\ todo[t] # <<>>
        /\ UNCHANGED <<next, dropped, stored>>
        /\ failed' = IF q.op = "INSERT" THEN failed \cup {q.row} ELSE failed
        /\ \/ UNCHANGED <<pending, rolledback>>
           \/ /\ pending' = <<>>
              /\ rolledback' = rolledback \cup Rows(pending)
    BY <1>16, Zenon DEF db_exec_fails, SqliteRefuses, SqliteRollsBack,
       SqliteMisuse, SqliteIInv, Stmts
  <2>2. failed' = failed \/ \E n \in Hand : failed' = failed \cup {n}
    <3>1. CASE q \in Plain(autocommit)
      BY <2>1, <3>1 DEF Plain
    <3>2. CASE /\ t = Bg
               /\ \E n \in 1..next : todo[t] = <<Insert(n)>> /\ q = Insert(n)
      <4>1. PICK n \in 1..next : todo[Bg] = <<Insert(n)>> /\ q = Insert(n)
        BY <3>2
      <4>2. Hand = {n}
        BY <2>1, <3>2, <4>1, HandInsert DEF SqliteIInv
      <4>3. failed' = failed \cup {n}
        BY <2>1, <4>1 DEF Insert
      <4>4. QED
        BY <4>2, <4>3
    <3>3. QED
      BY <2>1, <3>1, <3>2, Statement DEF SqliteIInv
  <2>3. CASE UNCHANGED <<pending, rolledback>>
    <3>1. CASE failed' = failed
      BY <2>1, <2>3, <3>1 DEF Log!logVars
    <3>2. CASE \E n \in Hand : failed' = failed \cup {n}
      <4>1. Log!Lose
        BY <2>1, <2>3, <3>2, InFlightHand DEF Log!Lose
      <4>2. QED
        BY <4>1 DEF Log!LogNext
    <3>3. QED
      BY <2>2, <3>1, <3>2
  <2>4. CASE pending' = <<>> /\ rolledback' = rolledback \cup Rows(pending)
    BY <2>1, <2>2, <2>4, LogRollsBack
  <2>5. QED
    BY <2>1, <2>3, <2>4
<1>17. ASSUME NEW t \in DbThreads, db_exec_check(t) PROVE LogStep
  BY <1>17 DEF db_exec_check, NoCall
<1>18. ASSUME NEW t \in DbThreads, db_flush(t) PROVE LogStep
  BY <1>18 DEF db_flush
<1>19. CASE UNCHANGED vars
  BY <1>19
<1>20. QED
  BY <1>1, <1>2, <1>3, <1>4, <1>5, <1>6, <1>7, <1>8, <1>9, <1>10, <1>11,
     <1>12, <1>13, <1>14, <1>15, <1>16, <1>17, <1>18, <1>19, NextSteps, Zenon

\* The SQLite back end implements the lossy, ordered log, for every value of
\* the constants (sqlite.c:80-245, queue.c:81-138).
THEOREM SqliteImplementsRowLog == Safety => ImplementsRowLog
<1>1. Init => Log!LogInit
  BY DEF Init, FifoInit, Log!LogInit
<1>2. SqliteIInv /\ [Next]_vars => [Log!LogNext]_(Log!logVars)
  BY SqliteStepSimulates DEF LogStep
<1>3. QED
  BY <1>1, <1>2, SqliteInvariant, PTL DEF Safety, ImplementsRowLog, Log!LogSpec

-----------------------------------------------------------------------------
(* Few rows wait for a COMMIT.                                             *)

\* A statement of the running thread.
LEMMA FlushesRun ==
  ASSUME SqliteIInv, Flushes, Quiet, Quiet', NEW t \in DbThreads,
         \/ db_exec_load(t) \/ db_exec_count(t) \/ db_exec_runs(t)
         \/ db_exec_fails(t) \/ db_exec_check(t) \/ db_flush(t)
  PROVE  Flushes'
<1>1. alive /\ todo[t] # <<>> /\ mpc' = mpc
  BY DEF db_exec_load, db_exec_count, db_exec_runs, db_exec_fails,
     db_exec_check, db_flush, SqliteIInv, Stmts, ctlVars
<1>2. /\ \/ mpc = "opening" /\ t = Main
         \/ mpc \in {"serving", "join", "close"} /\ t = Bg
      /\ Running(t)
  BY <1>1, Worker DEF Flushes
<1>3. Running(t)' /\ (t = Main /\ pending = <<>> => pending' = <<>>)
  BY <1>2, RunningCounts, RunningRuns, RunningFails, RunningReturns, Zenon DEF Quiet
<1> QED
  BY <1>1, <1>2, <1>3 DEF Flushes

\* Steps that leave the scripts and the database alone.
LEMMA FlushesMove ==
  ASSUME SqliteIInv, Flushes, Quiet, Quiet',
         UNCHANGED <<todo, call, counter, dbst, pending, txn>>,
         \/ mpc' = mpc
         \/ mpc = "start" /\ mpc' = "open"
         \/ mpc \in {"serving", "join"} /\ mpc' \in {"join", "close"}
         \/ mpc \in {"opening", "closed"} /\ mpc' = "exit"
         \/ mpc = "opening" /\ mpc' = "serving" /\ todo[Main] = <<>>
  PROVE  Flushes'
<1>1. \A t : Running(t)' <=> Running(t)
  BY DEF Running
<1>2. ASSUME mpc = "opening", todo[Main] = <<>> PROVE Running(Bg)
  <2>1. todo[Bg] = <<>>
    BY <1>2 DEF SqliteIInv, Stmts, Control
  <2>2. call[Main].at = "enter" /\ call[Bg].at = "enter"
    BY <1>2, <2>1 DEF SqliteIInv, Stmts, DbThreads
  <2> QED
    BY <1>2, <2>1, <2>2 DEF Flushes, Running
<1> QED
  BY <1>1, <1>2 DEF Flushes

\* The flushes come in time.
LEMMA FlushesStep == SqliteIInv /\ Flushes /\ [Next]_vars => Flushes'
<1> SUFFICES ASSUME SqliteIInv, Flushes, Next \/ UNCHANGED vars, Quiet'
             PROVE  Flushes'
  BY DEF Flushes
<1>1. SqliteIInv /\ Types
  BY DEF SqliteIInv
<1>2. CASE MainMoves \/ BgMoves
  <2>1. UNCHANGED <<todo, call, counter, dbst, pending, txn, faults, autocommit>>
    BY <1>2, MovesFrame DEF dbVars, runVars, conf
  <2>2. rotations' = 0 /\ rotations = 0 /\ Quiet
    <3>1. rotations' = rotations \/ rotations' = rotations + 1
      BY <1>2, Zenon DEF MainMoves, BgMoves, exits_early, bg_thread_stop,
         bg_thread_join, main_returns, rotate_lock, rotate_unlock,
         bg_thread_begins, bg_thread_tests, bg_thread_frees, ctlVars
    <3>2. rotations \in Nat /\ rotations' = 0
      BY <1>1 DEF Types, Quiet
    <3> QED
      BY <2>1, <3>1, <3>2 DEF Quiet
  <2>3. \/ mpc' = mpc
        \/ mpc \in {"serving", "join"} /\ mpc' \in {"join", "close"}
        \/ mpc \in {"opening", "closed"} /\ mpc' = "exit"
    BY <1>2, Zenon DEF MainMoves, BgMoves, exits_early, bg_thread_stop,
       bg_thread_join, main_returns, rotate_lock, rotate_unlock,
       bg_thread_begins, bg_thread_tests, bg_thread_frees, ctlVars
  <2> QED
    BY <2>1, <2>2, <2>3, FlushesMove
<1>3. CASE bg_thread_start \/ fork_and_close_parent
  <2>1. /\ UNCHANGED <<todo, call, counter, dbst, pending, txn>> /\ Quiet
        /\ \/ mpc = "start" /\ mpc' = "open"
           \/ mpc = "opening" /\ mpc' = "serving" /\ todo[Main] = <<>>
    <3>1. /\ UNCHANGED <<dbVars, runVars, rotations>>
          /\ \/ mpc = "start" /\ mpc' = "open"
             \/ mpc = "opening" /\ mpc' = "serving" /\ todo[Main] = <<>>
      BY <1>3, Zenon DEF bg_thread_start, fork_and_close_parent
    <3> QED
      BY <3>1 DEF dbVars, runVars, conf, Quiet
  <2> QED
    BY <2>1, FlushesMove
<1>4. CASE \/ fifo_pop /\ UNCHANGED <<dbVars, runVars, ctlVars, misuse>>
           \/ \E p \in Producers : logsqlite_log(p) \/ logsqlite_log_signals(p)
           \/ UNCHANGED vars
  <2>1. UNCHANGED <<todo, call, counter, dbst, pending, txn, mpc>> /\ Quiet
    <3>1. UNCHANGED <<dbVars, runVars, ctlVars>>
      BY <1>4, Zenon DEF logsqlite_log, logsqlite_log_signals, vars
    <3> QED
      BY <3>1 DEF dbVars, runVars, conf, ctlVars, Quiet
  <2> QED
    BY <2>1, FlushesMove
<1>5. CASE \E t \in DbThreads :
             \/ db_exec_load(t) \/ db_exec_count(t) \/ db_exec_runs(t)
             \/ db_exec_fails(t) \/ db_exec_check(t) \/ db_flush(t)
  <2>1. faults' \in {faults, faults + 1} /\ UNCHANGED <<rotations, autocommit>>
    BY <1>5 DEF db_exec_load, db_exec_count, db_exec_runs, db_exec_fails,
       db_exec_check, db_flush, SqliteDoes, SqliteRefuses, SqliteRollsBack,
       SqliteMisuse, Fault, dbVars, runVars, conf, ctlVars
  <2>2. Quiet
    BY <1>1, <2>1 DEF Quiet, Types
  <2> QED
    BY <1>5, <2>2, FlushesRun
<1>6. CASE rotate_close \/ rotate_open
  BY <1>6 DEF rotate_close, rotate_open, SqliteIInv, Handle, Quiet
<1>7. CASE logsqlite_stop
  BY <1>7 DEF logsqlite_stop, db_close, Flushes
<1>8. CASE logsqlite_init
  <2>1. faults' = faults /\ Quiet
    BY <1>1, <1>8 DEF logsqlite_init, db_open, Fault, conf, Quiet, Types
  <2>2. /\ counter = 0 /\ pending = <<>> /\ ~txn /\ call[Main].at = "enter"
        /\ UNCHANGED <<counter, pending, txn, call>> /\ mpc' = "opening"
    BY <1>8, <2>1 DEF logsqlite_init, db_open, Flushes, SqliteIInv, Stmts, DbThreads
  <2>3. dbst' = "open" /\ todo'[Main] = OpenScript
    BY <1>1, <1>8, <2>1 DEF logsqlite_init, db_open, Fault, Types, DbThreads
  <2>4. Creating(OpenScript, "enter", 0, 0, FALSE) /\ Len(<<>>) = 0
    <3>1. Counted("enter", 0) = 0 /\ Len(<<>>) = 0
      BY DEF Counted
    <3> QED
      BY <3>1, Zenon DEF Creating
  <2>5. Stage(todo'[Main], call'[Main].at, counter', Len(pending'), txn')
    <3>1. txn = FALSE
      BY <1>1, <2>2 DEF SqliteIInv, Flags
    <3> QED
      BY <2>2, <2>3, <2>4, <3>1, Zenon DEF Stage
  <2> QED
    BY <2>2, <2>3, <2>5 DEF Flushes, Running
<1>9. CASE bg_thread_got
  <2>1. /\ UNCHANGED <<call, counter, dbst, pending, txn, mpc>> /\ Quiet
        /\ todo[Bg] = <<>> /\ call[Bg].at = "enter"
    BY <1>9 DEF bg_thread_got, dbVars, conf, ctlVars, Quiet, SqliteIInv, Stmts,
       DbThreads
  <2>2. /\ todo'[Main] = todo[Main]
        /\ todo'[Bg] = <<>> \/ \E m \in 1..MaxRows : todo'[Bg] = <<Insert(m)>>
    <3>1. Main # Bg /\ DOMAIN todo = {Main, Bg}
      BY <1>1, SqliteAssumption DEF Types, DbThreads
    <3>2. ret = NULL \/ ret \in 1..MaxRows
      BY <1>1, FifoAssumption DEF Types, NULL
    <3>3. todo'[Bg] = IF ret = NULL THEN <<>> ELSE <<Insert(ret)>>
      BY <1>9, <3>1, Zenon DEF bg_thread_got
    <3>4. todo'[Main] = todo[Main]
      BY <1>9, <3>1, Zenon DEF bg_thread_got
    <3> QED
      BY <3>2, <3>3, <3>4, Zenon
  <2>3. Running(Main)' <=> Running(Main)
    BY <2>1, <2>2 DEF Running
  <2>4. ASSUME Running(Bg) PROVE Running(Bg)'
    <3>1. Idle(<<>>, "enter", counter, Len(pending), txn)
      BY <2>1, <2>4, StageScripts DEF Running, Stage, Inserting, Flushing,
         Committing, Beginning, Creating
    <3>2. Stage(todo'[Bg], "enter", counter, Len(pending), txn)
      BY <2>2, <3>1 DEF Stage, Idle, Inserting, Inserts, Counted
    <3> QED
      BY <2>1, <2>4, <3>2 DEF Running
  <2> QED
    BY <2>1, <2>3, <2>4 DEF Flushes
<1> QED
  BY <1>2, <1>3, <1>4, <1>5, <1>6, <1>7, <1>8, <1>9, NextSteps, Zenon

\* Initially nothing waits.
LEMMA FlushesInit == Init => Flushes
BY DEF Init, Flushes

\* With autocommit=0 at most FlushEvery - 2 rows wait for a COMMIT as long as
\* no statement fails and nothing rotates, and a counter that is about to be
\* tested has counted all of them (sqlite.c:85, 98-102).
THEOREM SqliteFewRowsPending == Safety => []FewRowsPending
<1>1. SqliteIInv /\ Flushes => FewRowsPending
  <2> SUFFICES ASSUME SqliteIInv, Flushes, faults = 0, rotations = 0,
                      pending # <<>>
               PROVE  /\ Len(pending) + 2 <= FlushEvery
                      /\ todo[Bg] = <<>> => Len(pending) < counter
    <3>1. FlushEvery \in Nat /\ Len(pending) \in Nat /\ Len(<<>>) = 0
          /\ FlushEvery > 2
      BY StageTypes, SqliteAssumption
    <3> QED
      BY <3>1 DEF FewRowsPending
  <2>1. Quiet
    BY DEF SqliteIInv, Flags, Fate, Quiet
  <2>2. Running(Bg)
    BY <2>1 DEF Flushes, SqliteIInv, Types, MainPC
  <2> QED
    BY <2>2, StageTypes, StageFew DEF Running
<1> QED
  BY <1>1, SqliteInitIInv, SqliteNextIInv, FlushesInit, FlushesStep, PTL DEF Safety

=============================================================================
