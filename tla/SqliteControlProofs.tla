------------------------ MODULE SqliteControlProofs -------------------------
(***************************************************************************)
(* The initial states satisfy the invariant of the SQLite back end, and    *)
(* the steps preserve its parts about the threads: Types, Flags, Stmts,    *)
(* Control and Handle.  A step of db_exec takes the running thread from    *)
(* one stage to another.                                                   *)
(***************************************************************************)
EXTENDS QueueProofs, TLAPS

\* The invariant holds at the start.
LEMMA SqliteInitIInv == Init => SqliteIInv
<1> SUFFICES ASSUME Init PROVE SqliteIInv
  OBVIOUS
<1> USE FifoAssumption, SqliteAssumption DEF Init, FifoInit
<1>1. Types
  BY DEF Types, DbThreads, ProducerPC, BgPC, ConsumerPC, MainPC, HupPC, Calls,
     NoCall, NULL
<1>2. Stmts
  <2>1. <<>> \in Seq(Plain(autocommit))
    OBVIOUS
  <2>2. QED
    BY <2>1 DEF Stmts, DbThreads, NoCall, Serving, Script
<1>3. Control /\ Handle
  BY DEF Control, Handle, DbThreads, NoCall, NULL
<1>4. Flags
  BY Zenon DEF Flags
<1>5. Fate
  <2>1. stored \o pending = <<>>
    OBVIOUS
  <2>2. Written = {} /\ Lost = {}
    BY <2>1, RowsEmpty DEF Written, Lost
  <2>3. Hand = {}
    BY DEF Hand
  <2>4. popped \in Seq(1..MaxRows) /\ pending \in Seq(1..MaxRows)
        /\ stored \in Seq(1..MaxRows)
    OBVIOUS
  <2>5. Increasing(stored \o pending)
    BY <2>1 DEF Increasing
  <2>6. ~txn /\ (autocommit => ~txn)
    OBVIOUS
  <2>7. QED
    BY <2>2, <2>3, <2>4, <2>5, <2>6 DEF Fate, NULL
<1>6. QED
  BY <1>1, <1>2, <1>3, <1>4, <1>5 DEF SqliteIInv

\* The variables keep their types.
LEMMA TypesStep ==
  ASSUME Types, Stmts, Control, Next \/ UNCHANGED vars
  PROVE  Types'
<1> USE FifoAssumption, SqliteAssumption
<1> USE DEF Types, ProducerPC, BgPC, ConsumerPC, MainPC, HupPC, fifoVars,
   dbVars, runVars, ctlVars, conf
<1>1. CASE MainMoves
  <2>1. CASE exits_early
    BY <2>1 DEF exits_early
  <2>2. CASE bg_thread_stop
    BY <2>2 DEF bg_thread_stop
  <2>3. CASE bg_thread_join
    BY <2>3 DEF bg_thread_join
  <2>4. CASE main_returns
    BY <2>4 DEF main_returns
  <2>5. CASE rotate_lock
    <3>1. rotations < MaxRotations /\ rotations' = rotations + 1
      BY <2>5 DEF rotate_lock, CanRotate
    <3>2. rotations' \in 0..MaxRotations
      BY <3>1
    <3>3. QED
      BY <2>5, <3>2 DEF rotate_lock, fifo_lock
  <2>6. CASE rotate_unlock
    BY <2>6 DEF rotate_unlock, fifo_unlock
  <2>7. QED
    BY <1>1, <2>1, <2>2, <2>3, <2>4, <2>5, <2>6, Zenon DEF MainMoves
<1>2. CASE BgMoves
  <2>1. CASE bg_thread_begins
    BY <2>1 DEF bg_thread_begins
  <2>2. CASE bg_thread_tests
    BY <2>2 DEF bg_thread_tests
  <2>3. CASE bg_thread_frees
    BY <2>3 DEF bg_thread_frees
  <2>4. CASE fifo_wait_signal /\ UNCHANGED <<dbVars, runVars, ctlVars, misuse>>
    BY <2>4 DEF fifo_wait_signal, fifo_wait_lock,
       fifo_wait_block, fifo_wait_timeout, fifo_wait_return
  <2>5. QED
    BY <1>2, <2>1, <2>2, <2>3, <2>4, Zenon DEF BgMoves
<1>3. CASE bg_thread_start
  BY <1>3 DEF bg_thread_start
<1>4. CASE logsqlite_init
  BY <1>4 DEF logsqlite_init, db_open, Fault
<1>5. CASE fork_and_close_parent
  BY <1>5 DEF fork_and_close_parent
<1>6. CASE logsqlite_stop
  BY <1>6 DEF logsqlite_stop, db_close
<1>7. CASE rotate_close
  BY <1>7 DEF rotate_close, db_close
<1>8. CASE rotate_open
  BY <1>8 DEF rotate_open, db_open, Fault
<1>9. CASE bg_thread_got
  BY <1>9 DEF bg_thread_got, NULL
<1>10. CASE fifo_pop /\ UNCHANGED <<dbVars, runVars, ctlVars, misuse>>
  BY <1>10 DEF fifo_pop, NULL
<1>11. ASSUME NEW p \in Producers, logsqlite_log(p) PROVE Types'
  <2>1. CASE fifo_push_first(p)
    BY <1>11, <2>1 DEF logsqlite_log, fifo_push_first, NULL
  <2>2. CASE fifo_push_second(p)
    BY <1>11, <2>2 DEF logsqlite_log, fifo_push_second, NULL
  <2>3. CASE fifo_push_nomem(p)
    BY <1>11, <2>3 DEF logsqlite_log, fifo_push_nomem
  <2>4. QED
    BY <1>11, <2>1, <2>2, <2>3, Zenon DEF logsqlite_log, fifo_push
<1>12. ASSUME NEW p \in Producers, logsqlite_log_signals(p) PROVE Types'
  BY <1>12 DEF logsqlite_log_signals, FifoSignal, fifo_send_signal_lock,
     fifo_send_signal
<1>13. ASSUME NEW t \in DbThreads, db_exec_load(t) PROVE Types'
  <2>1. [at |-> "count", c |-> counter, h |-> 0] \in Calls
    BY DEF Calls, Types
  <2>2. call' \in [DbThreads -> Calls]
    BY <1>13, <2>1 DEF db_exec_load
  <2>3. overlaps' \in 0..MaxOverlaps
    BY <1>13 DEF db_exec_load, Overlap
  <2>4. UNCHANGED <<fifoVars, dbVars, todo, counter, ctlVars>>
    BY <1>13, Zenon DEF db_exec_load
  <2>5. QED
    BY <2>2, <2>3, <2>4
<1>14. ASSUME NEW t \in DbThreads, db_exec_count(t) PROVE Types'
  <2>1. [at |-> "run", c |-> 0, h |-> db] \in Calls
    BY DEF Calls, Types
  <2>2. call[t].c \in Nat
    BY DEF Types, Calls
  <2>3. call' \in [DbThreads -> Calls]
    BY <1>14, <2>1 DEF db_exec_count
  <2>4. UNCHANGED <<fifoVars, dbVars, todo, overlaps, ctlVars>>
    BY <1>14, Zenon DEF db_exec_count
  <2>5. counter' \in Nat
    BY <1>14, <2>2 DEF db_exec_count
  <2>6. QED
    BY <2>3, <2>4, <2>5
<1>15. ASSUME NEW t \in DbThreads, db_exec_runs(t) PROVE Types'
  <2>1. [NoCall EXCEPT !.at = "check"] \in Calls
    BY DEF NoCall, Calls
  <2>2. /\ call' = [call EXCEPT ![t] = [NoCall EXCEPT !.at = "check"]]
        /\ UNCHANGED <<fifoVars, todo, counter, overlaps, ctlVars>>
        /\ UNCHANGED <<db, dbst, faults>>
    BY <1>15, Zenon DEF db_exec_runs, SqliteDoes
  <2>3. call' \in [DbThreads -> Calls]
    BY <2>1, <2>2
  <2>4. QED
    BY <2>2, <2>3
<1>16. ASSUME NEW t \in DbThreads, db_exec_fails(t) PROVE Types'
  <2>1. NoCall \in Calls
    BY DEF NoCall, Calls
  <2>2. faults' \in 0..MaxFaults
    <3>1. faults' = faults \/ (faults < MaxFaults /\ faults' = faults + 1)
      BY <1>16, Zenon DEF db_exec_fails, SqliteRefuses, SqliteRollsBack,
         SqliteMisuse, Fault
    <3>2. QED
      BY <3>1 DEF Types
  <2>3. UNCHANGED <<db, dbst>>
    BY <1>16, Zenon DEF db_exec_fails, SqliteRefuses, SqliteRollsBack,
       SqliteMisuse
  <2>4. QED
    BY <1>16, <2>1, <2>2, <2>3 DEF db_exec_fails
<1>17. ASSUME NEW t \in DbThreads, db_exec_check(t) PROVE Types'
  <2>1. NoCall \in Calls
    BY DEF NoCall, Calls
  <2>2. /\ call' = [call EXCEPT ![t] = NoCall]
        /\ counter' = IF counter >= FlushEvery THEN 0 ELSE counter
        /\ UNCHANGED <<fifoVars, dbVars, overlaps, ctlVars>>
    BY <1>17, Zenon DEF db_exec_check
  <2>3. DOMAIN todo' = DOMAIN todo
    BY <1>17 DEF db_exec_check
  <2>4. call' \in [DbThreads -> Calls] /\ counter' \in Nat
    BY <2>1, <2>2
  <2>5. QED
    BY <2>2, <2>3, <2>4
<1>18. ASSUME NEW t \in DbThreads, db_flush(t) PROVE Types'
  <2>1. UNCHANGED <<fifoVars, dbVars, call, counter, overlaps, ctlVars>>
    BY <1>18, Zenon DEF db_flush
  <2>2. DOMAIN todo' = DOMAIN todo
    BY <1>18, Zenon DEF db_flush
  <2>3. QED
    BY <2>1, <2>2
<1>19. CASE UNCHANGED vars
  BY <1>19 DEF vars
<1>20. QED
  BY <1>1, <1>2, <1>3, <1>4, <1>5, <1>6, <1>7, <1>8, <1>9, <1>10, <1>11,
     <1>12, <1>13, <1>14, <1>15, <1>16, <1>17, <1>18, <1>19, NextSteps, Zenon

\* Flags stay Boolean.
LEMMA FlagsStep ==
  ASSUME Flags, Next \/ UNCHANGED vars
  PROVE  Flags'
<1> USE FifoAssumption
<1> USE DEF Flags, fifoVars, dbVars, runVars, ctlVars, conf
<1>1. CASE MainMoves
  <2>1. CASE exits_early
    BY <2>1, Zenon DEF exits_early
  <2>2. CASE bg_thread_stop
    BY <2>2, Zenon DEF bg_thread_stop
  <2>3. CASE bg_thread_join
    BY <2>3, Zenon DEF bg_thread_join
  <2>4. CASE main_returns
    BY <2>4, Zenon DEF main_returns
  <2>5. CASE rotate_lock
    BY <2>5, Zenon DEF rotate_lock, CanRotate, fifo_lock
  <2>6. CASE rotate_unlock
    BY <2>6, Zenon DEF rotate_unlock, fifo_unlock
  <2>7. QED
    BY <1>1, <2>1, <2>2, <2>3, <2>4, <2>5, <2>6, Zenon DEF MainMoves
<1>2. CASE BgMoves
  <2>1. CASE bg_thread_begins
    BY <2>1, Zenon DEF bg_thread_begins
  <2>2. CASE bg_thread_tests
    BY <2>2, Zenon DEF bg_thread_tests
  <2>3. CASE bg_thread_frees
    BY <2>3, Zenon DEF bg_thread_frees
  <2>4. CASE fifo_wait_signal /\ UNCHANGED <<dbVars, runVars, ctlVars, misuse>>
    BY <2>4, Zenon DEF fifo_wait_signal, fifo_wait_lock,
       fifo_wait_block, fifo_wait_timeout, fifo_wait_return
  <2>5. QED
    BY <1>2, <2>1, <2>2, <2>3, <2>4, Zenon DEF BgMoves
<1>3. CASE bg_thread_start
  BY <1>3 DEF bg_thread_start
<1>4. CASE logsqlite_init
  BY <1>4 DEF logsqlite_init, db_open, Fault
<1>5. CASE fork_and_close_parent
  BY <1>5 DEF fork_and_close_parent
<1>6. CASE logsqlite_stop
  BY <1>6, Zenon DEF logsqlite_stop, db_close
<1>7. CASE rotate_close
  BY <1>7, Zenon DEF rotate_close, db_close
<1>8. CASE rotate_open
  BY <1>8 DEF rotate_open, db_open, Fault
<1>9. CASE bg_thread_got
  BY <1>9 DEF bg_thread_got, NULL
<1>10. CASE fifo_pop /\ UNCHANGED <<dbVars, runVars, ctlVars, misuse>>
  BY <1>10 DEF fifo_pop, NULL
<1>11. ASSUME NEW p \in Producers, logsqlite_log(p) PROVE Flags'
  BY <1>11 DEF logsqlite_log, fifo_push, fifo_push_first, fifo_push_second,
     fifo_push_nomem, NULL
<1>12. ASSUME NEW p \in Producers, logsqlite_log_signals(p) PROVE Flags'
  BY <1>12 DEF logsqlite_log_signals, FifoSignal, fifo_send_signal_lock,
     fifo_send_signal
<1>13. ASSUME NEW t \in DbThreads, db_exec_load(t) PROVE Flags'
  BY <1>13 DEF db_exec_load, Overlap
<1>14. ASSUME NEW t \in DbThreads, db_exec_count(t) PROVE Flags'
  BY <1>14 DEF db_exec_count
<1>15. ASSUME NEW t \in DbThreads, db_exec_runs(t) PROVE Flags'
  BY <1>15, Zenon DEF db_exec_runs, SqliteDoes, NoCall
<1>16. ASSUME NEW t \in DbThreads, db_exec_fails(t) PROVE Flags'
  BY <1>16, Zenon DEF db_exec_fails, SqliteRefuses, SqliteRollsBack,
     SqliteMisuse, Fault, NoCall
<1>17. ASSUME NEW t \in DbThreads, db_exec_check(t) PROVE Flags'
  BY <1>17 DEF db_exec_check, NoCall
<1>18. ASSUME NEW t \in DbThreads, db_flush(t) PROVE Flags'
  BY <1>18 DEF db_flush
<1>19. CASE UNCHANGED vars
  BY <1>19 DEF vars
<1>20. QED
  BY <1>1, <1>2, <1>3, <1>4, <1>5, <1>6, <1>7, <1>8, <1>9, <1>10, <1>11,
     <1>12, <1>13, <1>14, <1>15, <1>16, <1>17, <1>18, <1>19, NextSteps, Zenon

\* Where the threads are: one step per action.
LEMMA ControlStep ==
  ASSUME Types, Stmts, Control, Next \/ UNCHANGED vars
  PROVE  Control'
<1> USE DEF Types, Calls, Stmts, Control, Serving, DbThreads, BgPC, ConsumerPC,
   MainPC, HupPC, fifoVars, dbVars, runVars, ctlVars, conf
<1>1. CASE MainMoves
  <2>1. CASE exits_early
    BY <2>1 DEF exits_early
  <2>2. CASE bg_thread_stop
    BY <2>2 DEF bg_thread_stop
  <2>3. CASE bg_thread_join
    BY <2>3 DEF bg_thread_join
  <2>4. CASE main_returns
    BY <2>4 DEF main_returns
  <2>5. CASE rotate_lock
    BY <2>5 DEF rotate_lock, CanRotate, fifo_lock
  <2>6. CASE rotate_unlock
    BY <2>6 DEF rotate_unlock, fifo_unlock
  <2>7. QED
    BY <1>1, <2>1, <2>2, <2>3, <2>4, <2>5, <2>6, Zenon DEF MainMoves
<1>2. CASE BgMoves
  <2>1. CASE bg_thread_begins
    BY <2>1 DEF bg_thread_begins
  <2>2. CASE bg_thread_tests
    BY <2>2 DEF bg_thread_tests
  <2>3. CASE bg_thread_frees
    BY <2>3 DEF bg_thread_frees
  <2>4. CASE fifo_wait_signal /\ UNCHANGED <<dbVars, runVars, ctlVars, misuse>>
    BY <2>4 DEF fifo_wait_signal, fifo_wait_lock,
       fifo_wait_block, fifo_wait_timeout, fifo_wait_return
  <2>5. QED
    BY <1>2, <2>1, <2>2, <2>3, <2>4, Zenon DEF BgMoves
<1>3. CASE bg_thread_start
  BY <1>3 DEF bg_thread_start
<1>4. CASE logsqlite_init
  BY <1>4 DEF logsqlite_init, db_open, Fault
<1>5. CASE fork_and_close_parent
  BY <1>5 DEF fork_and_close_parent
<1>6. CASE logsqlite_stop
  BY <1>6 DEF logsqlite_stop, db_close
<1>7. CASE rotate_close
  BY <1>7 DEF rotate_close, db_close
<1>8. CASE rotate_open
  BY <1>8 DEF rotate_open, db_open, Fault
<1>9. CASE bg_thread_got
  BY <1>9 DEF bg_thread_got, NULL
<1>10. CASE fifo_pop /\ UNCHANGED <<dbVars, runVars, ctlVars, misuse>>
  BY <1>10 DEF fifo_pop, NULL
<1>11. ASSUME NEW p \in Producers, logsqlite_log(p) PROVE Control'
  <2>1. CASE fifo_push_first(p)
    BY <1>11, <2>1 DEF logsqlite_log, fifo_push_first, NULL
  <2>2. CASE fifo_push_second(p)
    BY <1>11, <2>2 DEF logsqlite_log, fifo_push_second, NULL
  <2>3. CASE fifo_push_nomem(p)
    BY <1>11, <2>3 DEF logsqlite_log, fifo_push_nomem
  <2>4. QED
    BY <1>11, <2>1, <2>2, <2>3, Zenon DEF logsqlite_log, fifo_push
<1>12. ASSUME NEW p \in Producers, logsqlite_log_signals(p) PROVE Control'
  BY <1>12 DEF logsqlite_log_signals, FifoSignal, fifo_send_signal_lock,
     fifo_send_signal
<1>13. ASSUME NEW t \in DbThreads, db_exec_load(t) PROVE Control'
  BY <1>13 DEF db_exec_load, Overlap
<1>14. ASSUME NEW t \in DbThreads, db_exec_count(t) PROVE Control'
  BY <1>14 DEF db_exec_count
<1>15. ASSUME NEW t \in DbThreads, db_exec_runs(t) PROVE Control'
  BY <1>15 DEF db_exec_runs, SqliteDoes, NoCall
<1>16. ASSUME NEW t \in DbThreads, db_exec_fails(t) PROVE Control'
  BY <1>16 DEF db_exec_fails, SqliteRefuses, SqliteRollsBack,
     SqliteMisuse, Fault, NoCall
<1>17. ASSUME NEW t \in DbThreads, db_exec_check(t) PROVE Control'
  BY <1>17 DEF db_exec_check, NoCall
<1>18. ASSUME NEW t \in DbThreads, db_flush(t) PROVE Control'
  BY <1>18 DEF db_flush
<1>19. CASE UNCHANGED vars
  BY <1>19 DEF vars
<1>20. QED
  BY <1>1, <1>2, <1>3, <1>4, <1>5, <1>6, <1>7, <1>8, <1>9, <1>10, <1>11,
     <1>12, <1>13, <1>14, <1>15, <1>16, <1>17, <1>18, <1>19, NextSteps, Zenon

\* A thread inside sqlite3_exec uses the current handle until a rotation.
LEMMA HandleStep ==
  ASSUME Types, Stmts, Control, Handle, Next \/ UNCHANGED vars
  PROVE  Handle'
<1> USE DEF Types, Calls, Stmts, Control, Handle, Serving, Stale, DbThreads,
   fifoVars, dbVars, runVars, ctlVars, conf
<1>1. CASE MainMoves
  <2>1. CASE exits_early
    BY <2>1 DEF exits_early
  <2>2. CASE bg_thread_stop
    BY <2>2 DEF bg_thread_stop
  <2>3. CASE bg_thread_join
    BY <2>3 DEF bg_thread_join
  <2>4. CASE main_returns
    BY <2>4 DEF main_returns
  <2>5. CASE rotate_lock
    BY <2>5 DEF rotate_lock, CanRotate, fifo_lock
  <2>6. CASE rotate_unlock
    BY <2>6 DEF rotate_unlock, fifo_unlock
  <2>7. QED
    BY <1>1, <2>1, <2>2, <2>3, <2>4, <2>5, <2>6, Zenon DEF MainMoves
<1>2. CASE BgMoves
  <2>1. CASE bg_thread_begins
    BY <2>1 DEF bg_thread_begins
  <2>2. CASE bg_thread_tests
    BY <2>2 DEF bg_thread_tests
  <2>3. CASE bg_thread_frees
    BY <2>3 DEF bg_thread_frees
  <2>4. CASE fifo_wait_signal /\ UNCHANGED <<dbVars, runVars, ctlVars, misuse>>
    BY <2>4 DEF fifo_wait_signal, fifo_wait_lock,
       fifo_wait_block, fifo_wait_timeout, fifo_wait_return
  <2>5. QED
    BY <1>2, <2>1, <2>2, <2>3, <2>4, Zenon DEF BgMoves
<1>3. CASE bg_thread_start
  BY <1>3 DEF bg_thread_start
<1>4. CASE logsqlite_init
  BY <1>4 DEF logsqlite_init, db_open, Fault
<1>5. CASE fork_and_close_parent
  BY <1>5 DEF fork_and_close_parent
<1>6. CASE logsqlite_stop
  BY <1>6, Zenon DEF logsqlite_stop, db_close
<1>7. CASE rotate_close
  BY <1>7 DEF rotate_close, db_close
<1>8. CASE rotate_open
  BY <1>8 DEF rotate_open, db_open, Fault
<1>9. CASE bg_thread_got
  BY <1>9 DEF bg_thread_got, NULL
<1>10. CASE fifo_pop /\ UNCHANGED <<dbVars, runVars, ctlVars, misuse>>
  BY <1>10 DEF fifo_pop, NULL
<1>11. ASSUME NEW p \in Producers, logsqlite_log(p) PROVE Handle'
  BY <1>11 DEF logsqlite_log, fifo_push, fifo_push_first, fifo_push_second,
     fifo_push_nomem, NULL
<1>12. ASSUME NEW p \in Producers, logsqlite_log_signals(p) PROVE Handle'
  BY <1>12 DEF logsqlite_log_signals, FifoSignal, fifo_send_signal_lock,
     fifo_send_signal
<1>13. ASSUME NEW t \in DbThreads, db_exec_load(t) PROVE Handle'
  BY <1>13 DEF db_exec_load, Overlap
<1>14. ASSUME NEW t \in DbThreads, db_exec_count(t) PROVE Handle'
  BY <1>14 DEF db_exec_count
<1>15. ASSUME NEW t \in DbThreads, db_exec_runs(t) PROVE Handle'
  BY <1>15 DEF db_exec_runs, SqliteDoes, NoCall
<1>16. ASSUME NEW t \in DbThreads, db_exec_fails(t) PROVE Handle'
  BY <1>16, Zenon DEF db_exec_fails, SqliteRefuses, SqliteRollsBack,
     SqliteMisuse, Fault, NoCall
<1>17. ASSUME NEW t \in DbThreads, db_exec_check(t) PROVE Handle'
  BY <1>17 DEF db_exec_check, NoCall
<1>18. ASSUME NEW t \in DbThreads, db_flush(t) PROVE Handle'
  BY <1>18, Zenon DEF db_flush
<1>19. CASE UNCHANGED vars
  BY <1>19 DEF vars
<1>20. QED
  BY <1>1, <1>2, <1>3, <1>4, <1>5, <1>6, <1>7, <1>8, <1>9, <1>10, <1>11,
     <1>12, <1>13, <1>14, <1>15, <1>16, <1>17, <1>18, <1>19, NextSteps, Zenon

\* Only bg_thread_got gives a thread an INSERT to run.
LEMMA StmtsStep ==
  ASSUME Types, Flags, Stmts, Control, Next \/ UNCHANGED vars
  PROVE  Stmts'
<1> USE FifoAssumption
<1> USE DEF Types, Calls, Stmts, Control, Serving, DbThreads, fifoVars, dbVars,
   runVars, ctlVars, conf
<1>1. CASE MainMoves
  <2>1. CASE exits_early
    BY <2>1 DEF exits_early
  <2>2. CASE bg_thread_stop
    BY <2>2 DEF bg_thread_stop
  <2>3. CASE bg_thread_join
    BY <2>3 DEF bg_thread_join
  <2>4. CASE main_returns
    BY <2>4 DEF main_returns
  <2>5. CASE rotate_lock
    BY <2>5 DEF rotate_lock, CanRotate, fifo_lock
  <2>6. CASE rotate_unlock
    BY <2>6 DEF rotate_unlock, fifo_unlock
  <2>7. QED
    BY <1>1, <2>1, <2>2, <2>3, <2>4, <2>5, <2>6, Zenon DEF MainMoves
<1>2. CASE BgMoves
  <2>1. CASE bg_thread_begins
    BY <2>1 DEF bg_thread_begins
  <2>2. CASE bg_thread_tests
    BY <2>2 DEF bg_thread_tests
  <2>3. CASE bg_thread_frees
    BY <2>3 DEF bg_thread_frees
  <2>4. CASE fifo_wait_signal /\ UNCHANGED <<dbVars, runVars, ctlVars, misuse>>
    BY <2>4 DEF fifo_wait_signal, fifo_wait_lock,
       fifo_wait_block, fifo_wait_timeout, fifo_wait_return
  <2>5. QED
    BY <1>2, <2>1, <2>2, <2>3, <2>4, Zenon DEF BgMoves
<1>3. CASE bg_thread_start
  BY <1>3 DEF bg_thread_start
<1>4. CASE logsqlite_init
  <2>1. \A n : Script(Main, OpenScript, autocommit, n)
    BY PlainHas DEF Script, Flags
  <2>2. CASE todo' = [todo EXCEPT ![Main] = OpenScript]
    <3>1. /\ todo' = [u \in DbThreads |-> todo'[u]]
          /\ todo'[Main] = OpenScript /\ todo'[Bg] = todo[Bg]
      BY <2>2, TodoExcept, SqliteAssumption, Zenon DEF DbThreads
    <3>2. call[Main].at = "enter"
      BY <1>4 DEF logsqlite_init, Stmts, DbThreads
    <3>3. QED
      BY <1>4, <2>1, <3>1, <3>2, SqliteAssumption DEF logsqlite_init, db_open
  <2>3. CASE UNCHANGED todo
    BY <1>4, <2>3, SqliteAssumption DEF logsqlite_init, db_open
  <2>4. QED
    BY <1>4, <2>2, <2>3, Zenon DEF logsqlite_init, db_open
<1>5. CASE fork_and_close_parent
  BY <1>5 DEF fork_and_close_parent
<1>6. CASE logsqlite_stop
  BY <1>6 DEF logsqlite_stop, db_close
<1>7. CASE rotate_close
  BY <1>7 DEF rotate_close, db_close
<1>8. CASE rotate_open
  <2>1. \A n : Script(Main, OpenScript, autocommit, n)
    BY PlainHas DEF Script, Flags
  <2>2. CASE todo' = [todo EXCEPT ![Main] = OpenScript]
    <3>1. /\ todo' = [u \in DbThreads |-> todo'[u]]
          /\ todo'[Main] = OpenScript /\ todo'[Bg] = todo[Bg]
      BY <2>2, TodoExcept, SqliteAssumption, Zenon DEF DbThreads
    <3>2. call[Main].at = "enter"
      BY <1>8 DEF rotate_open, Stmts, DbThreads
    <3>3. QED
      BY <1>8, <2>1, <3>1, <3>2, SqliteAssumption DEF rotate_open, db_open
  <2>3. CASE UNCHANGED todo
    BY <1>8, <2>3, SqliteAssumption DEF rotate_open, db_open
  <2>4. QED
    BY <1>8, <2>2, <2>3, Zenon DEF rotate_open, db_open
<1>9. CASE bg_thread_got
  <2>1. \A n : Script(Bg, <<>>, autocommit, n)
    BY DEF Script
  <2>2. ret # 0 => Script(Bg, <<Insert(ret)>>, autocommit, next)
    BY DEF Script, Types, Control
  <2>3. call[Bg].at = "enter"
    BY <1>9 DEF bg_thread_got, Stmts, DbThreads
  <2>4. /\ todo' = [u \in DbThreads |-> todo'[u]] /\ todo'[Main] = todo[Main]
        /\ todo'[Bg] = IF ret = NULL THEN <<>> ELSE <<Insert(ret)>>
    BY <1>9, TodoExcept, SqliteAssumption, Zenon DEF bg_thread_got, DbThreads
  <2>5. QED
    BY <1>9, <2>1, <2>2, <2>3, <2>4, SqliteAssumption, Zenon DEF bg_thread_got,
       NULL
<1>10. CASE fifo_pop /\ UNCHANGED <<dbVars, runVars, ctlVars, misuse>>
  BY <1>10 DEF fifo_pop, NULL
<1>11. ASSUME NEW p \in Producers, logsqlite_log(p) PROVE Stmts'
  <2>1. \A t \in DbThreads : Script(t, todo[t], autocommit, next + 1)
    BY ScriptMore DEF Stmts, Types
  <2>2. QED
    BY <1>11, <2>1 DEF logsqlite_log, fifo_push, fifo_push_first,
       fifo_push_second, fifo_push_nomem, NULL
<1>12. ASSUME NEW p \in Producers, logsqlite_log_signals(p) PROVE Stmts'
  BY <1>12 DEF logsqlite_log_signals, FifoSignal, fifo_send_signal_lock,
     fifo_send_signal
<1>13. ASSUME NEW t \in DbThreads, db_exec_load(t) PROVE Stmts'
  BY <1>13 DEF db_exec_load, Overlap
<1>14. ASSUME NEW t \in DbThreads, db_exec_count(t) PROVE Stmts'
  BY <1>14 DEF db_exec_count
<1>15. ASSUME NEW t \in DbThreads, db_exec_runs(t) PROVE Stmts'
  BY <1>15 DEF db_exec_runs, SqliteDoes, NoCall
<1>16. ASSUME NEW t \in DbThreads, db_exec_fails(t) PROVE Stmts'
  <2>1. PICK s \in Seq(Plain(autocommit)) : todo' = [todo EXCEPT ![t] = s]
    BY <1>16, ReturnScript, Zenon
  <2>2. Script(t, s, autocommit, next)
    BY DEF Script
  <2>3. QED
    BY <1>16, <2>1, <2>2, ReturnScript, ScriptStep, Zenon
<1>17. ASSUME NEW t \in DbThreads, db_exec_check(t) PROVE Stmts'
  <2>1. PICK s \in Seq(Plain(autocommit)) : todo' = [todo EXCEPT ![t] = s]
    BY <1>17, ReturnScript, Zenon
  <2>2. Script(t, s, autocommit, next)
    BY DEF Script
  <2>3. QED
    BY <1>17, <2>1, <2>2, ReturnScript, ScriptStep, Zenon
<1>18. ASSUME NEW t \in DbThreads, db_flush(t) PROVE Stmts'
  <2>1. PICK s \in Seq(Plain(autocommit)) : todo' = [todo EXCEPT ![t] = s]
    BY <1>18, ReturnScript, Zenon
  <2>2. Script(t, s, autocommit, next)
    BY DEF Script
  <2>3. QED
    BY <1>18, <2>1, <2>2, ReturnScript, ScriptStep, Zenon
<1>19. CASE UNCHANGED vars
  BY <1>19 DEF vars
<1>20. QED
  BY <1>1, <1>2, <1>3, <1>4, <1>5, <1>6, <1>7, <1>8, <1>9, <1>10, <1>11,
     <1>12, <1>13, <1>14, <1>15, <1>16, <1>17, <1>18, <1>19, NextSteps, Zenon

-----------------------------------------------------------------------------
(* The stages of the running thread.                                       *)

\* The running thread enters db_exec, and counts.
LEMMA RunningCounts ==
  ASSUME SqliteIInv, NEW t \in DbThreads, Running(t),
         db_exec_load(t) \/ db_exec_count(t)
  PROVE  Running(t)' /\ pending' = pending
<1>1. UNCHANGED <<todo, dbst, pending, txn>>
  BY DEF db_exec_load, db_exec_count, dbVars
<1>2. CASE db_exec_load(t)
  <2>1. /\ call'[t].at = "count" /\ call'[t].c = counter /\ counter' = counter
        /\ call[t].at = "enter" /\ todo[t] # <<>> /\ Head(todo[t]).op # "FLUSH"
    BY <1>2 DEF db_exec_load, SqliteIInv, Types
  <2>2. Stage(todo[t], "count", counter, Len(pending), txn)
    BY <2>1, StageTypes, StageCounts DEF Running
  <2> QED
    BY <1>1, <2>1, <2>2 DEF Running
<1>3. CASE db_exec_count(t)
  <2>1. /\ call'[t].at = "run" /\ counter' = counter + 1
        /\ call[t].at = "count"
    BY <1>3 DEF db_exec_count, SqliteIInv, Types, Running
  <2>2. Stage(todo[t], "run", counter + 1, Len(pending), txn)
    BY <2>1, StageTypes, StageCounts DEF Running
  <2> QED
    BY <1>1, <2>1, <2>2 DEF Running
<1> QED
  BY <1>2, <1>3

\* Its statement succeeds ...
LEMMA RunningRuns ==
  ASSUME SqliteIInv, NEW t \in DbThreads, Running(t), db_exec_runs(t)
  PROVE  Running(t)' /\ (t = Main /\ pending = <<>> => pending' = <<>>)
<1> DEFINE op == Head(todo[t]).op
<1>1. /\ UNCHANGED <<todo, dbst, counter>> /\ SqliteDoes(Head(todo[t]))
      /\ call'[t].at = "check" /\ call[t].at = "run"
  BY DEF db_exec_runs, SqliteDoes, SqliteIInv, Types, NoCall
<1>2. todo[t] # <<>>
  BY <1>1 DEF SqliteIInv, Stmts
<1>3. op \in SqlOps /\ (op = "INSERT" => t = Bg /\ Head(todo[t]).row \in RowSet)
  <2>1. CASE Head(todo[t]) \in Plain(autocommit)
    BY <2>1 DEF Plain, SqlOps
  <2>2. CASE t = Bg /\ \E n \in 1..next : Head(todo[t]) = Insert(n)
    BY <2>2, FifoAssumption DEF Insert, SqlOps, RowSet, SqliteIInv, Types
  <2> QED
    BY <1>2, <2>1, <2>2, Statement DEF SqliteIInv
<1>4. Stage(todo[t], "run", counter, Len(pending), txn)
  BY <1>1 DEF Running
<1>5. /\ op = "INSERT" => txn /\ Stage(todo[t], "check", counter, Len(pending) + 1, txn)
      /\ op = "COMMIT" => txn /\ Stage(todo[t], "check", counter, 0, FALSE)
      /\ op = "BEGIN" => ~txn /\ Stage(todo[t], "check", counter, Len(pending), TRUE)
      /\ op \notin {"INSERT", "COMMIT", "BEGIN"} =>
           Stage(todo[t], "check", counter, Len(pending), txn)
  BY <1>4, StageTypes, StageRuns
<1>6. /\ op = "INSERT" /\ txn =>
           txn' = txn /\ pending' = Append(pending, Head(todo[t]).row)
      /\ op = "COMMIT" => txn' = FALSE /\ pending' = <<>>
      /\ op = "BEGIN" => txn' = TRUE /\ pending' = pending
      /\ op \notin {"INSERT", "COMMIT", "BEGIN"} =>
           txn' = txn /\ pending' = pending
  BY <1>1, Zenon DEF SqliteDoes
<1>7. /\ Len(<<>>) = 0
      /\ op = "INSERT" => Len(Append(pending, Head(todo[t]).row)) = Len(pending) + 1
  BY <1>3 DEF SqliteIInv, Fate, RowSet
<1>8. Stage(todo[t], "check", counter, Len(pending'), txn')
  BY <1>5, <1>6, <1>7, Zenon
<1>9. t = Main => op # "INSERT"
  BY <1>3, SqliteAssumption
<1> QED
  BY <1>1, <1>6, <1>8, <1>9 DEF Running

\* ... and never fails unless SQLite does.
LEMMA RunningFails ==
  ASSUME SqliteIInv, NEW t \in DbThreads, Running(t), Quiet, db_exec_fails(t)
  PROVE  ~Quiet'
<1>1. call[t].at = "run" /\ dbst = "open" /\ ~Stale(t)
  BY DEF db_exec_fails, SqliteIInv, Handle, Quiet, Running, Stale
<1>2. Stage(todo[t], "run", counter, Len(pending), txn)
  BY <1>1 DEF Running
<1>3. ~(Head(todo[t]).op = "BEGIN" /\ txn) /\ ~(Head(todo[t]).op = "COMMIT" /\ ~txn)
  BY <1>2, StageTypes, StageRuns, Zenon
<1>4. faults' = faults + 1
  BY <1>1, <1>3 DEF db_exec_fails, SqliteRefuses, SqliteRollsBack, Fault
<1> QED
  BY <1>4 DEF Quiet

\* It looks at the counter, or flushes.
LEMMA RunningReturns ==
  ASSUME SqliteIInv, NEW t \in DbThreads, Running(t), ~autocommit,
         db_exec_check(t) \/ db_flush(t)
  PROVE  Running(t)' /\ pending' = pending
<1>1. UNCHANGED <<dbst, pending, txn>>
  BY DEF db_exec_check, db_flush, dbVars
<1>2. CASE db_exec_check(t)
  <2> DEFINE s == IF counter >= FlushEvery THEN <<Sql("FLUSH")>> \o Tail(todo[t])
                                           ELSE Tail(todo[t])
  <2>1. /\ call[t].at = "check" /\ call'[t].at = "enter"
        /\ counter' = IF counter >= FlushEvery THEN 0 ELSE counter
    BY <1>2 DEF db_exec_check, SqliteIInv, Types, NoCall
  <2>2. todo'[t] = s
    BY <1>2 DEF db_exec_check, SqliteIInv, Types
  <2>3. /\ counter >= FlushEvery =>
             Stage(Flush \o Tail(todo[t]), "enter", 0, Len(pending), txn)
        /\ counter < FlushEvery =>
             Stage(Tail(todo[t]), "enter", counter, Len(pending), txn)
    BY <2>1, StageTypes, StageChecks DEF Running
  <2>4. counter >= FlushEvery \/ (counter < FlushEvery /\ ~(counter >= FlushEvery))
    BY StageTypes, SqliteAssumption
  <2>5. Stage(todo'[t], "enter", counter', Len(pending), txn)
    BY <2>1, <2>2, <2>3, <2>4, Zenon DEF Flush
  <2> QED
    BY <1>1, <2>1, <2>5 DEF Running
<1>3. CASE db_flush(t)
  <2>1. todo[t] # <<>> /\ Head(todo[t]).op = "FLUSH" /\ UNCHANGED <<call, counter>>
    BY <1>3 DEF db_flush
  <2>2. /\ txn => todo'[t] = Commit \o Tail(todo[t])
        /\ ~txn => todo'[t] = Begin \o Tail(todo[t])
    <3>1. dbst # "closed" /\ DOMAIN todo = DbThreads
      BY DEF Running, SqliteIInv, Types
    <3> DEFINE s(i) == CASE autocommit -> Tail(todo[t])
                         [] ~autocommit /\ i -> Commit \o Tail(todo[t])
                         [] ~autocommit /\ ~i -> Begin \o Tail(todo[t])
    <3>2. PICK i \in {txn} : todo' = [todo EXCEPT ![t] = s(i)]
      BY <1>3, <3>1, Zenon DEF db_flush, Commit, Begin
    <3>3. (i => s(i) = Commit \o Tail(todo[t])) /\ (~i => s(i) = Begin \o Tail(todo[t]))
      BY Zenon
    <3> HIDE DEF s
    <3>4. todo'[t] = s(i) /\ i = txn
      BY <3>1, <3>2, Zenon
    <3> QED
      BY <3>3, <3>4, Zenon
  <2>3. /\ txn => Stage(Commit \o Tail(todo[t]), call[t].at, counter, Len(pending), txn)
        /\ ~txn => Stage(Begin \o Tail(todo[t]), call[t].at, counter, Len(pending), txn)
    BY <2>1, StageTypes, StageFlushes DEF Running
  <2>4. Stage(todo'[t], call[t].at, counter, Len(pending), txn)
    BY <2>2, <2>3, Zenon
  <2> QED
    BY <1>1, <2>1, <2>4 DEF Running
<1> QED
  BY <1>2, <1>3

=============================================================================
