---------------------------- MODULE SqliteEngine ----------------------------
(***************************************************************************)
(* The SQLite back end (src/src/pdns-logger-sqlite.c) with the main()      *)
(* calls that start, fork, rotate and stop it (src/src/pdns-logger.c).     *)
(*                                                                         *)
(* Two threads run database code: Main (start, stop, and the SIGHUP        *)
(* handler, which Linux delivers to the main thread) and Bg, the writer    *)
(* bg_thread_exec.  Connection threads only push rows; nothing ever stops  *)
(* them before the process ends.                                           *)
(*                                                                         *)
(* The SQL a thread still has to run is a stack, todo[t]: db_exec consumes *)
(* its head, db_flush puts COMMIT and BEGIN in front.  One db_exec is four *)
(* steps, because Bg and Main share `counter' and `db' without a lock.     *)
(***************************************************************************)
EXTENDS Fifo

CONSTANTS
  Main,                 \* the main thread
  Autocommits,          \* values of [sqlite3] autocommit considered
  Foregrounds,          \* values of -f considered
  FlushEvery,           \* the 50 of db_exec
  Faults,               \* what SQLite may do wrong: see SqliteFaults
  MaxFaults,            \* bound on how often it does
  MaxRotations,         \* bound on the number of SIGHUPs
  MaxOverlaps           \* bound on the db_exec calls that overlap another

\* A failing open, a failing statement, and a failing statement that also
\* rolls the transaction back.
SqliteFaults == {"open", "exec", "rollback"}

ASSUME SqliteAssumption ==
  /\ Main \notin Producers \cup {Bg, Free}
  /\ Autocommits \subseteq BOOLEAN /\ Foregrounds \subseteq BOOLEAN
  /\ FlushEvery \in Nat /\ FlushEvery > 2
  /\ Faults \subseteq SqliteFaults
  /\ MaxFaults \in Nat /\ MaxRotations \in Nat /\ MaxOverlaps \in Nat

VARIABLES
  autocommit,           \* the configuration: commit each statement
  foreground,           \* the configuration: do not fork
  mpc,                  \* where Main is
  hpc,                  \* where Main's SIGHUP handler is in logsqlite_rotate
  bgrunning,            \* the flag of the same name
  todo,                 \* per thread: statements still to run
  call,                 \* per thread: where it is in db_exec and its locals
  counter,              \* the counter of db_exec
  db,                   \* the handle: 0 is null, then 1, 2, ... per open
  dbst,                 \* "null", "open", "bad" (open failed) or "closed"
  txn,                  \* SQLite: a transaction is open
  pending,              \* rows inserted in the open transaction
  stored,               \* rows in the database for good
  failed,               \* rows whose INSERT failed
  rolledback,           \* rows inserted, then rolled back
  faults,               \* faults of SQLite so far
  misuse,               \* a closed handle was used
  rotations,            \* SIGHUPs handled so far
  overlaps              \* db_exec calls entered while another one ran

conf == <<autocommit, foreground>>
dbVars == <<db, dbst, txn, pending, stored, failed, rolledback, faults>>
runVars == <<todo, call, counter, overlaps, conf>>
ctlVars == <<mpc, hpc, bgrunning, rotations>>
vars == <<fifoVars, dbVars, runVars, ctlVars, misuse>>

DbThreads == {Main, Bg}
SqlOps == {"CREATE", "INSERT", "COMMIT", "BEGIN", "FLUSH"}
Sql(op) == [op |-> op, row |-> 0]
Insert(n) == [op |-> "INSERT", row |-> n]

MainPC == {"start", "open", "opening", "serving", "join", "close", "closed",
           "exit"}
HupPC == {"idle", "close", "open", "opening"}
BgPC == ConsumerPC \cup {"none", "start", "test", "exec", "exited", "gone"}

\* Connection threads exist from the first accept until the process ends.
Serving == mpc \in {"serving", "join", "close", "closed"}

NoCall == [at |-> "enter", c |-> 0, h |-> 0]
Rows(s) == {s[i] : i \in 1..Len(s)}

Init ==
  /\ FifoInit /\ cpc = "none"
  /\ autocommit \in Autocommits /\ foreground \in Foregrounds
  /\ mpc = "start" /\ hpc = "idle"
  /\ bgrunning = FALSE
  /\ todo = [t \in DbThreads |-> <<>>]
  /\ call = [t \in DbThreads |-> NoCall]
  /\ counter = 0
  /\ db = 0 /\ dbst = "null"
  /\ txn = FALSE
  /\ pending = <<>> /\ stored = <<>>
  /\ failed = {} /\ rolledback = {}
  /\ faults = 0 /\ misuse = FALSE
  /\ rotations = 0
  /\ overlaps = 0

-----------------------------------------------------------------------------
(* SQLite, as far as this program uses it.                                 *)

\* SQLite does one of the things in Faults.
Fault(f) == f \in Faults /\ faults < MaxFaults /\ faults' = faults + 1

\* sqlite3_exec succeeds.
SqliteDoes(s) ==
  /\ dbst = "open"
  /\ s.op = "BEGIN" => ~txn
  /\ s.op = "COMMIT" => txn
  /\ txn' = CASE s.op = "BEGIN" -> TRUE [] s.op = "COMMIT" -> FALSE
              [] OTHER -> txn
  /\ pending' = CASE s.op = "INSERT" /\ txn -> Append(pending, s.row)
                  [] s.op = "COMMIT" -> <<>>
                  [] OTHER -> pending
  /\ stored' = CASE s.op = "INSERT" /\ ~txn -> Append(stored, s.row)
                 [] s.op = "COMMIT" -> stored \o pending
                 [] OTHER -> stored
  /\ UNCHANGED <<db, dbst, failed, rolledback, faults>>

\* sqlite3_exec fails: by a fault, on a handle that did not open, or because
\* BEGIN and COMMIT do not match the transaction.
SqliteRefuses(s) ==
  /\ IF dbst # "open" \/ (s.op = "BEGIN" /\ txn) \/ (s.op = "COMMIT" /\ ~txn)
     THEN UNCHANGED faults ELSE Fault("exec")
  /\ failed' = IF s.op = "INSERT" THEN failed \cup {s.row} ELSE failed
  /\ UNCHANGED <<db, dbst, txn, pending, stored, rolledback>>

\* sqlite3_exec fails and SQLite ends the transaction (disk full, I/O error).
SqliteRollsBack(s) ==
  /\ Fault("rollback")
  /\ dbst = "open" /\ txn
  /\ txn' = FALSE
  /\ pending' = <<>>
  /\ rolledback' = rolledback \cup Rows(pending)
  /\ failed' = IF s.op = "INSERT" THEN failed \cup {s.row} ELSE failed
  /\ UNCHANGED <<db, dbst, stored>>

\* Using a handle that was closed is undefined: the process dies or the call
\* reports SQLITE_MISUSE.
SqliteMisuse(s) ==
  /\ misuse' = TRUE
  /\ alive' \in BOOLEAN
  /\ failed' = IF s.op = "INSERT" THEN failed \cup {s.row} ELSE failed
  /\ UNCHANGED faults
  /\ UNCHANGED <<db, dbst, txn, pending, stored, rolledback>>

-----------------------------------------------------------------------------
(* db_exec, db_flush, db_open and db_close, on thread t.                   *)

\* The other thread is inside db_exec.
Overlap(t) == \E u \in DbThreads \ {t} : call[u].at # "enter"

\* db_exec of the next statement: counter++ reads the counter ...  Two threads
\* that keep overwriting each other's counter can flush for ever, one flush
\* inside the other; MaxOverlaps bounds that.
db_exec_load(t) ==
  /\ alive
  /\ todo[t] # <<>> /\ Head(todo[t]).op # "FLUSH"
  /\ call[t].at = "enter"
  /\ Overlap(t) => overlaps < MaxOverlaps
  /\ overlaps' = IF Overlap(t) THEN overlaps + 1 ELSE overlaps
  /\ call' = [call EXCEPT ![t] = [at |-> "count", c |-> counter, h |-> 0]]
  /\ UNCHANGED <<fifoVars, dbVars, todo, counter, conf, ctlVars, misuse>>

\* ... and writes it back, and the handle is read.
db_exec_count(t) ==
  /\ alive
  /\ call[t].at = "count"
  /\ counter' = call[t].c + 1
  /\ call' = [call EXCEPT ![t] = [at |-> "run", c |-> 0, h |-> db]]
  /\ UNCHANGED <<fifoVars, dbVars, todo, overlaps, conf, ctlVars, misuse>>

\* The handle t read is no longer the open connection.
Stale(t) == call[t].h # db \/ dbst = "closed"

\* sqlite3_exec returns an error: db_exec returns without looking at counter.
db_exec_fails(t) ==
  /\ alive
  /\ call[t].at = "run"
  /\ \/ /\ ~Stale(t)
        /\ SqliteRefuses(Head(todo[t])) \/ SqliteRollsBack(Head(todo[t]))
        /\ UNCHANGED <<alive, misuse>>
     \/ Stale(t) /\ SqliteMisuse(Head(todo[t]))
  /\ todo' = [todo EXCEPT ![t] = Tail(@)]
  /\ call' = [call EXCEPT ![t] = NoCall]
  /\ UNCHANGED <<next, head, tail, lock, sync, ppc, cpc, ret, popped, dropped,
                 counter, overlaps, conf, ctlVars>>

\* sqlite3_exec succeeds.
db_exec_runs(t) ==
  /\ alive
  /\ call[t].at = "run"
  /\ ~Stale(t)
  /\ SqliteDoes(Head(todo[t]))
  /\ call' = [call EXCEPT ![t] = [NoCall EXCEPT !.at = "check"]]
  /\ UNCHANGED <<fifoVars, todo, counter, overlaps, conf, ctlVars, misuse>>

\* Two slips: after a flush the statement is run again; the counter is reset
\* without a flush.
db_exec_check_again(t) ==
  /\ alive
  /\ call[t].at = "check"
  /\ counter' = IF counter >= FlushEvery THEN 0 ELSE counter
  /\ todo' = [todo EXCEPT ![t] =
                IF counter >= FlushEvery THEN <<Sql("FLUSH")>> \o @
                                         ELSE Tail(@)]
  /\ call' = [call EXCEPT ![t] = NoCall]
  /\ UNCHANGED <<fifoVars, dbVars, overlaps, conf, ctlVars, misuse>>
db_exec_check_resets(t) ==
  /\ alive
  /\ call[t].at = "check"
  /\ counter' = IF counter >= FlushEvery THEN 0 ELSE counter
  /\ todo' = [todo EXCEPT ![t] = Tail(@)]
  /\ call' = [call EXCEPT ![t] = NoCall]
  /\ UNCHANGED <<fifoVars, dbVars, overlaps, conf, ctlVars, misuse>>

\* "From time to time, flush the tables".
db_exec_check(t) ==
  /\ alive
  /\ call[t].at = "check"
  /\ counter' = IF counter >= FlushEvery THEN 0 ELSE counter
  /\ todo' = [todo EXCEPT ![t] =
                IF counter >= FlushEvery THEN <<Sql("FLUSH")>> \o Tail(@)
                                         ELSE Tail(@)]
  /\ call' = [call EXCEPT ![t] = NoCall]
  /\ UNCHANGED <<fifoVars, dbVars, overlaps, conf, ctlVars, misuse>>

\* A slip: db_flush does not look at autocommit.
db_flush_always(t) ==
  /\ alive
  /\ todo[t] # <<>> /\ Head(todo[t]).op = "FLUSH"
  /\ todo' = [todo EXCEPT ![t] =
                (IF txn THEN <<Sql("COMMIT")>> ELSE <<>>)
                  \o <<Sql("BEGIN")>> \o Tail(@)]
  /\ UNCHANGED <<fifoVars, dbVars, call, counter, overlaps, conf, ctlVars,
                 misuse>>

\* db_flush.  sqlite3_get_autocommit looks at the handle too.
db_flush(t) ==
  /\ alive
  /\ todo[t] # <<>> /\ Head(todo[t]).op = "FLUSH"
  /\ \E intxn \in IF dbst = "closed" THEN BOOLEAN ELSE {txn} :
       todo' = [todo EXCEPT ![t] =
                  CASE autocommit -> Tail(@)
                    [] ~autocommit /\ intxn ->
                         <<Sql("COMMIT"), Sql("BEGIN")>> \o Tail(@)
                    [] ~autocommit /\ ~intxn -> <<Sql("BEGIN")>> \o Tail(@)]
  /\ misuse' = (misuse \/ (~autocommit /\ dbst = "closed"))
  /\ UNCHANGED <<fifoVars, dbVars, call, counter, overlaps, conf, ctlVars>>

\* What db_open goes on with once sqlite3_open_v2 succeeded.
OpenScript == <<Sql("CREATE"), Sql("CREATE"), Sql("FLUSH")>>

\* db_open, sqlite3_open_v2: a new handle, usable or not.
db_open(t) ==
  /\ db' = db + 1
  /\ \/ /\ dbst' = "open"
        /\ todo' = [todo EXCEPT ![t] = OpenScript]
        /\ UNCHANGED faults
     \/ Fault("open") /\ dbst' = "bad" /\ UNCHANGED todo
  /\ UNCHANGED <<txn, pending, stored, failed, rolledback>>

\* db_close, sqlite3_close: an open transaction is rolled back.  The pointer
\* keeps its value.
db_close ==
  /\ dbst' = "closed"
  /\ txn' = FALSE
  /\ pending' = <<>>
  /\ rolledback' = rolledback \cup Rows(pending)
  /\ misuse' = (misuse \/ dbst = "closed")
  /\ alive' \in IF dbst = "closed" THEN BOOLEAN ELSE {alive}
  /\ UNCHANGED <<db, stored, failed, faults>>

DbStep(t) ==
  \/ db_exec_load(t) \/ db_exec_count(t) \/ db_exec_runs(t)
  \/ db_exec_fails(t) \/ db_exec_check(t) \/ db_flush(t)

-----------------------------------------------------------------------------
(* Main: loggers_initialize, fork_and_close_parent, loggers_halt.          *)

\* logsqlite_init: fifo_init and bg_thread_start.
bg_thread_start ==
  /\ alive /\ hpc = "idle"
  /\ mpc = "start"
  /\ mpc' = "open"
  /\ cpc' = "start"
  /\ UNCHANGED <<next, head, tail, lock, sync, ppc, ret, popped, dropped,
                 alive, dbVars, runVars, hpc, bgrunning, rotations, misuse>>

\* logsqlite_init: return db_open(dbfile).
logsqlite_init ==
  /\ alive /\ hpc = "idle"
  /\ mpc = "open"
  /\ mpc' = "opening"
  /\ db_open(Main)
  /\ UNCHANGED <<fifoVars, call, counter, overlaps, conf, hpc, bgrunning,
                 rotations, misuse>>

\* main() after loggers_initialize, whatever it returned.  Without -f it
\* forks: only the calling thread exists in the child, and a mutex the
\* vanished thread held stays locked.
fork_and_close_parent ==
  /\ alive /\ hpc = "idle"
  /\ mpc = "opening" /\ todo[Main] = <<>>
  /\ mpc' = "serving"
  /\ cpc' = IF foreground THEN cpc ELSE "gone"
  /\ lock' \in IF ~foreground /\ cpc = "pop" THEN {Free, Bg} ELSE {lock}
  /\ UNCHANGED <<next, head, tail, sync, ppc, ret, popped, dropped, alive,
                 dbVars, runVars, hpc, bgrunning, rotations, misuse>>

\* The ways main() ends before it serves: fork() or setsid() fails, or the
\* socket cannot be set up.  A failed fork is taken for the parent's return.
exits_early ==
  /\ alive /\ hpc = "idle"
  /\ mpc = "opening" /\ todo[Main] = <<>>
  /\ mpc' = "exit"
  /\ alive' = FALSE
  /\ UNCHANGED <<next, head, tail, lock, sync, ppc, cpc, ret, popped, dropped,
                 dbVars, runVars, hpc, bgrunning, rotations, misuse>>

\* logsqlite_stop, bg_thread_stop: the flag.
bg_thread_stop ==
  /\ alive /\ hpc = "idle"
  /\ mpc = "serving"
  /\ mpc' = "join"
  /\ bgrunning' = FALSE
  /\ UNCHANGED <<fifoVars, dbVars, runVars, hpc, rotations, misuse>>

\* A slip: the database is closed without waiting for the writer.
bg_thread_join_skipped ==
  /\ alive /\ hpc = "idle"
  /\ mpc = "join"
  /\ mpc' = "close"
  /\ UNCHANGED <<fifoVars, dbVars, runVars, hpc, bgrunning, rotations,
                 misuse>>

\* logsqlite_stop, pthread_join.  Joining a thread that fork left behind is
\* undefined: it returns or it does not.
bg_thread_join ==
  /\ alive /\ hpc = "idle"
  /\ mpc = "join" /\ cpc \in {"exited", "gone"}
  /\ mpc' = "close"
  /\ UNCHANGED <<fifoVars, dbVars, runVars, hpc, bgrunning, rotations,
                 misuse>>

\* logsqlite_stop, db_close.
logsqlite_stop ==
  /\ alive /\ hpc = "idle"
  /\ mpc = "close"
  /\ mpc' = "closed"
  /\ db_close
  /\ UNCHANGED <<next, head, tail, lock, sync, ppc, cpc, ret, popped, dropped,
                 runVars, hpc, bgrunning, rotations>>

\* main() returns: every thread ends with the process.
main_returns ==
  /\ alive /\ hpc = "idle"
  /\ mpc = "closed"
  /\ mpc' = "exit"
  /\ alive' = FALSE
  /\ UNCHANGED <<next, head, tail, lock, sync, ppc, cpc, ret, popped, dropped,
                 dbVars, runVars, hpc, bgrunning, rotations, misuse>>

-----------------------------------------------------------------------------
(* Bg: bg_thread_exec.                                                     *)

bg_thread_begins ==
  /\ alive
  /\ cpc = "start"
  /\ bgrunning' = TRUE
  /\ cpc' = "test"
  /\ UNCHANGED <<next, head, tail, lock, sync, ppc, ret, popped, dropped,
                 alive, dbVars, runVars, mpc, hpc, rotations, misuse>>

\* A slip: while (1).
bg_thread_tests_nothing ==
  /\ alive
  /\ cpc = "test"
  /\ cpc' = "wait"
  /\ UNCHANGED <<next, head, tail, lock, sync, ppc, ret, popped, dropped,
                 alive, dbVars, runVars, ctlVars, misuse>>

\* while (bgrunning)
bg_thread_tests ==
  /\ alive
  /\ cpc = "test"
  /\ cpc' = IF bgrunning THEN "wait" ELSE "exited"
  /\ UNCHANGED <<next, head, tail, lock, sync, ppc, ret, popped, dropped,
                 alive, dbVars, runVars, ctlVars, misuse>>

\* Two slips: the result is not tested; a popped row is dropped when the flag
\* was cleared meanwhile.
bg_thread_got_untested ==
  /\ alive
  /\ cpc = "returned"
  /\ ret' = NULL
  /\ cpc' = "exec"
  /\ todo' = [todo EXCEPT ![Bg] = <<Insert(ret)>>]
  /\ UNCHANGED <<next, head, tail, lock, sync, ppc, popped, dropped,
                 alive, dbVars, call, counter, overlaps, conf, ctlVars,
                 misuse>>
bg_thread_got_and_left ==
  /\ alive
  /\ cpc = "returned"
  /\ ret' = NULL
  /\ cpc' = IF ret = NULL \/ ~bgrunning THEN "test" ELSE "exec"
  /\ todo' = [todo EXCEPT ![Bg] =
                IF ret = NULL \/ ~bgrunning THEN <<>> ELSE <<Insert(ret)>>]
  /\ UNCHANGED <<next, head, tail, lock, sync, ppc, popped, dropped,
                 alive, dbVars, call, counter, overlaps, conf, ctlVars,
                 misuse>>

\* fifo_pop_item returned; db_exec(sql, 1) if there was something.  The result
\* is no longer in `ret' then, but in the statement.
bg_thread_got ==
  /\ alive
  /\ cpc = "returned"
  /\ ret' = NULL
  /\ cpc' = IF ret = NULL THEN "test" ELSE "exec"
  /\ todo' = [todo EXCEPT ![Bg] = IF ret = NULL THEN <<>> ELSE <<Insert(ret)>>]
  /\ UNCHANGED <<next, head, tail, lock, sync, ppc, popped, dropped,
                 alive, dbVars, call, counter, overlaps, conf, ctlVars,
                 misuse>>

\* db_exec returned; sqlite3_free(sql).
bg_thread_frees ==
  /\ alive
  /\ cpc = "exec" /\ todo[Bg] = <<>>
  /\ cpc' = "test"
  /\ UNCHANGED <<next, head, tail, lock, sync, ppc, ret, popped, dropped,
                 alive, dbVars, runVars, ctlVars, misuse>>

BgStep ==
  \/ bg_thread_begins \/ bg_thread_tests \/ bg_thread_got \/ bg_thread_frees
  \/ (fifo_wait_signal \/ fifo_pop)
       /\ UNCHANGED <<dbVars, runVars, ctlVars, misuse>>
  \/ DbStep(Bg)

-----------------------------------------------------------------------------
(* signal_rotate, logsqlite_rotate: Main, interrupted by SIGHUP.  The      *)
(* handler is installed once loggers_initialize returned.                  *)

CanRotate == Serving \/ (mpc = "opening" /\ todo[Main] = <<>>)

rotate_lock ==
  /\ alive
  /\ CanRotate /\ rotations < MaxRotations
  /\ hpc = "idle" /\ db # 0
  /\ fifo_lock(Main)
  /\ hpc' = "close"
  /\ rotations' = rotations + 1
  /\ UNCHANGED <<next, head, tail, sync, ppc, cpc, ret, popped, dropped,
                 alive, dbVars, runVars, mpc, bgrunning, misuse>>

rotate_close ==
  /\ alive
  /\ hpc = "close"
  /\ hpc' = "open"
  /\ db_close
  /\ UNCHANGED <<next, head, tail, lock, sync, ppc, cpc, ret, popped, dropped,
                 runVars, mpc, bgrunning, rotations>>

rotate_open ==
  /\ alive
  /\ hpc = "open"
  /\ hpc' = "opening"
  /\ db_open(Main)
  /\ UNCHANGED <<fifoVars, call, counter, overlaps, conf, mpc, bgrunning,
                 rotations, misuse>>

\* A slip: the rotation keeps the queue locked.
rotate_keeps_lock ==
  /\ alive
  /\ hpc = "opening" /\ todo[Main] = <<>>
  /\ hpc' = "idle"
  /\ UNCHANGED <<fifoVars, dbVars, runVars, mpc, bgrunning, rotations,
                 misuse>>

rotate_unlock ==
  /\ alive
  /\ hpc = "opening" /\ todo[Main] = <<>>
  /\ hpc' = "idle"
  /\ fifo_unlock(Main)
  /\ UNCHANGED <<next, head, tail, sync, ppc, cpc, ret, popped, dropped,
                 alive, dbVars, runVars, mpc, bgrunning, rotations, misuse>>

MainStep ==
  \/ bg_thread_start \/ logsqlite_init \/ fork_and_close_parent
  \/ exits_early \/ bg_thread_join \/ logsqlite_stop \/ main_returns
  \/ rotate_close \/ rotate_open \/ rotate_unlock
  \/ DbStep(Main)

-----------------------------------------------------------------------------
(* Connection threads: logsqlite_log pushes a row for each record.         *)

logsqlite_log(p) ==
  /\ Serving
  /\ fifo_push(p)
  /\ UNCHANGED <<dbVars, runVars, ctlVars, misuse>>

logsqlite_log_signals(p) ==
  /\ FifoSignal(p)
  /\ UNCHANGED <<dbVars, runVars, ctlVars, misuse>>

\* The process is gone; nothing more happens.
Gone == ~alive /\ UNCHANGED vars

Next ==
  \/ MainStep
  \/ bg_thread_stop
  \/ BgStep
  \/ rotate_lock
  \/ \E p \in Producers : logsqlite_log(p) \/ logsqlite_log_signals(p)
  \/ Gone

Safety == Init /\ [][Next]_vars

\* Every thread that can run is scheduled.  Pushing rows, SIGHUP and SIGTERM
\* are the environment's choice.
Fairness ==
  /\ WF_vars(MainStep)
  /\ WF_vars(BgStep)
  /\ \A p \in Producers : WF_vars(logsqlite_log_signals(p))

Spec == Safety /\ Fairness

-----------------------------------------------------------------------------
(* Properties.                                                             *)

\* The values the variables take: in particular the writer never inserts row
\* 0, the null pointer fifo_pop_item returns after an idle second
\* (sqlite.c:156-161).
TypeOK ==
  /\ next \in 0..MaxRows
  /\ head \in 0..MaxRows /\ tail \in 0..MaxRows
  /\ lock \in {Free, Bg, Main} /\ sync \in Producers \cup {Bg, Free}
  /\ ppc \in [Producers -> ProducerPC]
  /\ cpc \in BgPC
  /\ ret \in 0..MaxRows
  /\ popped \in Seq(1..MaxRows)
  /\ dropped \in SUBSET (1..MaxRows)
  /\ alive \in BOOLEAN
  /\ mpc \in MainPC /\ hpc \in HupPC
  /\ bgrunning \in BOOLEAN
  /\ todo \in [DbThreads -> Seq([op : SqlOps, row : 0..MaxRows])]
  /\ call \in [DbThreads -> [at : {"enter", "count", "run", "check"},
                             c : Nat, h : Nat]]
  /\ counter \in Nat
  /\ db \in Nat
  /\ dbst \in {"null", "open", "bad", "closed"}
  /\ txn \in BOOLEAN
  /\ pending \in Seq(1..MaxRows) /\ stored \in Seq(1..MaxRows)
  /\ failed \in SUBSET (1..MaxRows) /\ rolledback \in SUBSET (1..MaxRows)
  /\ faults \in 0..MaxFaults /\ misuse \in BOOLEAN
  /\ autocommit \in BOOLEAN /\ foreground \in BOOLEAN
  /\ rotations \in 0..MaxRotations /\ overlaps \in 0..MaxOverlaps

\* The database holds rows in the order in which they were pushed, none
\* twice, through flushes, rotations, failed statements and shutdown: the
\* writer never reorders or repeats an INSERT (sqlite.c:149-164).
RowsInOrder ==
  LET written == stored \o pending
  IN  \A i, j \in 1..Len(written) : i < j => written[i] < written[j]

\* With autocommit=1 a row whose INSERT succeeded is in the database for
\* good: db_flush opens no transaction, so that neither a rotation nor the
\* shutdown, which close without COMMIT, can take it back (sqlite.c:111-143).
AutocommitIsDurable == autocommit => pending = <<>> /\ rolledback = {}

\* Where a row can be.
InHand == IF cpc = "returned" THEN {ret}
          ELSE IF todo[Bg] # <<>> /\ call[Bg].at # "check"
               THEN {Head(todo[Bg]).row} ELSE {}
Places(n) ==
  <<n \in dropped, n = head, n \in InHand, n \in failed, n \in Rows(pending),
    n \in Rows(stored), n \in rolledback>>

\* No row is in two places: a row reported lost is never in the database, a
\* row is not both rolled back and stored, and none vanishes without a trace.
EachRowInOnePlace ==
  \A n \in 1..next : \E i \in 1..7 :
    /\ Places(n)[i]
    /\ \A j \in 1..7 : j # i => ~Places(n)[j]

\* With autocommit=0 at most FlushEvery - 2 rows (48) wait for a COMMIT as
\* long as no statement fails, because COMMIT and BEGIN count too; between
\* two statements `counter' has counted every waiting row and the BEGIN, so
\* that the next flush is due in time (sqlite.c:85, 98-102).  Only until the
\* first rotation: its statements race with the writer's for `counter', and
\* an update of it can be lost.
FewRowsPending ==
  faults = 0 /\ rotations = 0 =>
    /\ Len(pending) <= FlushEvery - 2
    /\ todo[Bg] = <<>> /\ pending # <<>> => Len(pending) < counter

\* The back end, with its threads, queue, flushes, rotations and faults, is a
\* lossy, ordered log: rows are written in push order or lost, a row that is
\* durable stays so, and one that is lost never comes back (sqlite.c:80-245).
Log == INSTANCE RowLog WITH
         lost <- dropped \cup failed \cup rolledback,
         open <- pending, durable <- stored
ImplementsRowLog == Log!LogSpec

\* A row the queue accepted is executed, unless the process is shutting down
\* or dead.
RowIsExecuted ==
  \A n \in 1..MaxRows :
    head = n ~> (n \in Rows(stored \o pending) \cup failed \cup rolledback
                 \/ mpc # "serving" \/ ~alive)

\* When the writer has started before the flag is cleared, SIGTERM ends the
\* process: the join waits at most for the timed wait and the row in hand
\* (sqlite.c:149-170, 242-245).  A writer that starts later sets the flag
\* again, and the join never returns.
StopTerminates == (mpc = "join" /\ ~bgrunning /\ cpc # "start") ~> ~alive

\* README.md:193: SIGHUP "will flush the log files to disk".
RotationFlushes == rolledback = {}

\* Only a rotation closes the connection under the writer: the shutdown joins
\* the writer first, and no other path uses a closed handle (sqlite.c:232-245).
OnlyRotationClosesUnderWriter == misuse => rotations > 0
=============================================================================
