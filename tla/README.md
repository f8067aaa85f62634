# pdns-logger in TLA+

pdns-logger receives protobuf messages about DNS queries from PowerDNS
Recursor over TCP and logs them to a text file, to syslog and to an SQLite
database. This directory models the parts of it whose correctness depends on
interleavings, chunking, faults and the order of calls, checks them with TLC
and proves the safety invariants with TLAPS. Paths below are relative to the
repository; `queue.c` stands for `src/src/pdns-logger-queue.c`, and so on.

## The system

* `main` (`pdns-logger.c`) reads the command line and the configuration file,
  starts the three back ends, each of which reads the file again, installs the
  signal handlers, forks unless `-f` is given, and runs the accept loop until
  SIGINT or SIGTERM; then it halts the back ends. SIGHUP rotates the back ends
  from inside the signal handler.
* Each client has a connection thread (`socket_thread_exec`, `protobuf.c`). It
  gathers bytes in a fixed buffer, cuts them into frames, decodes each frame
  and calls every back end's log function in turn. Nothing stops these threads
  before the process ends.
* The file and syslog back ends write a line from the connection thread.
* The SQLite back end builds an INSERT per record and pushes it on a queue
  (`queue.c`). One writer thread (`bg_thread_exec`, `sqlite.c`) pops and runs
  it. With `autocommit=0` a COMMIT and a BEGIN are run every 50 statements.

| Part | Source | Module | State |
|---|---|---|---|
| Hand-off queue | `queue.c` | `Fifo`, abstract `OneSlot` | modelled, proved |
| Connection thread, framing | `protobuf.c` 27-156 | `FrameReader` | modelled, proved |
| Process control, accept loop | `pdns-logger.c`, `protobuf.c` 90-262 | `Server` | modelled, proved |
| SQLite back end and its life cycle | `sqlite.c`, `pdns-logger.c` | `SqliteEngine` (on `Fifo`), abstract `RowLog` | modelled, proved |
| Text file back end | `file.c` | `LogfileEngine` | modelled, proved |
| What is written for a message | `file.c`, `syslog.c`, `sqlite.c` | `LogRecord` (on `DnsNames`) | but for long lines, proved |
| Names of types, classes, codes | `dns.c` | `DnsNames` | modelled, proved |
| Command line, options, INI parser | `pdns-logger.c`, `ini.c`, `inih/ini.c`, `opt_handler`s | `Options` | but for long lines, proved |
| Syslog back end | `syslog.c` | `LogRecord`, `Options`, `Server` | but for `openlog` |
| Protobuf codec | `dnsmessage.pb-c.*` | - | generated code |

How the modules fit together: `Options` ends where the back ends are started or
not. `Server` begins there and treats a back end's start, rotate and stop as
one call each, of which it asks only whether it returns; `SqliteEngine` and
`LogfileEngine` open these calls up. A connection thread is started in
`Server`, cuts its stream in `FrameReader`, writes records in `LogRecord`, and
a record of the SQLite back end is a row of `Fifo` and `SqliteEngine`.

## The modules

**Fifo.** `head`, `tail` and the owners of `lock` and `sync_mutex` are the
struct's fields. A row is known by its number, 0 is the null pointer. A
critical section under `lock` is one step. The condition variable is modelled
step by step: a signal wakes the consumer only inside the timed wait. `popped`
and `dropped` are history. `fifo_push_second` is the branch marked "Should not
happen": it drops the row, or aborts when assertions are compiled in (`NDEBUG`
FALSE; the CMake default is a Debug build). `malloc` may fail.

**OneSlot.** What the queue promises: a slot for one row; a row enters the
empty slot or is lost; the consumer takes it. `Fifo` implements it with
`slot <- head`, `taken <- popped`.

**FrameReader.** The buffer keeps stale bytes above `bsize`, as in the code,
and bytes never written read as any value. `read()` returns any number of
bytes that fits. A byte is a digit in base `Base`. One iteration of the loop of
`protobuf_extract` is one step. The socket stays blocking: `flags |=
!O_NONBLOCK` (line 103) changes nothing, in spite of its comment.

**Server.** `mpc` is where `main` is, from `loggers_initialize` to its return;
a signal can interrupt it at any step. A stop signal clears `running`, wakes
`select`, and is remembered in `told` if it comes after `running = 1`. SIGHUP
stops `main` while `rot` goes through the back ends. `fd` says which connection
each descriptor stands for; `accept` takes the lowest free one. A thread is
given the ADDRESS of `socket_start_thread`'s parameter: until that function
returns it finds its own descriptor there, later anything, and `wrong` records
that it took one that is not its own. `accept` and `pthread_create` may fail,
the latter unnoticed. The join of a writer that was never created, or that the
fork left behind, is undefined and may return, hang or crash.

**SqliteEngine.** Two threads run SQL: `Main` (start, stop, and the SIGHUP
handler, which the kernel gives to the main thread first) and `Bg`. A `db_exec`
is four steps: load `counter`, store it and read `db`, run the statement, test
`counter`. `todo[t]` is the stack of statements that `db_exec`, `db_flush` and
`db_open` still have to run, so a flush can start inside a flush as in the
code. SQLite is external: `SqliteDoes`, `SqliteRefuses`, `SqliteRollsBack`; use
of a closed handle (`SqliteMisuse`) is undefined and may end the process. A
fork keeps only `Main`; a mutex the writer held stays locked. A failed open
leaves a handle on which every statement fails. The back end is enabled. The
settings `autocommit` and `-f` are variables chosen in `Init`.

**RowLog.** What the SQLite back end promises: rows are submitted in order; a
row in flight is written behind all earlier ones or lost; what is written is
open until a commit makes it durable or a rollback loses it; a durable row
stays. `SqliteEngine` implements it with `open <- pending`,
`durable <- stored`, and `lost` the rows dropped, failed or rolled back.

**LogfileEngine.** `fp` is shared without a lock and read anew by each use in
`write_log`. A stdio call is atomic, because stdio locks the `FILE`. `freopen`
flushes, closes and opens in one call, but the assignment of a null result to
`fp` is a step of its own.

**LogRecord.** One message through the three back ends, one record (RR) per
step. The head (id, querier, question, response code, policy, subnet) and the
fields of an RR are optional. A text line is the sequence of its fields, a row
has a value in every column. Only lines that fit `str[1024]` are modelled.

**DnsNames.** The lookups use the code as an index. A name is modelled by the
`val` beside it.

**Options.** `getopt` argument by argument, then four passes over the file,
line by line, by `main` and by each back end. The parser's locals `section`,
`prev_name` and `error` are variables; a line is given by its kind, indent, key
and text. Before each pass the file may be replaced, and a pass may fail to
open it. `Meaning` and `Good` say declaratively what a file means and whether
it is well formed; the properties compare the parser with them.

Operators introduced as "a slip" are wrong variants of the definition after
them, used to see that a property notices; no specification uses them.

## The runs

| Run | Configuration | Result |
|---|---|---|
| `fifo` | `MCFifo.cfg`: 2 producers, 5 rows | holds |
| `fifo_debug` | `MCFifoDebug.cfg`: Debug build | `NeverAborts` violated |
| `reader` | `MCReader.cfg`: streams up to 7 bytes, buffer of 5 | holds |
| `server` | `MCServer.cfg`: 2 clients, 1 or 2 descriptors, 1 failure, 1 SIGHUP, fair | holds |
| `sqlite` | `MCSqliteSafety.cfg`: all settings and faults, 2 rows, 1 rotation | holds |
| `sqlite_live` | `MCSqliteLive.cfg`: foreground, autocommit=0, fair | holds |
| `sqlite_rotate_flush` | `MCSqliteRotateFlush.cfg` | `RotationFlushes` violated |
| `sqlite_forked` | `MCSqliteForked.cfg`: daemon, fair | `RowIsExecuted` violated |
| `record` | `MCRecord.cfg`: all settings, up to 2 RRs per message | holds |
| `record_columns` | `MCRecordColumns.cfg` | `ColumnsAreTheRRs` violated |
| `file` | `MCFile.cfg`: 2 writers, 3 lines, 2 rotations | holds |
| `options` | `MCOptions.cfg`: files of up to 3 lines of 13 kinds, 1 upset | holds |

What the passing runs show:

* Queue: `head` and `tail` agree, so the uninitialised `next` is never
  followed; rows are popped in order and once; every row is lost, queued or
  delivered; a queued row is popped in spite of lost signals, thanks to the
  timeout; the queue implements `OneSlot`.
* Reader: in every chunking the frames parsed are the stream's own; no complete
  frame waits in the buffer; a client is dropped for a full buffer only if its
  frame cannot fit; the length is never read from unwritten bytes;
  `protobuf_extract` returns.
* Process: no signal kills a process that accepts connections; only a stop
  signal leaves the accept loop, and one that comes after `running = 1` is not
  forgotten; as long as each thread read its own argument, threads and open
  connections correspond although descriptors are reused; the log file is
  closed before the stop of the SQLite back end can hang or crash; a stop ends
  the process and a waiting client is accepted, with the exceptions below.
* SQLite: rows reach the database in order and at most once; each row has
  exactly one fate; with autocommit=1 an inserted row is never taken back; with
  autocommit=0 at most `FlushEvery - 2` rows wait and `counter` has counted
  them, until a statement fails or a rotation races for `counter`; only a
  rotation closes the connection under the writer; the back end implements
  `RowLog`; an accepted row is executed; a stop ends the process.
* Records: every back end that does not skip a message writes one record per RR
  and at least one; text lines accumulate the RRs; the file and syslog lines
  are equal; a row holds the head of its line and, for an RR with all its
  fields, the RR's values; codes below the first gap of a table have their own
  name, and codes beyond it have none.
* File: no line vanishes or is doubled; with force-flush=1 a line is in the
  file when the call returns; while reopening succeeds no line is spoiled.
* Options: an option has the value of the last line that sets it in the version
  of the file its reader saw, and no section reaches into another; the program
  starts exactly if the command line and the file are right; a back end runs
  only if its own reading told it everything it needs, and without edits or
  failures it is off only if the file says so.

What the violated ones show, against the documentation or a comment:

* `queue.c:95` "Should not happen" happens with two pushes before a pop, which
  one response with two records is enough for.
* `README.md:193` says SIGHUP flushes; with autocommit=0 it rolls back the
  rows of the open transaction.
* `README.md:5` says queries are logged to SQLite; without `-f` the writer
  thread, created before `fork`, does not exist in the daemon.
* `README.md:190` says columns mean what the text fields mean; a field missing
  in an RR keeps the value of an earlier RR in the row, and is absent from the
  text.

Behaviours that are known, and that a property names or bounds rather than
excludes:

* During a rotation the writer can use the connection just closed, because the
  queue lock does not cover `db_exec` (`OnlyRotationClosesUnderWriter`).
* A stop that comes before the writer's first instruction is overwritten by
  `bgrunning = 1`, and the join never returns (excluded by `StopTerminates`).
* A stop signal before `running = 1` (`pdns-logger.c:227`) is forgotten. One
  between the test of `running` and `select` is noticed only at the next
  connection or signal (`Asleep` in `StopEndsTheProcess`).
* In the daemon, SIGHUP waits for ever if the writer held the queue lock at the
  fork, and the join of the lost writer at the stop may never return. With the
  overwritten flag above, these are the cases `Stuck` names.
* A thread that starts after `socket_start_thread` has returned reads what the
  stack then holds, possibly another connection or the listening socket.
  `ReadersMatchConnections` and `ClientIsAccepted` are about the time before.
* When `pthread_create` fails, the connection stays open without a thread.
* After a reopen of the log file has failed, no later SIGHUP opens it: later
  lines are dropped, and `EachLineOnce` accounts for them.
* A code above the first gap of a table is logged with the name of another
  code (class 3, CH in `dns.h:28`, as HS); `NamesAreRight` leaves these out.

## Bounds and fairness

* `MaxRows`, `MaxLines`, `MaxRotations`, `MaxHups` bound the clients and
  SIGHUPs. Two rows are enough to find the queue occupied and to have one row
  pending while the next is executed.
* `FlushEvery` is 50 in the code and 4 to 6 here, so that the statements of an
  open, a row or two and those of a rotation reach it. `MaxFaults` bounds the
  faults of SQLite, or of `accept` and `pthread_create`, in one behaviour.
* `MaxOverlaps` bounds the `db_exec` calls that start while the other thread is
  inside one. Two threads that overwrite each other's `counter` could otherwise
  flush for ever; one overlap lets an update be lost.
* The reader's buffer of 5 bytes and base 3 allow empty frames, frames that just
  fit, frames that do not, and cut headers.
* Two clients and one or two descriptors let a descriptor be reused while a
  late thread is still about to read its argument, and let `accept` find none.
* Three lines, or `[sqlite3]` and three more, are enough for a section, an
  option, and a line that continues, overrides or spoils it. `MaxUpsets` = 1
  puts an edit or a failed open before any of the four readings.
* Fairness is weak, per thread: a thread that can run is scheduled, and a timed
  wait ends. Arrivals, the end of a connection, signals and faults get none.
* Deadlock is checked for the queue, the process and the SQLite back end. A
  connection thread, a message, the reading of the options and the file back
  end's process end, so there it is not.

## The proofs

The proof modules prove, for every value of the constants that the modules'
assumptions allow, every safety property of the passing runs, which check the
same definitions on small instances. The assumptions are that the bounds are
natural numbers, that the threads and special values are distinct, that a byte
has at least two values, that the buffer holds more than the header of a frame,
that `FlushEvery` is above 2 (50 in the code), that settings, faults, streams,
messages, files and command lines have their types, that a text that is no
number counts as 0 (`atoi`), and that an empty frame does not decode. Each
proof rests on one inductive invariant, which TLC also finds to hold on the
instance of that run. Of `ImplementsOneSlot` the safety part is proved.

* Queue (`QueueProofs`). `FifoIInv` adds to the properties that popped and
  dropped rows are numbered up to `next` and are disjoint from each other and
  from the row queued. That is what makes "in order" and "in one place" survive
  a push. `FifoImplementsOneSlot` is step simulation: a push is `Put` or
  `Drop`, a pop that finds a row is `Take`, everything else stutters.
* Reader (`InputOutputProofs`). `ReaderIInv` adds `Window` (the used part of
  the buffer is the stream from `base` on) and `Consumed` (`base` is where the
  last frame ended). The move of the remaining bytes keeps the window. The
  proofs cover both builds, `NDEBUG` TRUE and FALSE, of which the run uses the
  first.
* File (`InputOutputProofs`). What is in the file or in the buffer is one list.
  `FileIInv` adds `FreshLines` (a line being printed is nowhere else and no two
  writers print the same) and `PointerIsFile` (while the back end serves, a
  pointer that is not null is an open file).
* Process (`ServerProofs`). `Control` says how far `main` must have come for
  handlers, socket, stop flag and back ends to be as they are. `Conns` says
  that a client is in one place: it waits in the backlog once, or it was
  accepted once and has at most one descriptor. The second is what lets a
  thread close its descriptor without closing another's.
* SQLite. `SqliteIInv` (in `QueueProofs`, with the lemmas about lists, scripts
  and rows) has six parts. `Types` and `Flags` are the types. `Stmts` says what
  a thread may still have to run: statements of a flush or an open, and only
  the writer has an INSERT, of one row, at the end. `Control` relates the places
  of the two threads, the queue and the connection. `Handle` says that before
  the first rotation no thread is inside `sqlite3_exec` with a handle that is
  not the current one. `Fate` is about the rows: the written ones form one
  increasing list; the row in the writer's hand (`Hand`: popped, not yet given
  to SQLite) comes after all of them, the queued one after that, and every other
  row is lost in exactly one way. `SqliteControlProofs` shows that the steps
  keep the first parts, `SqliteProofs` that they keep `Fate`, and draws the
  conclusions. `SqliteImplementsRowLog` is step simulation: a push is `Submit`,
  an INSERT that runs is `Write`, a COMMIT is `Commit`, a failed statement is
  `Lose`, `RollBack` or a stutter, closing the connection is `RollBack`.
* Pending rows (`SqliteFewRowsPending`). While nothing fails or rotates, one
  thread at a time runs SQL: `main` opens the database, then the writer has it.
  `Flushes` lists the six stages that thread goes through (`Idle`, `Inserting`,
  `Flushing`, `Committing`, `Beginning`, `Creating`), and for each what is left
  to run, the place in `db_exec`, whether a transaction is open, and how
  `counter` and the number of pending rows are related. The margin of 2 is the
  COMMIT and the BEGIN of the last flush: `counter` is reset before they run,
  so they count for the next round.
* Records (`RecordProofs`). A line is a sequence of fields, built by
  concatenation; `Entries` turns it into the set of its fields, so that what a
  line says is a matter of membership. `RecIInv` says how many records each back
  end has written so far (`Progress`), that line n holds the head and RRs 1 to n
  (`Text`), that each line continues the one before and that syslog's are the
  file's (`Lines`), and that a row has the head and whatever its RR has
  (`TableRows`). For the names, the codes below a gap are counted: entry c of a
  table built by position is the code c as long as no code below c is missing.
* Options (`OptionsLineProofs` for a line, `OptionsProofs` for a pass).
  `Meaning` looks at a whole file, the parser at one line with two locals in
  hand. `OptIInv` says that after n lines `section`, `prev_name` and `error` are
  what the first n lines make them (`Locals`), and that the options of the
  section being read are what those lines mean (`OptionsTo`, with
  `MeaningTo(F, n, ...)`), while the options of the sections to come have their
  defaults (`Untouched`). One more line changes at most the last line that sets
  an option. `seen` records what each pass opened, so that the invariant can
  speak of it after the file was replaced.

Only model-checked: everything about liveness (`QueuedRowIsPopped`,
`ExtractReturns`, `RowIsExecuted`, `StopTerminates`, `StopEndsTheProcess`,
`ClientIsAccepted`, the fair half of `ImplementsOneSlot`), which is beyond the
prover. The four violated properties have counterexamples, not proofs.

## Not modelled

* SIGHUP on a thread other than the main one, and nested SIGHUPs. The kernel
  may choose another thread when the main one is in a handler.
* The protobuf codec is generated; a frame is decodable or not.
* Lines longer than `str[1024]`, lines of the configuration file longer than
  `INI_MAX_LINE` and section or option names longer than 50 bytes: they are cut,
  and the models have no lengths of texts. `ini_parse_string` is not called.
* Syslog's table of facilities, `openlog` and `closelog`: `ident`, `facility`
  and `level` are read from the file and dropped, so the facility is always
  daemon. `bind-ip` is stored and not used by `bind`.
* An edit of the configuration file in place while a pass reads it.
* The exit code, except as a value of `status`, and the help text: `-h` prints
  it and goes on, where `README.md:71` says it exits.
