------------------------------- MODULE Server -------------------------------
(***************************************************************************)
(* The process: main() with its signal handlers (src/src/pdns-logger.c)    *)
(* and the accept loop that starts a thread per connection                 *)
(* (src/src/pdns-logger-protobuf.c).  The options have been read; what     *)
(* they can be is the matter of module Options.                            *)
(*                                                                         *)
(* Main can be interrupted by a signal at any step.  A stop signal only    *)
(* clears `running'; SIGHUP rotates the back ends inside the handler, and  *)
(* Main stands still until it is done.                                     *)
(*                                                                         *)
(* What the back ends do inside start, rotate and stop is in their own     *)
(* modules.  Here matters only whether these calls return: the SQLite back *)
(* end's rotate waits for the queue's lock and its stop joins the writer.  *)
(*                                                                         *)
(* A connection thread is named after the client it was started for.       *)
(***************************************************************************)
EXTENDS Integers, Sequences, FiniteSets

CONSTANTS
  Clients,              \* each connects at most once
  MaxFds,               \* bound on the descriptors left for connections
  MaxFaults,            \* bound on failures of accept and pthread_create
  MaxHups               \* bound on the SIGHUPs handled

ASSUME ServerAssumption ==
  /\ "none" \notin Clients
  /\ MaxFds \in Nat \ {0}
  /\ MaxFaults \in Nat /\ MaxHups \in Nat

VARIABLES
  foreground,           \* -f, or foreground=1
  limit,                \* how many descriptors are left for connections
  status,               \* "alive", or how the process ended
  mpc,                  \* where Main is
  n,                    \* back ends done in the loop over them
  handlers,             \* signal handlers installed
  running,              \* globals.running
  told,                 \* a stop signal was handled after line 227
  rot,                  \* the back end SIGHUP is rotating, 0 if none
  hups,                 \* SIGHUPs handled
  writer,               \* the writer thread of the SQLite back end
  lostlock,             \* the queue's lock was held by the writer at fork
  stopped,              \* the back ends that loggers_halt has stopped
  listening,            \* conf->socket is open
  backlog,              \* connections not yet accepted
  came,                 \* clients that have connected
  fd,                   \* the connection each descriptor stands for
  new, who,             \* the result of accept, and the client it stands for
  thread,               \* per client: where its thread is
  sock,                 \* per client: the thread's local `socket'
  wrong,                \* a thread took a descriptor that is not its own
  faults                \* failures of accept and pthread_create so far

envVars == <<foreground, limit, hups, faults>>
mainVars == <<mpc, n, stopped>>
sigVars == <<handlers, running, told, rot>>
bgVars == <<writer, lostlock>>
netVars == <<listening, backlog, came>>
connVars == <<fd, new, who, thread, sock, wrong>>
vars == <<envVars, status, mainVars, sigVars, bgVars, netVars, connVars>>

Fds == 1..MaxFds
None == "none"          \* not a client: the descriptor is closed
Bad == 0                \* a number that is no open descriptor
Listen == -1            \* conf->socket

\* The back ends in the order of loggers_initialize.
engines == <<"logfile", "syslog", "sqlite3">>

\* The signals in the order in which main() installs their handlers.
Signals == <<"INT", "TERM", "PIPE", "HUP">>

MainPC == {"start", "signals", "fork", "run", "socket", "test", "set",
           "select", "sleep", "accept", "spawn", "return", "close", "halt",
           "hung", "exit"}
Looping == {"test", "set", "select", "sleep", "accept", "spawn", "return"}
Stopping == {"close", "halt", "hung"}

\* writer is "none" when the back end is disabled or could not be started.
ServerInit ==
  /\ foreground \in BOOLEAN /\ limit \in Fds
  /\ status = "alive"
  /\ mpc = "start" /\ n = 0
  /\ handlers = 0 /\ running = FALSE /\ told = FALSE
  /\ rot = 0 /\ hups = 0
  /\ writer = "none" /\ lostlock = FALSE
  /\ stopped = {}
  /\ listening = FALSE /\ backlog = <<>> /\ came = {}
  /\ fd = [f \in Fds |-> None] /\ new = Bad /\ who = None
  /\ thread = [c \in Clients |-> "none"]
  /\ sock = [c \in Clients |-> Bad]
  /\ wrong = FALSE
  /\ faults = 0

\* Main runs its own code: it is at pc, and not inside a handler.
At(pc) == status = "alive" /\ rot = 0 /\ mpc = pc

Faulty == faults < MaxFaults /\ faults' = faults + 1

-----------------------------------------------------------------------------
(* Starting.                                                               *)

\* A slip: the loop over the back ends goes one too far.
loggers_initialize_past_end ==
  /\ At("start")
  /\ writer' \in {"none", "created"}
  /\ IF n = Len(engines) THEN mpc' = "signals" /\ n' = 0
                         ELSE mpc' = mpc /\ n' = n + 1
  /\ UNCHANGED <<envVars, status, stopped, sigVars, lostlock, netVars,
                 connVars>>

\* Start the next back end, whatever it returns.  The SQLite one creates its
\* writer thread unless it is disabled, misconfigured or unreadable.
loggers_initialize ==
  /\ At("start")
  /\ IF engines[n + 1] = "sqlite3"
     THEN writer' \in {"none", "created"} ELSE UNCHANGED writer
  /\ IF n + 1 = Len(engines) THEN mpc' = "signals" /\ n' = 0
                             ELSE mpc' = mpc /\ n' = n + 1
  /\ UNCHANGED <<envVars, status, stopped, sigVars, lostlock, netVars,
                 connVars>>

\* A slip: the handler of SIGHUP is forgotten.
install_signal_but_last ==
  /\ At("signals")
  /\ handlers' = handlers + 1
  /\ mpc' = IF handlers + 2 = Len(Signals) THEN "fork" ELSE mpc
  /\ UNCHANGED <<envVars, status, n, stopped, running, told, rot, bgVars,
                 netVars, connVars>>

\* Install the next handler.
install_signal ==
  /\ At("signals")
  /\ handlers' = handlers + 1
  /\ mpc' = IF handlers + 1 = Len(Signals) THEN "fork" ELSE mpc
  /\ UNCHANGED <<envVars, status, n, stopped, running, told, rot, bgVars,
                 netVars, connVars>>

\* Go on as the child, unless in the foreground.  Only the calling thread
\* exists there; the lock of the queue may have been the writer's.
fork_and_close_parent ==
  /\ At("fork")
  /\ mpc' = "run"
  /\ IF foreground \/ writer = "none"
     THEN UNCHANGED bgVars
     ELSE writer' = "gone" /\ lostlock' \in {FALSE, writer = "begun"}
  /\ UNCHANGED <<envVars, status, n, stopped, sigVars, netVars, connVars>>

\* fork() fails, which is taken for the parent's return, or setsid() does.
fork_fails ==
  /\ At("fork") /\ ~foreground
  /\ status' \in {"success", "failure"}
  /\ UNCHANGED <<envVars, mainVars, sigVars, bgVars, netVars, connVars>>

set_running ==
  /\ At("run")
  /\ running' = TRUE
  /\ mpc' = "socket"
  /\ UNCHANGED <<envVars, status, n, stopped, handlers, told, rot, bgVars,
                 netVars, connVars>>

\* socket, setsockopt, bind, fcntl and listen.
socket_start ==
  /\ At("socket")
  /\ listening' = TRUE
  /\ mpc' = "test"
  /\ UNCHANGED <<envVars, status, n, stopped, sigVars, bgVars, backlog, came,
                 connVars>>

\* One of them fails: main() exits without loggers_halt.
socket_start_fails ==
  /\ At("socket")
  /\ status' = "failure"
  /\ UNCHANGED <<envVars, mainVars, sigVars, bgVars, netVars, connVars>>

\* The writer's first instruction: bgrunning = 1.
bg_thread_begins ==
  /\ status = "alive" /\ writer = "created"
  /\ writer' = "begun"
  /\ UNCHANGED <<envVars, status, mainVars, sigVars, lostlock, netVars,
                 connVars>>

-----------------------------------------------------------------------------
(* socket_loop.                                                            *)

loop_test ==
  /\ At("test")
  /\ mpc' = IF running THEN "set" ELSE "close"
  /\ UNCHANGED <<envVars, status, n, stopped, sigVars, bgVars, netVars,
                 connVars>>

\* read_fd_set = active_fd_set, and into select.
enter_select ==
  /\ At("set")
  /\ mpc' = "select"
  /\ UNCHANGED <<envVars, status, n, stopped, sigVars, bgVars, netVars,
                 connVars>>

\* A slip: select() < 0 ends the loop.
select_breaks(pc) == IF pc = "select" THEN "close" ELSE pc

\* A signal handler that interrupts select makes it return -1, and the loop
\* goes on with the test.
select_interrupted(pc) == IF pc = "select" THEN "test" ELSE pc

\* select returns: a connection is waiting, or the socket is not open.
select_returns ==
  /\ At("select")
  /\ \/ listening /\ backlog # <<>> /\ mpc' = "sleep"
     \/ ~listening /\ mpc' = "test"
  /\ UNCHANGED <<envVars, status, n, stopped, sigVars, bgVars, netVars,
                 connVars>>

\* usleep: what select said may be out of date afterwards.
slow_down ==
  /\ At("sleep")
  /\ mpc' = "accept"
  /\ UNCHANGED <<envVars, status, n, stopped, sigVars, bgVars, netVars,
                 connVars>>

Lowest(S) == CHOOSE f \in S : \A g \in S : f <= g
FreeFds == {f \in 1..limit : fd[f] = None}

accept_connection ==
  /\ At("accept")
  /\ listening /\ backlog # <<>> /\ FreeFds # {}
  /\ new' = Lowest(FreeFds)
  /\ who' = Head(backlog)
  /\ fd' = [fd EXCEPT ![new'] = who']
  /\ backlog' = Tail(backlog)
  /\ mpc' = "spawn"
  /\ UNCHANGED <<envVars, status, n, stopped, sigVars, bgVars, listening, came,
                 thread, sock, wrong>>

\* A slip: the listening socket blocks.
accept_blocks ==
  /\ At("accept")
  /\ listening /\ backlog # <<>> /\ FreeFds = {}
  /\ mpc' = "test"
  /\ UNCHANGED <<envVars, status, n, stopped, sigVars, bgVars, netVars,
                 connVars>>

\* accept fails: nobody waits any more (the socket does not block), no
\* descriptor is left, the socket is not open, or for want of memory.
accept_fails ==
  /\ At("accept")
  /\ IF listening /\ backlog # <<>> /\ FreeFds # {}
     THEN Faulty ELSE UNCHANGED faults
  /\ mpc' = "test"
  /\ UNCHANGED <<foreground, limit, hups, status, n, stopped, sigVars, bgVars,
                 netVars, connVars>>

\* pthread_create, given the address of socket_start_thread's parameter.
socket_start_thread ==
  /\ At("spawn")
  /\ mpc' = "return"
  /\ thread' = [thread EXCEPT ![who] = "new"]
  /\ UNCHANGED <<envVars, status, n, stopped, sigVars, bgVars, netVars, fd,
                 new, who, sock, wrong>>

\* pthread_create fails, which nobody notices.
socket_start_thread_fails ==
  /\ At("spawn")
  /\ Faulty
  /\ mpc' = "return"
  /\ thread' = [thread EXCEPT ![who] = "failed"]
  /\ UNCHANGED <<foreground, limit, hups, status, n, stopped, sigVars, bgVars,
                 netVars, fd, new, who, sock, wrong>>

\* A slip: the accept loop closes its copy of the descriptor, as after a fork.
start_thread_returns_closing ==
  /\ At("return")
  /\ mpc' = "test"
  /\ fd' = [fd EXCEPT ![new] = None]
  /\ UNCHANGED <<envVars, status, n, stopped, sigVars, bgVars, netVars, new,
                 who, thread, sock, wrong>>

\* socket_start_thread returns, and its parameter is gone.
start_thread_returns ==
  /\ At("return")
  /\ mpc' = "test"
  /\ UNCHANGED <<envVars, status, n, stopped, sigVars, bgVars, netVars,
                 connVars>>

-----------------------------------------------------------------------------
(* Connection threads: the ends of socket_thread_exec.                     *)

Open(s) == IF s = Listen THEN listening ELSE s # Bad /\ fd[s] # None

\* int socket = *psocket.  While socket_start_thread has not returned this is
\* the thread's own descriptor, later whatever the stack holds.  fcntl fails on
\* a number that is no open descriptor, and the thread returns.
thread_starts(c) ==
  /\ status = "alive" /\ thread[c] = "new"
  /\ \E s \in IF mpc = "return" /\ who = c THEN {new}
              ELSE Fds \cup {Bad, Listen} :
       /\ sock' = [sock EXCEPT ![c] = s]
       /\ thread' = [thread EXCEPT ![c] = IF Open(s) THEN "reading" ELSE "done"]
       /\ wrong' = (wrong \/ s \notin Fds \/ (s \in Fds /\ fd[s] # c))
  /\ UNCHANGED <<envVars, status, mainVars, sigVars, bgVars, netVars, fd, new,
                 who>>

\* read() reports the end or an error, or the stream is not decodable:
\* close(socket).
thread_ends(c) ==
  /\ status = "alive" /\ thread[c] = "reading"
  /\ thread' = [thread EXCEPT ![c] = "done"]
  /\ fd' = [f \in Fds |-> IF f = sock[c] THEN None ELSE fd[f]]
  /\ listening' = (listening /\ sock[c] # Listen)
  /\ UNCHANGED <<envVars, status, mainVars, sigVars, bgVars, backlog, came,
                 new, who, sock, wrong>>

-----------------------------------------------------------------------------
(* Signals.                                                                *)

\* A signal without a handler ends the process.
signal_kills ==
  /\ status = "alive"
  /\ handlers < Len(Signals)
  /\ status' = "killed"
  /\ UNCHANGED <<envVars, mainVars, sigVars, bgVars, netVars, connVars>>

\* The part of main() in which running = 0 is not overwritten any more.
Served == mpc \notin {"start", "signals", "fork", "run"}

\* SIGINT or SIGTERM.
signal_stop ==
  /\ status = "alive"
  /\ handlers >= 1
  /\ running' = FALSE
  /\ told' = (told \/ Served)
  /\ mpc' = IF rot = 0 THEN select_interrupted(mpc) ELSE mpc
  /\ UNCHANGED <<envVars, status, n, stopped, handlers, rot, bgVars, netVars,
                 connVars>>

\* SIGHUP: pdns_loggers_rotate begins.
signal_rotate ==
  /\ status = "alive"
  /\ handlers = Len(Signals)
  /\ rot = 0 /\ hups < MaxHups
  /\ rot' = 1
  /\ hups' = hups + 1
  /\ UNCHANGED <<foreground, limit, faults, status, mainVars, handlers, running,
                 told, bgVars, netVars, connVars>>

\* A slip: the loop does not get past a back end that has nothing to rotate.
pdns_loggers_rotate_stays ==
  /\ status = "alive"
  /\ rot \in 1..Len(engines)
  /\ rot' = IF engines[rot] = "syslog" THEN rot ELSE rot + 1
  /\ mpc' = mpc
  /\ UNCHANGED <<envVars, status, n, stopped, handlers, running, told, bgVars,
                 netVars, connVars>>

\* The next back end is rotated.  The SQLite one takes the lock of the queue.
pdns_loggers_rotate ==
  /\ status = "alive"
  /\ rot \in 1..Len(engines)
  /\ ~(engines[rot] = "sqlite3" /\ lostlock)
  /\ rot' = IF rot = Len(engines) THEN 0 ELSE rot + 1
  /\ mpc' = IF rot = Len(engines) THEN select_interrupted(mpc) ELSE mpc
  /\ UNCHANGED <<envVars, status, n, stopped, handlers, running, told, bgVars,
                 netVars, connVars>>

-----------------------------------------------------------------------------
(* Stopping.                                                               *)

socket_close ==
  /\ At("close")
  /\ listening' = FALSE
  /\ mpc' = "halt" /\ n' = 0
  /\ UNCHANGED <<envVars, status, stopped, sigVars, bgVars, backlog, came,
                 connVars>>

\* The SQLite back end joins its writer: that returns if the writer had begun
\* (module SqliteEngine), and never if it begins only now, because it sets the
\* flag again.  Joining a thread that fork left behind is undefined and may do
\* either; joining one that was never created may end the process.
StopEngine(e) ==
  \/ /\ e = "sqlite3" => writer # "created"
     /\ stopped' = stopped \cup {e}
     /\ UNCHANGED <<mpc, status>>
  \/ /\ e = "sqlite3" /\ writer \in {"created", "gone"}
     /\ mpc' = "hung"
     /\ UNCHANGED <<status, stopped>>
  \/ /\ e = "sqlite3" /\ writer = "none"
     /\ status' = "crashed"
     /\ UNCHANGED <<mpc, stopped>>

\* A slip: the last back end is stopped first.
loggers_halt_backwards ==
  /\ At("halt") /\ n < Len(engines)
  /\ n' = n + 1
  /\ StopEngine(engines[Len(engines) - n])
  /\ UNCHANGED <<envVars, sigVars, bgVars, netVars, connVars>>

\* Stop the next back end, enabled or not.
loggers_halt ==
  /\ At("halt") /\ n < Len(engines)
  /\ n' = n + 1
  /\ StopEngine(engines[n + 1])
  /\ UNCHANGED <<envVars, sigVars, bgVars, netVars, connVars>>

main_returns ==
  /\ At("halt") /\ n = Len(engines)
  /\ status' = "success"
  /\ mpc' = "exit"
  /\ UNCHANGED <<envVars, n, stopped, sigVars, bgVars, netVars, connVars>>

-----------------------------------------------------------------------------
(* Clients.                                                                *)

connects(c) ==
  /\ status = "alive" /\ listening
  /\ c \notin came
  /\ came' = came \cup {c}
  /\ backlog' = Append(backlog, c)
  /\ UNCHANGED <<envVars, status, mainVars, sigVars, bgVars, listening,
                 connVars>>

\* The client at the head of the queue is gone before it was accepted.
gives_up ==
  /\ status = "alive" /\ backlog # <<>>
  /\ backlog' = Tail(backlog)
  /\ UNCHANGED <<envVars, status, mainVars, sigVars, bgVars, listening, came,
                 connVars>>

\* The process has ended.
Ended == status # "alive" /\ UNCHANGED vars

MainStep ==
  \/ loggers_initialize \/ install_signal \/ fork_and_close_parent
  \/ fork_fails \/ set_running \/ socket_start \/ socket_start_fails
  \/ loop_test \/ enter_select \/ select_returns \/ slow_down
  \/ accept_connection \/ accept_fails \/ socket_start_thread
  \/ socket_start_thread_fails \/ start_thread_returns
  \/ pdns_loggers_rotate \/ socket_close \/ loggers_halt \/ main_returns

ServerNext ==
  \/ MainStep \/ bg_thread_begins
  \/ signal_kills \/ signal_stop \/ signal_rotate
  \/ \E c \in Clients : thread_starts(c) \/ thread_ends(c) \/ connects(c)
  \/ gives_up \/ Ended

ServerSafety == ServerInit /\ [][ServerNext]_vars

\* Main, the writer and a new thread are scheduled when they can run.  Nothing
\* is assumed of clients and signals.
ServerSpec ==
  /\ ServerSafety
  /\ WF_vars(MainStep) /\ WF_vars(bg_thread_begins)
  /\ \A c \in Clients : WF_vars(thread_starts(c))

-----------------------------------------------------------------------------
(* Properties.                                                             *)

\* The values the variables take; in particular accept gave a descriptor when
\* a thread is started for it (protobuf.c:191-197).
ServerTypeOK ==
  /\ foreground \in BOOLEAN /\ limit \in Fds
  /\ status \in {"alive", "killed", "crashed", "success", "failure"}
  /\ mpc \in MainPC /\ n \in 0..3 /\ handlers \in 0..4
  /\ mpc = "start" => n < 3
  /\ running \in BOOLEAN /\ told \in BOOLEAN /\ wrong \in BOOLEAN
  /\ rot \in 0..3 /\ hups \in 0..MaxHups /\ faults \in 0..MaxFaults
  /\ writer \in {"none", "created", "begun", "gone"} /\ lostlock \in BOOLEAN
  /\ stopped \subseteq {"logfile", "syslog", "sqlite3"}
  /\ listening \in BOOLEAN
  /\ backlog \in Seq(Clients) /\ came \subseteq Clients
  /\ fd \in [Fds -> Clients \cup {None}]
  /\ new \in Fds \cup {Bad} /\ who \in Clients \cup {None}
  /\ mpc \in {"spawn", "return"} => new # Bad /\ who # None
  /\ thread \in [Clients -> {"none", "new", "failed", "reading", "done"}]
  /\ sock \in [Clients -> Fds \cup {Bad, Listen}]

\* As long as every thread found its own descriptor on the stack, threads and
\* open connections correspond: a thread reads and closes only the connection
\* it was started for, although descriptors are reused, and every open
\* connection has its thread unless pthread_create failed
\* (protobuf.c:90-106, 153, 158-164, 191-198).
ReadersMatchConnections ==
  ~wrong =>
    /\ \A c \in Clients : thread[c] = "reading" =>
         sock[c] \in Fds /\ fd[sock[c]] = c
    /\ \A f \in Fds : fd[f] # None =>
         \/ mpc = "spawn" /\ f = new
         \/ thread[fd[f]] \in {"new", "failed", "reading"}

\* No signal kills a process that accepts connections: the last handler is
\* installed before the socket is opened (pdns-logger.c:208-229).
NeverKilledServing == status = "killed" => ~listening /\ came = {}

\* Only a stop signal ends the service: neither a SIGHUP that interrupts
\* select nor a failing accept or pthread_create leaves the loop, and a stop
\* signal handled while the daemon runs is never forgotten
\* (protobuf.c:174-205, pdns-logger.c:120-126, 227).
OnlyStopEndsService ==
  /\ mpc \in Looping => (told <=> ~running)
  /\ mpc \in Stopping \cup {"exit"} => told

\* When stopping the SQLite back end hangs or crashes the process, the log
\* file has been closed and its buffer written: loggers_halt stops it first
\* (pdns-logger.c:58-60, 71-81).
FileClosedFirst ==
  status = "crashed" \/ mpc \in {"hung", "exit"} =>
    "logfile" \in stopped

\* Main sleeps in select with nobody waiting.
Asleep == mpc = "select" /\ backlog = <<>>

\* Main waits for a lock or a thread that fork left behind, or for a writer
\* that overwrote the flag.
Stuck == mpc = "hung" \/ (rot = 3 /\ lostlock)

\* A stop signal handled once the daemon runs ends the process, unless Main
\* had just tested `running' and goes to sleep until the next connection or
\* signal, or is stuck on what the fork left behind (protobuf.c:174-181).
StopEndsTheProcess == told ~> (status # "alive" \/ Asleep \/ Stuck)

\* A client that waits is accepted, unless it gives up, a stop signal comes
\* first, the descriptors are used up, or a thread closed the listening socket
\* by mistake: whatever signals and failures interrupt the loop
\* (protobuf.c:174-205).
ClientIsAccepted ==
  \A c \in Clients :
    c \in {backlog[i] : i \in 1..Len(backlog)} ~>
      \/ c \notin {backlog[i] : i \in 1..Len(backlog)}
      \/ told \/ status # "alive" \/ FreeFds = {} \/ wrong \/ Stuck
=============================================================================
