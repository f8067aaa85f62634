---------------------------- MODULE ServerProofs ----------------------------
(***************************************************************************)
(* Proofs about the process, for any number of clients, descriptors,       *)
(* failures and SIGHUPs.                                                   *)
(*                                                                         *)
(* The invariant has two parts besides the types.  Control says how far    *)
(* main() must have come for handlers, socket, stop flag and back ends to  *)
(* be as they are.  Conns says that a client is in one place: it waits in  *)
(* the backlog, or it was accepted once and has at most one descriptor.    *)
(***************************************************************************)
EXTENDS Server, WellFoundedInduction, TLAPS

\* ServerTypeOK, with the Boolean variables apart.
Flags ==
  /\ foreground \in BOOLEAN /\ running \in BOOLEAN /\ told \in BOOLEAN
  /\ wrong \in BOOLEAN /\ lostlock \in BOOLEAN /\ listening \in BOOLEAN
Scalars ==
  /\ limit \in Fds
  /\ status \in {"alive", "killed", "crashed", "success", "failure"}
  /\ mpc \in MainPC /\ n \in 0..3 /\ handlers \in 0..4
  /\ mpc = "start" => n < 3
  /\ rot \in 0..3 /\ hups \in 0..MaxHups /\ faults \in 0..MaxFaults
  /\ writer \in {"none", "created", "begun", "gone"}
  /\ stopped \subseteq {"logfile", "syslog", "sqlite3"}
Tables ==
  /\ backlog \in Seq(Clients) /\ came \subseteq Clients
  /\ fd \in [Fds -> Clients \cup {None}]
  /\ new \in Fds \cup {Bad} /\ who \in Clients \cup {None}
  /\ mpc \in {"spawn", "return"} => new # Bad /\ who # None
  /\ thread \in [Clients -> {"none", "new", "failed", "reading", "done"}]
  /\ sock \in [Clients -> Fds \cup {Bad, Listen}]

\* How far main() is.
Control ==
  /\ mpc = "start" => handlers = 0
  /\ mpc = "signals" => handlers < 4
  /\ mpc \notin {"start", "signals"} => handlers = 4
  /\ status = "killed" => handlers < 4
  /\ mpc \in {"start", "signals", "fork", "run", "socket"} =>
       ~listening /\ came = {}
  /\ ~Served => ~told
  /\ mpc \in Looping \cup {"socket"} => (told <=> ~running)
  /\ mpc \in Stopping \cup {"exit"} => told
  /\ mpc = "halt" /\ n > 0 => "logfile" \in stopped
  /\ FileClosedFirst

\* Where the clients are.
Waiting == {backlog[i] : i \in 1..Len(backlog)}
Conns ==
  /\ \A i, j \in 1..Len(backlog) : backlog[i] = backlog[j] => i = j
  /\ \A c \in Waiting : c \in came /\ thread[c] = "none"
  /\ \A c \in Clients : thread[c] # "none" => c \in came
  /\ \A f \in Fds : fd[f] # None => fd[f] \in came /\ fd[f] \notin Waiting
  /\ \A f, g \in Fds : fd[f] # None /\ fd[f] = fd[g] => f = g
  /\ mpc = "spawn" =>
       who \in came /\ who \notin Waiting /\ thread[who] = "none"
  /\ ~wrong /\ mpc = "spawn" => fd[new] = who
  /\ ReadersMatchConnections

ServerIInv == Flags /\ Scalars /\ Tables /\ Control /\ Conns

-----------------------------------------------------------------------------
(* The steps.                                                              *)

\* Steps that accept no connection, start and end no thread.
Quiet ==
  \/ loggers_initialize \/ install_signal \/ fork_and_close_parent
  \/ fork_fails \/ set_running \/ socket_start \/ socket_start_fails
  \/ loop_test \/ enter_select \/ select_returns \/ slow_down \/ accept_fails
  \/ start_thread_returns \/ pdns_loggers_rotate \/ socket_close
  \/ loggers_halt \/ main_returns \/ bg_thread_begins \/ signal_kills
  \/ signal_stop \/ signal_rotate

\* ServerNext, as the proofs below split it.
LEMMA NextSteps ==
  ASSUME ServerNext \/ UNCHANGED vars
  PROVE  \/ Quiet \/ accept_connection \/ socket_start_thread
         \/ socket_start_thread_fails \/ gives_up
         \/ \E c \in Clients :
              thread_starts(c) \/ thread_ends(c) \/ connects(c)
         \/ UNCHANGED vars
BY Zenon DEF ServerNext, MainStep, Quiet, Ended

\* What quiet steps leave alone.
LEMMA QuietFrame ==
  ASSUME Quiet
  PROVE  /\ UNCHANGED <<backlog, came, connVars>>
         /\ mpc' = "spawn" <=> mpc = "spawn"
         /\ mpc' = "return" => mpc = "return"
<1>1. CASE loggers_initialize
  BY <1>1 DEF loggers_initialize, At, engines, netVars, mainVars
<1>2. CASE install_signal
  BY <1>2 DEF install_signal, At, Signals, netVars, mainVars
<1>3. CASE fork_and_close_parent
  BY <1>3 DEF fork_and_close_parent, At, netVars, mainVars
<1>4. CASE fork_fails
  BY <1>4 DEF fork_fails, At, netVars, mainVars
<1>5. CASE set_running
  BY <1>5 DEF set_running, At, netVars, mainVars
<1>6. CASE socket_start
  BY <1>6 DEF socket_start, At, netVars, mainVars
<1>7. CASE socket_start_fails
  BY <1>7 DEF socket_start_fails, At, netVars, mainVars
<1>8. CASE loop_test
  BY <1>8 DEF loop_test, At, netVars, mainVars
<1>9. CASE enter_select
  BY <1>9 DEF enter_select, At, netVars, mainVars
<1>10. CASE select_returns
  BY <1>10 DEF select_returns, At, netVars, mainVars
<1>11. CASE slow_down
  BY <1>11 DEF slow_down, At, netVars, mainVars
<1>12. CASE accept_fails
  BY <1>12 DEF accept_fails, At, Faulty, netVars, mainVars
<1>13. CASE start_thread_returns
  BY <1>13 DEF start_thread_returns, At, netVars, mainVars
<1>14. CASE pdns_loggers_rotate
  BY <1>14 DEF pdns_loggers_rotate, engines, select_interrupted, netVars,
     mainVars
<1>15. CASE socket_close
  BY <1>15 DEF socket_close, At, netVars, mainVars
<1>16. CASE loggers_halt
  BY <1>16 DEF loggers_halt, At, engines, StopEngine, netVars, mainVars
<1>17. CASE main_returns
  BY <1>17 DEF main_returns, At, engines, netVars, mainVars
<1>18. CASE bg_thread_begins
  BY <1>18 DEF bg_thread_begins, netVars, mainVars
<1>19. CASE signal_kills
  BY <1>19 DEF signal_kills, Signals, netVars, mainVars
<1>20. CASE signal_stop
  BY <1>20 DEF signal_stop, select_interrupted, Served, netVars, mainVars
<1>21. CASE signal_rotate
  BY <1>21 DEF signal_rotate, Signals, netVars, mainVars
<1>22. QED
  BY <1>1, <1>2, <1>3, <1>4, <1>5, <1>6, <1>7, <1>8, <1>9, <1>10, <1>11,
     <1>12, <1>13, <1>14, <1>15, <1>16, <1>17, <1>18, <1>19, <1>20, <1>21,
     Zenon DEF Quiet

\* The back ends by number.
LEMMA EngineNames ==
  /\ Len(engines) = 3 /\ engines[1] = "logfile"
  /\ \A i \in 1..3 : engines[i] \in {"logfile", "syslog", "sqlite3"}
BY DEF engines

\* Flags stay Boolean.
LEMMA FlagsStep ==
  ASSUME Flags, ServerNext \/ UNCHANGED vars
  PROVE  Flags'
<1> USE ServerAssumption
<1> USE DEF Flags, envVars, mainVars, sigVars, bgVars, netVars, connVars
<1>1. CASE Quiet
  <2>1. CASE loggers_initialize
    BY <2>1 DEF loggers_initialize, At, engines
  <2>2. CASE install_signal
    BY <2>2 DEF install_signal, At, Signals
  <2>3. CASE fork_and_close_parent
    BY <2>3 DEF fork_and_close_parent, At
  <2>4. CASE fork_fails
    BY <2>4 DEF fork_fails, At
  <2>5. CASE set_running
    BY <2>5 DEF set_running, At
  <2>6. CASE socket_start
    BY <2>6 DEF socket_start, At
  <2>7. CASE socket_start_fails
    BY <2>7 DEF socket_start_fails, At
  <2>8. CASE loop_test
    BY <2>8 DEF loop_test, At
  <2>9. CASE enter_select
    BY <2>9 DEF enter_select, At
  <2>10. CASE select_returns
    BY <2>10 DEF select_returns, At
  <2>11. CASE slow_down
    BY <2>11 DEF slow_down, At
  <2>12. CASE accept_fails
    BY <2>12 DEF accept_fails, At, Faulty
  <2>13. CASE start_thread_returns
    BY <2>13 DEF start_thread_returns, At
  <2>14. CASE pdns_loggers_rotate
    BY <2>14 DEF pdns_loggers_rotate, engines, select_interrupted
  <2>15. CASE socket_close
    BY <2>15 DEF socket_close, At
  <2>16. CASE loggers_halt
    BY <2>16 DEF loggers_halt, At, engines, StopEngine
  <2>17. CASE main_returns
    BY <2>17 DEF main_returns, At, engines
  <2>18. CASE bg_thread_begins
    BY <2>18 DEF bg_thread_begins
  <2>19. CASE signal_kills
    BY <2>19 DEF signal_kills, Signals
  <2>20. CASE signal_stop
    BY <2>20 DEF signal_stop, select_interrupted, Served
  <2>21. CASE signal_rotate
    BY <2>21 DEF signal_rotate, Signals
  <2>22. QED
    BY <1>1, <2>1, <2>2, <2>3, <2>4, <2>5, <2>6, <2>7, <2>8, <2>9, <2>10,
       <2>11, <2>12, <2>13, <2>14, <2>15, <2>16, <2>17, <2>18, <2>19,
       <2>20, <2>21, Zenon DEF Quiet
<1>2. CASE accept_connection
  BY <1>2 DEF accept_connection, At
<1>3. CASE socket_start_thread
  BY <1>3 DEF socket_start_thread, At
<1>4. CASE socket_start_thread_fails
  BY <1>4 DEF socket_start_thread_fails, At, Faulty
<1>5. CASE gives_up
  BY <1>5 DEF gives_up
<1>6. ASSUME NEW c \in Clients, thread_starts(c) PROVE Flags'
  BY <1>6 DEF thread_starts
<1>7. ASSUME NEW c \in Clients, thread_ends(c) PROVE Flags'
  BY <1>7 DEF thread_ends
<1>8. ASSUME NEW c \in Clients, connects(c) PROVE Flags'
  BY <1>8 DEF connects
<1>9. CASE UNCHANGED vars
  BY <1>9 DEF vars
<1>10. QED
  BY <1>1, <1>2, <1>3, <1>4, <1>5, <1>6, <1>7, <1>8, <1>9, NextSteps, Zenon

\* The other variables of main() keep their types.
LEMMA ScalarsStep ==
  ASSUME Scalars, Control, ServerNext \/ UNCHANGED vars
  PROVE  Scalars'
<1> USE ServerAssumption
<1> USE DEF Scalars, Control, MainPC, envVars, mainVars, sigVars, bgVars,
   netVars, connVars
<1>1. CASE Quiet
  <2>1. CASE loggers_initialize
    BY <2>1 DEF loggers_initialize, At, engines
  <2>2. CASE install_signal
    BY <2>2 DEF install_signal, At, Signals
  <2>3. CASE fork_and_close_parent
    BY <2>3 DEF fork_and_close_parent, At
  <2>4. CASE fork_fails
    BY <2>4 DEF fork_fails, At
  <2>5. CASE set_running
    BY <2>5 DEF set_running, At
  <2>6. CASE socket_start
    BY <2>6 DEF socket_start, At
  <2>7. CASE socket_start_fails
    BY <2>7 DEF socket_start_fails, At
  <2>8. CASE loop_test
    BY <2>8 DEF loop_test, At
  <2>9. CASE enter_select
    BY <2>9 DEF enter_select, At
  <2>10. CASE select_returns
    BY <2>10 DEF select_returns, At
  <2>11. CASE slow_down
    BY <2>11 DEF slow_down, At
  <2>12. CASE accept_fails
    BY <2>12 DEF accept_fails, At, Faulty
  <2>13. CASE start_thread_returns
    BY <2>13 DEF start_thread_returns, At
  <2>14. CASE pdns_loggers_rotate
    BY <2>14 DEF pdns_loggers_rotate, engines, select_interrupted
  <2>15. CASE socket_close
    BY <2>15 DEF socket_close, At
  <2>16. CASE loggers_halt
    <3>1. n \in 0..3 /\ n < 3 /\ n' = n + 1
      BY <2>16, EngineNames DEF loggers_halt
    <3>2. n' \in 0..3 /\ n + 1 \in 1..3
      BY <3>1
    <3>3. \/ stopped' = stopped \/ stopped' = stopped \cup {engines[n + 1]}
      BY <2>16, Zenon DEF loggers_halt, StopEngine
    <3>4. engines[n + 1] \in {"logfile", "syslog", "sqlite3"}
      BY <3>2, EngineNames, Zenon
    <3>5. stopped' \subseteq {"logfile", "syslog", "sqlite3"}
      BY <3>3, <3>4
    <3>6. QED
      BY <2>16, <3>2, <3>5 DEF loggers_halt, At, StopEngine
  <2>17. CASE main_returns
    BY <2>17 DEF main_returns, At, engines
  <2>18. CASE bg_thread_begins
    BY <2>18 DEF bg_thread_begins
  <2>19. CASE signal_kills
    BY <2>19 DEF signal_kills, Signals
  <2>20. CASE signal_stop
    BY <2>20 DEF signal_stop, select_interrupted, Served
  <2>21. CASE signal_rotate
    BY <2>21 DEF signal_rotate, Signals
  <2>22. QED
    BY <1>1, <2>1, <2>2, <2>3, <2>4, <2>5, <2>6, <2>7, <2>8, <2>9, <2>10,
       <2>11, <2>12, <2>13, <2>14, <2>15, <2>16, <2>17, <2>18, <2>19,
       <2>20, <2>21, Zenon DEF Quiet
<1>2. CASE accept_connection
  BY <1>2 DEF accept_connection, At
<1>3. CASE socket_start_thread
  BY <1>3 DEF socket_start_thread, At
<1>4. CASE socket_start_thread_fails
  BY <1>4 DEF socket_start_thread_fails, At, Faulty
<1>5. CASE gives_up
  BY <1>5 DEF gives_up
<1>6. ASSUME NEW c \in Clients, thread_starts(c) PROVE Scalars'
  BY <1>6 DEF thread_starts
<1>7. ASSUME NEW c \in Clients, thread_ends(c) PROVE Scalars'
  BY <1>7 DEF thread_ends
<1>8. ASSUME NEW c \in Clients, connects(c) PROVE Scalars'
  BY <1>8 DEF connects
<1>9. CASE UNCHANGED vars
  BY <1>9 DEF vars
<1>10. QED
  BY <1>1, <1>2, <1>3, <1>4, <1>5, <1>6, <1>7, <1>8, <1>9, NextSteps, Zenon

\* How far main() must have come.
LEMMA ControlStep ==
  ASSUME Flags, Scalars, Control, ServerNext \/ UNCHANGED vars
  PROVE  Control'
<1> USE ServerAssumption
<1> USE DEF Flags, Scalars, Control, FileClosedFirst, Served, MainPC, Looping,
   Stopping, envVars, mainVars, sigVars, bgVars, netVars, connVars
<1>1. CASE Quiet
  <2>1. CASE loggers_initialize
    BY <2>1 DEF loggers_initialize, At, engines
  <2>2. CASE install_signal
    BY <2>2 DEF install_signal, At, Signals
  <2>3. CASE fork_and_close_parent
    BY <2>3 DEF fork_and_close_parent, At
  <2>4. CASE fork_fails
    BY <2>4 DEF fork_fails, At
  <2>5. CASE set_running
    BY <2>5 DEF set_running, At
  <2>6. CASE socket_start
    BY <2>6 DEF socket_start, At
  <2>7. CASE socket_start_fails
    BY <2>7 DEF socket_start_fails, At
  <2>8. CASE loop_test
    BY <2>8 DEF loop_test, At
  <2>9. CASE enter_select
    BY <2>9 DEF enter_select, At
  <2>10. CASE select_returns
    BY <2>10 DEF select_returns, At
  <2>11. CASE slow_down
    BY <2>11 DEF slow_down, At
  <2>12. CASE accept_fails
    BY <2>12 DEF accept_fails, At, Faulty
  <2>13. CASE start_thread_returns
    BY <2>13 DEF start_thread_returns, At
  <2>14. CASE pdns_loggers_rotate
    BY <2>14 DEF pdns_loggers_rotate, engines, select_interrupted
  <2>15. CASE socket_close
    BY <2>15 DEF socket_close, At
  <2>16. CASE loggers_halt
    BY <2>16 DEF loggers_halt, At, engines, StopEngine
  <2>17. CASE main_returns
    BY <2>17 DEF main_returns, At, engines
  <2>18. CASE bg_thread_begins
    BY <2>18 DEF bg_thread_begins
  <2>19. CASE signal_kills
    BY <2>19 DEF signal_kills, Signals
  <2>20. CASE signal_stop
    BY <2>20 DEF signal_stop, select_interrupted, Served
  <2>21. CASE signal_rotate
    BY <2>21 DEF signal_rotate, Signals
  <2>22. QED
    BY <1>1, <2>1, <2>2, <2>3, <2>4, <2>5, <2>6, <2>7, <2>8, <2>9, <2>10,
       <2>11, <2>12, <2>13, <2>14, <2>15, <2>16, <2>17, <2>18, <2>19,
       <2>20, <2>21, Zenon DEF Quiet
<1>2. CASE accept_connection
  BY <1>2 DEF accept_connection, At
<1>3. CASE socket_start_thread
  BY <1>3 DEF socket_start_thread, At
<1>4. CASE socket_start_thread_fails
  BY <1>4 DEF socket_start_thread_fails, At, Faulty
<1>5. CASE gives_up
  BY <1>5 DEF gives_up
<1>6. ASSUME NEW c \in Clients, thread_starts(c) PROVE Control'
  BY <1>6 DEF thread_starts
<1>7. ASSUME NEW c \in Clients, thread_ends(c) PROVE Control'
  BY <1>7 DEF thread_ends
<1>8. ASSUME NEW c \in Clients, connects(c) PROVE Control'
  BY <1>8 DEF connects
<1>9. CASE UNCHANGED vars
  BY <1>9 DEF vars
<1>10. QED
  BY <1>1, <1>2, <1>3, <1>4, <1>5, <1>6, <1>7, <1>8, <1>9, NextSteps, Zenon

-----------------------------------------------------------------------------
(* The connections.                                                        *)

\* accept returns a free descriptor.
LEMMA LowestIsFree ==
  ASSUME NEW S \in SUBSET Nat, S # {}
  PROVE  Lowest(S) \in S
<1> DEFINE R == {p \in Nat \X Nat : p[1] < p[2]}
<1>1. IsWellFoundedOn(R, Nat)
  BY NatLessThanWellFounded DEF OpToRel
<1>2. PICK f \in S : \A g \in S : <<g, f>> \notin R
  BY <1>1, WFMin
<1>3. ASSUME NEW g \in S PROVE f <= g
  <2>1. f \in Nat /\ g \in Nat
    OBVIOUS
  <2>2. g < f => <<g, f>> \in R
    BY <2>1
  <2>3. QED
    BY <1>2, <2>1, <2>2
<1>4. QED
  BY <1>3, Zenon DEF Lowest

\* The connection accepted is the first in the queue, on a free descriptor.
LEMMA NewIsFree ==
  ASSUME Scalars, Tables, accept_connection
  PROVE  /\ new' \in Fds /\ fd[new'] = None
         /\ who' = Head(backlog) /\ who' \in Clients
<1>1. FreeFds \in SUBSET Nat /\ FreeFds # {} /\ FreeFds \subseteq Fds
  BY ServerAssumption DEF FreeFds, Fds, Scalars, accept_connection
<1>2. new' \in FreeFds
  BY <1>1, LowestIsFree DEF accept_connection
<1>3. Head(backlog) \in Clients
  BY DEF Tables, accept_connection
<1>4. QED
  BY <1>1, <1>2, <1>3 DEF FreeFds, accept_connection

\* The first client in the queue is there once.
LEMMA BacklogTail ==
  ASSUME NEW S, NEW s \in Seq(S), s # <<>>,
         \A i, j \in 1..Len(s) : s[i] = s[j] => i = j
  PROVE  /\ Tail(s) \in Seq(S) /\ Head(s) \in S
         /\ \A i, j \in 1..Len(Tail(s)) : Tail(s)[i] = Tail(s)[j] => i = j
         /\ {Tail(s)[i] : i \in 1..Len(Tail(s))} =
              {s[i] : i \in 1..Len(s)} \ {Head(s)}
         /\ Head(s) \in {s[i] : i \in 1..Len(s)}
<1>1. /\ Tail(s) \in Seq(S) /\ Head(s) \in S
      /\ Len(s) \in Nat /\ Len(s) >= 1 /\ Len(Tail(s)) = Len(s) - 1
      /\ Head(s) = s[1]
      /\ \A i \in 1..Len(Tail(s)) : Tail(s)[i] = s[i + 1]
  OBVIOUS
<1>2. \A i \in 1..Len(Tail(s)) : i + 1 \in 1..Len(s) /\ i + 1 # 1
  BY <1>1
<1>3. \A i, j \in 1..Len(Tail(s)) : Tail(s)[i] = Tail(s)[j] => i = j
  BY <1>1, <1>2
<1>4. \A i \in 1..Len(s) : i # 1 => /\ i - 1 \in 1..Len(Tail(s))
                                    /\ Tail(s)[i - 1] = s[i]
  BY <1>1
<1>5. 1 \in 1..Len(s)
  BY <1>1
<1>6. \A i \in 1..Len(Tail(s)) :
        Tail(s)[i] \in {s[j] : j \in 1..Len(s)} \ {Head(s)}
  BY <1>1, <1>2, <1>5
<1>7. \A i \in 1..Len(s) :
        s[i] # Head(s) => s[i] \in {Tail(s)[j] : j \in 1..Len(Tail(s))}
  BY <1>1, <1>4
<1>8. {Tail(s)[i] : i \in 1..Len(Tail(s))} =
        {s[i] : i \in 1..Len(s)} \ {Head(s)}
  BY <1>6, <1>7
<1>9. Head(s) \in {s[i] : i \in 1..Len(s)}
  BY <1>1, <1>5
<1>10. QED
  BY <1>1, <1>3, <1>8, <1>9, Zenon

\* A new client joins the queue.
LEMMA BacklogAppend ==
  ASSUME NEW S, NEW s \in Seq(S), NEW c \in S,
         c \notin {s[i] : i \in 1..Len(s)},
         \A i, j \in 1..Len(s) : s[i] = s[j] => i = j
  PROVE  LET t == Append(s, c)
         IN  /\ t \in Seq(S)
             /\ \A i, j \in 1..Len(t) : t[i] = t[j] => i = j
             /\ {t[i] : i \in 1..Len(t)} = {s[i] : i \in 1..Len(s)} \cup {c}
<1> DEFINE t == Append(s, c)
<1>1. /\ t \in Seq(S) /\ Len(s) \in Nat /\ Len(t) = Len(s) + 1
      /\ t[Len(s) + 1] = c
      /\ \A i \in 1..Len(s) : t[i] = s[i]
  OBVIOUS
<1>2. \A i \in 1..Len(t) : i \in 1..Len(s) \/ i = Len(s) + 1
  BY <1>1
<1>3. Len(s) + 1 \in 1..Len(t) /\ \A i \in 1..Len(s) : i \in 1..Len(t)
  BY <1>1
<1> HIDE DEF t
<1>4. \A i, j \in 1..Len(t) : t[i] = t[j] => i = j
  BY <1>1, <1>2
<1>5. {t[i] : i \in 1..Len(t)} = {s[i] : i \in 1..Len(s)} \cup {c}
  BY <1>1, <1>2, <1>3
<1>6. QED
  BY <1>1, <1>4, <1>5 DEF t

\* The connections keep their types.
LEMMA TablesStep ==
  ASSUME Scalars, Tables, Conns, ServerNext \/ UNCHANGED vars
  PROVE  Tables'
<1>1. CASE Quiet
  BY <1>1, QuietFrame DEF Tables, connVars
<1>2. CASE accept_connection
  <2>1. Tail(backlog) \in Seq(Clients)
    BY <1>2 DEF accept_connection, Tables
  <2>2. Bad \notin Fds /\ None \notin Clients
    BY ServerAssumption DEF Bad, Fds, None
  <2>3. QED
    BY <1>2, <2>1, <2>2, NewIsFree DEF accept_connection, Tables
<1>3. CASE socket_start_thread
  BY <1>3 DEF socket_start_thread, At, Tables, netVars
<1>4. CASE socket_start_thread_fails
  BY <1>4 DEF socket_start_thread_fails, At, Tables, netVars
<1>5. CASE gives_up
  BY <1>5 DEF gives_up, Tables, connVars, mainVars
<1>6. ASSUME NEW c \in Clients, thread_starts(c) PROVE Tables'
  BY <1>6 DEF thread_starts, Tables, netVars, mainVars
<1>7. ASSUME NEW c \in Clients, thread_ends(c) PROVE Tables'
  BY <1>7 DEF thread_ends, Tables, mainVars
<1>8. ASSUME NEW c \in Clients, connects(c) PROVE Tables'
  BY <1>8 DEF connects, Tables, connVars, mainVars
<1>9. CASE UNCHANGED vars
  BY <1>9 DEF vars, Tables, netVars, connVars, mainVars
<1>10. QED
  BY <1>1, <1>2, <1>3, <1>4, <1>5, <1>6, <1>7, <1>8, <1>9, NextSteps, Zenon

\* The clients in the queue.
LEMMA WaitingSame ==
  ASSUME Tables, UNCHANGED backlog
  PROVE  Waiting' = Waiting /\ Waiting \subseteq Clients
<1>1. Waiting' = Waiting
  BY Zenon DEF Waiting
<1>2. \A i \in 1..Len(backlog) : backlog[i] \in Clients
  BY DEF Tables
<1>3. QED
  BY <1>1, <1>2 DEF Waiting

\* Where a client is depends on what quiet steps leave alone.
LEMMA ConnsQuiet ==
  ASSUME Conns, UNCHANGED <<backlog, came, connVars>>,
         mpc' = "spawn" <=> mpc = "spawn"
  PROVE  Conns'
BY DEF Conns, Waiting, ReadersMatchConnections, connVars

\* A client that is accepted leaves the queue for a descriptor of its own.
LEMMA ConnsAccept ==
  ASSUME Scalars, Tables, Conns, accept_connection
  PROVE  Conns'
<1> DEFINE c == Head(backlog)
<1>1. /\ new' \in Fds /\ fd[new'] = None /\ who' = c /\ c \in Clients
      /\ backlog' = Tail(backlog) /\ fd' = [fd EXCEPT ![new'] = c]
      /\ mpc = "accept" /\ mpc' = "spawn" /\ backlog # <<>>
      /\ UNCHANGED <<came, thread, sock, wrong>>
  BY NewIsFree DEF accept_connection, At
<1>2. /\ \A i, j \in 1..Len(backlog') : backlog'[i] = backlog'[j] => i = j
      /\ Waiting' = Waiting \ {c} /\ c \in Waiting
  <2>1. /\ backlog \in Seq(Clients)
        /\ \A i, j \in 1..Len(backlog) : backlog[i] = backlog[j] => i = j
    BY DEF Tables, Conns
  <2>2. LET t == Tail(backlog)
        IN  /\ \A i, j \in 1..Len(t) : t[i] = t[j] => i = j
            /\ {t[i] : i \in 1..Len(t)} = Waiting \ {c} /\ c \in Waiting
    BY <1>1, <2>1, BacklogTail, Zenon DEF Waiting
  <2>3. backlog' = Tail(backlog)
    BY <1>1
  <2>4. QED
    BY <2>2, <2>3, Zenon DEF Waiting
<1>3. /\ fd'[new'] = c
      /\ \A f \in Fds : f # new' => fd'[f] = fd[f]
  BY <1>1 DEF Tables
<1>4. c # None
  BY <1>1, ServerAssumption DEF None
<1> HIDE DEF c
<1>5. /\ c \in came /\ thread[c] = "none"
      /\ \A f \in Fds : fd[f] # c
  BY <1>2, <1>4 DEF Conns
<1>6. \A f, g \in Fds : fd'[f] # None /\ fd'[f] = fd'[g] => f = g
  BY <1>3, <1>5 DEF Conns
<1>7. ReadersMatchConnections'
  <2>1. /\ ~wrong => \A d \in Clients : thread[d] = "reading" =>
             sock[d] \in Fds /\ fd[sock[d]] = d /\ d # None
        /\ ~wrong => \A f \in Fds : fd[f] # None =>
             thread[fd[f]] \in {"new", "failed", "reading"}
    BY <1>1, ServerAssumption DEF Conns, ReadersMatchConnections, None
  <2>2. ~wrong => \A d \in Clients : thread[d] = "reading" =>
             sock[d] # new' /\ fd'[sock[d]] = d
    BY <1>1, <1>3, <2>1
  <2>3. QED
    BY <1>1, <1>3, <2>1, <2>2 DEF ReadersMatchConnections
<1>8. QED
  BY <1>1, <1>2, <1>3, <1>5, <1>6, <1>7 DEF Conns

\* pthread_create, whether it succeeds or not, is called for a client without
\* a thread.
LEMMA ConnsSpawn ==
  ASSUME Tables, Conns, socket_start_thread \/ socket_start_thread_fails
  PROVE  Conns'
<1>1. /\ mpc = "spawn" /\ mpc' = "return" /\ who \in Clients
      /\ \E x \in {"new", "failed"} : thread' = [thread EXCEPT ![who] = x]
      /\ UNCHANGED <<backlog, came, fd, new, who, sock, wrong>>
  BY DEF socket_start_thread, socket_start_thread_fails, At, Tables, netVars
<1>2. /\ thread'[who] \in {"new", "failed"}
      /\ \A c \in Clients : c # who => thread'[c] = thread[c]
  BY <1>1 DEF Tables
<1>3. Waiting' = Waiting /\ Waiting \subseteq Clients
  BY <1>1, WaitingSame, Zenon
<1>4. ReadersMatchConnections'
  BY <1>1, <1>2 DEF Conns, ReadersMatchConnections, Tables
<1>5. QED
  BY <1>1, <1>2, <1>3, <1>4 DEF Conns

\* A thread that finds its own descriptor reads from it.
LEMMA ConnsThreadStarts ==
  ASSUME Tables, Conns, NEW c \in Clients, thread_starts(c)
  PROVE  Conns'
<1>1. /\ thread[c] = "new" /\ thread'[c] \in {"reading", "done"}
      /\ \A d \in Clients :
           d # c => thread'[d] = thread[d] /\ sock'[d] = sock[d]
      /\ UNCHANGED <<backlog, came, fd, new, who, mpc>>
  BY DEF thread_starts, Tables, netVars, mainVars
<1>2. ~wrong' => ~wrong /\ sock'[c] \in Fds /\ fd[sock'[c]] = c
  BY Zenon DEF thread_starts, Tables
<1>3. ~wrong' => thread'[c] = "reading"
  BY <1>2, ServerAssumption DEF thread_starts, Tables, Open, Bad, Listen, None,
     Fds
<1>4. Waiting' = Waiting /\ Waiting \subseteq Clients
  BY <1>1, WaitingSame, Zenon
<1>5. ReadersMatchConnections'
  BY <1>1, <1>2, <1>3 DEF Conns, ReadersMatchConnections, Tables
<1>6. /\ \A d \in Waiting' : d \in came' /\ thread'[d] = "none"
      /\ \A d \in Clients : thread'[d] # "none" => d \in came'
      /\ mpc' = "spawn" =>
           who' \in came' /\ who' \notin Waiting' /\ thread'[who'] = "none"
  BY <1>1, <1>4 DEF Conns, Tables
<1>7. QED
  BY <1>1, <1>2, <1>4, <1>5, <1>6 DEF Conns

\* A thread that has its own descriptor closes no other.
LEMMA ConnsThreadEnds ==
  ASSUME Tables, Conns, NEW c \in Clients, thread_ends(c)
  PROVE  Conns'
<1>1. /\ thread[c] = "reading" /\ thread'[c] = "done"
      /\ \A d \in Clients : d # c => thread'[d] = thread[d]
      /\ \A f \in Fds : fd'[f] = IF f = sock[c] THEN None ELSE fd[f]
      /\ UNCHANGED <<backlog, came, new, who, mpc, sock, wrong>>
  BY DEF thread_ends, Tables, mainVars
<1>2. Waiting' = Waiting /\ Waiting \subseteq Clients
  BY <1>1, WaitingSame, Zenon
<1>3. ~wrong => sock[c] \in Fds /\ fd[sock[c]] = c /\ c # None
  BY <1>1, ServerAssumption DEF Conns, ReadersMatchConnections, None
<1>4. ReadersMatchConnections'
  BY <1>1, <1>3 DEF Conns, ReadersMatchConnections, Tables
<1>5. ~wrong /\ mpc = "spawn" => fd'[new] = who
  BY <1>1, <1>3 DEF Conns, Tables, Bad
<1>6. /\ \A d \in Waiting' : d \in came' /\ thread'[d] = "none"
      /\ \A d \in Clients : thread'[d] # "none" => d \in came'
      /\ mpc' = "spawn" =>
           who' \in came' /\ who' \notin Waiting' /\ thread'[who'] = "none"
  BY <1>1, <1>2 DEF Conns, Tables
<1>7. /\ \A f \in Fds :
           fd'[f] # None => fd'[f] \in came' /\ fd'[f] \notin Waiting'
      /\ \A f, g \in Fds : fd'[f] # None /\ fd'[f] = fd'[g] => f = g
  <2>1. \A f \in Fds : fd'[f] # None => fd'[f] = fd[f]
    BY <1>1
  <2>2. QED
    BY <1>1, <1>2, <2>1 DEF Conns
<1>8. QED
  BY <1>1, <1>4, <1>5, <1>6, <1>7 DEF Conns

\* A client connects once.
LEMMA ConnsConnects ==
  ASSUME Tables, Conns, NEW c \in Clients, connects(c)
  PROVE  Conns'
<1>1. /\ c \notin came /\ came' = came \cup {c}
      /\ backlog' = Append(backlog, c)
      /\ UNCHANGED <<fd, new, who, mpc, thread, sock, wrong>>
  BY DEF connects, connVars, mainVars
<1>2. c \notin Waiting
  BY <1>1 DEF Conns
<1>3. /\ \A i, j \in 1..Len(backlog') : backlog'[i] = backlog'[j] => i = j
      /\ Waiting' = Waiting \cup {c}
  BY <1>1, <1>2, BacklogAppend DEF Waiting, Tables, Conns
<1>4. ReadersMatchConnections'
  BY <1>1 DEF Conns, ReadersMatchConnections
<1>5. QED
  BY <1>1, <1>3, <1>4 DEF Conns

\* A client that gives up leaves the queue.
LEMMA ConnsGivesUp ==
  ASSUME Tables, Conns, gives_up
  PROVE  Conns'
<1>1. /\ backlog # <<>> /\ backlog' = Tail(backlog)
      /\ UNCHANGED <<came, fd, new, who, mpc, thread, sock, wrong>>
  BY DEF gives_up, connVars, mainVars
<1>2. /\ \A i, j \in 1..Len(backlog') : backlog'[i] = backlog'[j] => i = j
      /\ Waiting' \subseteq Waiting
  BY <1>1, BacklogTail DEF Waiting, Tables, Conns
<1>3. ReadersMatchConnections'
  BY <1>1 DEF Conns, ReadersMatchConnections
<1>4. QED
  BY <1>1, <1>2, <1>3 DEF Conns

-----------------------------------------------------------------------------
(* The invariant holds, and what follows from it.                          *)

\* The invariant holds when main() begins to start the back ends.
LEMMA ServerInitIInv == ServerInit => ServerIInv
<1> SUFFICES ASSUME ServerInit PROVE ServerIInv
  OBVIOUS
<1>1. Flags
  BY Zenon DEF ServerInit, Flags
<1>2. Scalars
  BY ServerAssumption DEF ServerInit, Scalars, MainPC
<1>3. Tables
  BY DEF ServerInit, Tables
<1>4. Control
  BY DEF ServerInit, Control, FileClosedFirst, Served, Looping, Stopping
<1>5. Waiting = {}
  BY DEF ServerInit, Waiting
<1>6. Conns
  BY <1>5 DEF ServerInit, Conns, ReadersMatchConnections
<1>7. QED
  BY <1>1, <1>2, <1>3, <1>4, <1>6 DEF ServerIInv

\* Every step preserves it.
LEMMA ServerNextIInv ==
  ServerIInv /\ [ServerNext]_vars => ServerIInv'
<1> SUFFICES ASSUME ServerIInv, ServerNext \/ UNCHANGED vars
             PROVE  ServerIInv'
  OBVIOUS
<1>1. Flags /\ Scalars /\ Tables /\ Control /\ Conns
  BY DEF ServerIInv
<1>2. Flags' /\ Scalars' /\ Tables' /\ Control'
  BY <1>1, FlagsStep, ScalarsStep, TablesStep, ControlStep
<1>3. Conns'
  <2>1. CASE Quiet
    BY <1>1, <2>1, QuietFrame, ConnsQuiet
  <2>2. CASE UNCHANGED vars
    BY <1>1, <2>2, ConnsQuiet DEF vars, netVars, mainVars
  <2>3. QED
    BY <1>1, <2>1, <2>2, NextSteps, ConnsAccept, ConnsSpawn, ConnsThreadStarts,
       ConnsThreadEnds, ConnsConnects, ConnsGivesUp
<1>4. QED
  BY <1>2, <1>3 DEF ServerIInv

\* The invariant of main() and of the accept loop (pdns-logger.c:194-246,
\* protobuf.c:158-206).
THEOREM ServerInvariant == ServerSafety => []ServerIInv
BY ServerInitIInv, ServerNextIInv, PTL DEF ServerSafety

\* The variables keep their types: a thread is started only for a descriptor
\* that accept returned (protobuf.c:191-197).
THEOREM ServerTypeCorrect == ServerSafety => []ServerTypeOK
<1>1. ServerIInv => ServerTypeOK
  BY DEF ServerIInv, Flags, Scalars, Tables, ServerTypeOK
<1>2. QED
  BY <1>1, ServerInvariant, PTL

\* While no thread has read a descriptor that is not its own, threads and open
\* connections correspond, although descriptors are reused
\* (protobuf.c:90-106, 153, 158-164, 191-198).
THEOREM ServerReadersMatchConnections ==
  ServerSafety => []ReadersMatchConnections
<1>1. ServerIInv => ReadersMatchConnections
  BY DEF ServerIInv, Conns
<1>2. QED
  BY <1>1, ServerInvariant, PTL

\* No signal kills a process that accepts connections
\* (pdns-logger.c:208-229).
THEOREM ServerNeverKilledServing == ServerSafety => []NeverKilledServing
<1>1. ServerIInv => NeverKilledServing
  BY DEF ServerIInv, Scalars, Control, NeverKilledServing
<1>2. QED
  BY <1>1, ServerInvariant, PTL

\* Only a stop signal ends the service, and one handled while the daemon runs
\* is never forgotten (protobuf.c:174-205, pdns-logger.c:120-126, 227).
THEOREM ServerOnlyStopEndsService == ServerSafety => []OnlyStopEndsService
<1>1. ServerIInv => OnlyStopEndsService
  BY DEF ServerIInv, Control, OnlyStopEndsService
<1>2. QED
  BY <1>1, ServerInvariant, PTL

\* When stopping the SQLite back end hangs or crashes the process, the log
\* file has been closed (pdns-logger.c:58-60, 71-81).
THEOREM ServerFileClosedFirst == ServerSafety => []FileClosedFirst
<1>1. ServerIInv => FileClosedFirst
  BY DEF ServerIInv, Control
<1>2. QED
  BY <1>1, ServerInvariant, PTL
=============================================================================
