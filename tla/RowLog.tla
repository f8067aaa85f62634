------------------------------- MODULE RowLog -------------------------------
(***************************************************************************)
(* What the SQLite back end promises, without threads, statements or a     *)
(* connection: a lossy, ordered log.  Rows are numbered in the order in    *)
(* which logsqlite_log submits them.  A row in flight is written or lost;  *)
(* it is never written behind a later one.  What is written is open, until *)
(* a commit makes it durable or a rollback loses it; a durable row stays.  *)
(***************************************************************************)
EXTENDS Naturals, Sequences

CONSTANT MaxRows        \* bound on the number of rows ever submitted

VARIABLES
  next,                 \* rows submitted so far; the last has this number
  lost,                 \* rows that will never be in the log
  open,                 \* rows written and not yet durable, in order
  durable               \* rows in the log for good, in order

logVars == <<next, lost, open, durable>>

Rows(s) == {s[i] : i \in 1..Len(s)}
Written == Rows(open) \cup Rows(durable)
InFlight == (1..next) \ (lost \cup Written)

LogInit == next = 0 /\ lost = {} /\ open = <<>> /\ durable = <<>>

\* A row is submitted, and may be lost at once.
Submit ==
  /\ next < MaxRows
  /\ next' = next + 1
  /\ lost' \in {lost, lost \cup {next + 1}}
  /\ UNCHANGED <<open, durable>>

Lose ==
  /\ \E n \in InFlight : lost' = lost \cup {n}
  /\ UNCHANGED <<next, open, durable>>

\* A row is written behind all others, to stay open or to be durable at once.
Write ==
  \E n \in InFlight :
    /\ \A m \in Written : m < n
    /\ \/ open' = Append(open, n) /\ UNCHANGED durable
       \/ open = <<>> /\ durable' = Append(durable, n) /\ UNCHANGED open
    /\ UNCHANGED <<next, lost>>

Commit ==
  /\ durable' = durable \o open
  /\ open' = <<>>
  /\ UNCHANGED <<next, lost>>

\* The open rows are lost, with the row whose INSERT caused it, if any.
RollBack ==
  /\ open' = <<>>
  /\ \E S \in {{}} \cup {{n} : n \in InFlight} :
       lost' = lost \cup Rows(open) \cup S
  /\ UNCHANGED <<next, durable>>

LogNext == Submit \/ Lose \/ Write \/ Commit \/ RollBack

LogSpec == LogInit /\ [][LogNext]_logVars
=============================================================================
