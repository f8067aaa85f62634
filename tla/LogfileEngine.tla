--------------------------- MODULE LogfileEngine ---------------------------
(***************************************************************************)
(* The text file back end (src/src/pdns-logger-file.c): connection threads *)
(* write lines while the main thread rotates (SIGHUP) and stops it.  `fp'  *)
(* is shared without a lock and read anew by each use in write_log.  A     *)
(* line is known by its number.  The stdio calls are external: each is     *)
(* atomic, because stdio locks the FILE.                                   *)
(***************************************************************************)
EXTENDS Naturals, Sequences

CONSTANTS
  Producers,            \* connection threads
  MaxLines,             \* bound on the number of lines
  MaxRotations          \* bound on the number of SIGHUPs

ASSUME LogfileAssumption ==
  MaxLines \in Nat /\ MaxRotations \in Nat

VARIABLES
  force_flush,          \* [logfile] force-flush, from the configuration
  fp,                   \* fp is not null
  file,                 \* the FILE it points to: "open" or "closed"
  avail,                \* the path can be opened now
  next,                 \* lines logged so far
  line,                 \* the line each producer is writing, 0: none
  ppc,                  \* where each producer is in write_log
  mpc,                  \* "serving", "reopening", "stopped" or "exit"
  buffered, disk,       \* lines in stdio's buffer, and in the file
  dropped,              \* lines not written because fp was null
  spoiled,              \* lines given to a FILE that was closed
  rotations             \* SIGHUPs handled so far

fileVars == <<force_flush, fp, file, avail, next, line, ppc, mpc, buffered,
              disk, dropped, spoiled, rotations>>

\* logfile_init: fopen succeeded.  If it fails, or the back end is disabled,
\* fp is null and every operation below does nothing.
FileInit ==
  /\ force_flush \in BOOLEAN
  /\ fp = TRUE
  /\ file = "open"
  /\ avail = TRUE
  /\ next = 0
  /\ line = [p \in Producers |-> 0]
  /\ ppc = [p \in Producers |-> "idle"]
  /\ mpc = "serving"
  /\ buffered = <<>> /\ disk = <<>>
  /\ dropped = {} /\ spoiled = {}
  /\ rotations = 0

-----------------------------------------------------------------------------
(* write_log, on a producer's thread.                                      *)

\* if (fp != NULL)
write_log(p) ==
  /\ mpc # "exit" /\ ppc[p] = "idle" /\ next < MaxLines
  /\ next' = next + 1
  /\ line' = [line EXCEPT ![p] = IF fp THEN next + 1 ELSE 0]
  /\ ppc' = [ppc EXCEPT ![p] = IF fp THEN "print" ELSE "idle"]
  /\ dropped' = IF fp THEN dropped ELSE dropped \cup {next + 1}
  /\ UNCHANGED <<force_flush, fp, file, avail, mpc, buffered, disk, spoiled,
                 rotations>>

\* fprintf(fp, ...).  A null or closed fp is undefined: the line is spoiled,
\* and the process may die.
fprintf(p) ==
  /\ mpc # "exit" /\ ppc[p] = "print"
  /\ LET ok == fp /\ file = "open"
     IN  /\ buffered' = IF ok THEN Append(buffered, line[p]) ELSE buffered
         /\ spoiled' = IF ok THEN spoiled ELSE spoiled \cup {line[p]}
         /\ ppc' = [ppc EXCEPT ![p] = IF ok /\ force_flush THEN "flush"
                                      ELSE "idle"]
         /\ line' = [line EXCEPT ![p] = IF ok /\ force_flush THEN @ ELSE 0]
         /\ mpc' \in IF ok THEN {mpc} ELSE {mpc, "exit"}
  /\ UNCHANGED <<force_flush, fp, file, avail, next, disk, dropped, rotations>>

\* A slip: fflush is forgotten.
fflush_forgotten(p) ==
  /\ mpc # "exit" /\ ppc[p] = "flush"
  /\ ppc' = [ppc EXCEPT ![p] = "idle"]
  /\ line' = [line EXCEPT ![p] = 0]
  /\ UNCHANGED <<force_flush, fp, file, avail, next, mpc, buffered, disk,
                 dropped, spoiled, rotations>>

\* fflush(fp).  A null fp flushes every stream; a closed one is undefined, but
\* its buffer was written when it was closed.
fflush(p) ==
  /\ mpc # "exit" /\ ppc[p] = "flush"
  /\ disk' = disk \o buffered
  /\ buffered' = <<>>
  /\ ppc' = [ppc EXCEPT ![p] = "idle"]
  /\ line' = [line EXCEPT ![p] = 0]
  /\ mpc' \in IF fp /\ file = "closed" THEN {mpc, "exit"} ELSE {mpc}
  /\ UNCHANGED <<force_flush, fp, file, avail, next, dropped, spoiled,
                 rotations>>

\* stdio writes its buffer when it is full.
stdio_drains ==
  /\ buffered # <<>>
  /\ mpc # "exit" /\ file = "open"
  /\ disk' = disk \o buffered
  /\ buffered' = <<>>
  /\ UNCHANGED <<force_flush, fp, file, avail, next, line, ppc, mpc, dropped,
                 spoiled, rotations>>

-----------------------------------------------------------------------------
(* The main thread.                                                        *)

\* Two slips: the buffer is discarded with the old file; the file is closed
\* first and opened in a second step.
freopen_discards ==
  /\ mpc = "serving" /\ rotations < MaxRotations
  /\ rotations' = rotations + 1
  /\ fp
  /\ buffered' = <<>>
  /\ file' = IF avail THEN "open" ELSE "closed"
  /\ mpc' = IF avail THEN "serving" ELSE "reopening"
  /\ UNCHANGED <<force_flush, fp, avail, next, line, ppc, disk, dropped,
                 spoiled>>

freopen_in_two_steps ==
  /\ mpc = "serving" /\ rotations < MaxRotations
  /\ rotations' = rotations + 1
  /\ fp
  /\ disk' = disk \o buffered
  /\ buffered' = <<>>
  /\ file' = "closed"
  /\ mpc' = "reopening"
  /\ UNCHANGED <<force_flush, fp, avail, next, line, ppc, dropped, spoiled>>

\* logfile_rotate, freopen: flushes, closes, and opens again or not.
freopen ==
  /\ mpc = "serving" /\ rotations < MaxRotations
  /\ rotations' = rotations + 1
  /\ fp
  /\ disk' = disk \o buffered
  /\ buffered' = <<>>
  /\ file' = IF avail THEN "open" ELSE "closed"
  /\ mpc' = IF avail THEN "serving" ELSE "reopening"
  /\ UNCHANGED <<force_flush, fp, avail, next, line, ppc, dropped, spoiled>>

\* logfile_rotate: fp becomes the null pointer freopen returned.
rotate_fails ==
  /\ mpc = "reopening"
  /\ mpc' = "serving"
  /\ fp' = FALSE
  /\ UNCHANGED <<force_flush, file, avail, next, line, ppc, buffered, disk,
                 dropped, spoiled, rotations>>

\* logfile_rotate with fp null: nothing, even if the path is available.
rotate_nothing ==
  /\ mpc = "serving" /\ rotations < MaxRotations
  /\ rotations' = rotations + 1
  /\ ~fp
  /\ UNCHANGED <<force_flush, fp, file, avail, next, line, ppc, mpc, buffered,
                 disk, dropped, spoiled>>

\* SIGHUP after logfile_stop: freopen on a closed FILE is undefined.
freopen_closed ==
  /\ mpc = "stopped" /\ rotations < MaxRotations
  /\ rotations' = rotations + 1
  /\ fp
  /\ fp' \in BOOLEAN
  /\ mpc' \in {"stopped", "exit"}
  /\ UNCHANGED <<force_flush, file, avail, next, line, ppc, buffered, disk,
                 dropped, spoiled>>

\* logfile_stop: fclose(fp); fp keeps its value.
logfile_stop ==
  /\ mpc = "serving"
  /\ mpc' = "stopped"
  /\ file' = "closed"
  /\ disk' = disk \o buffered
  /\ buffered' = <<>>
  /\ UNCHANGED <<force_flush, fp, avail, next, line, ppc, dropped, spoiled,
                 rotations>>

\* The process ends.
main_returns ==
  /\ mpc = "stopped"
  /\ mpc' = "exit"
  /\ UNCHANGED <<force_flush, fp, file, avail, next, line, ppc, buffered,
                 disk, dropped, spoiled, rotations>>

\* The environment: the path comes and goes.
path_changes ==
  /\ mpc = "serving"
  /\ avail' = ~avail
  /\ UNCHANGED <<force_flush, fp, file, next, line, ppc, mpc, buffered, disk,
                 dropped, spoiled, rotations>>

FileNext ==
  \/ \E p \in Producers : write_log(p) \/ fprintf(p) \/ fflush(p)
  \/ stdio_drains
  \/ freopen \/ rotate_fails \/ rotate_nothing \/ freopen_closed
  \/ logfile_stop \/ main_returns \/ path_changes

FileSpec == FileInit /\ [][FileNext]_fileVars

-----------------------------------------------------------------------------
(* Properties.                                                             *)

InSeq(s) == {s[i] : i \in 1..Len(s)}
Printing == {line[p] : p \in {q \in Producers : ppc[q] = "print"}}

\* A line is in one place: being printed, dropped, spoiled, buffered or in
\* the file, and no line is in the file twice (file.c:81-109).
EachLineOnce ==
  /\ \A i, j \in 1..Len(disk \o buffered) :
       i # j => (disk \o buffered)[i] # (disk \o buffered)[j]
  /\ \A n \in 1..next :
       n \in Printing \cup dropped \cup spoiled \cup InSeq(disk \o buffered)
  /\ (dropped \cup spoiled) \cap InSeq(disk \o buffered) = {}

\* With force-flush=1, a line whose call has returned is in the file
\* (file.c:103-109).
FlushedOnReturn ==
  force_flush => InSeq(buffered) \subseteq {line[p] : p \in Producers}

\* A reopen failed, and fp is null or about to be.
ReopenFailed == ~fp \/ (mpc = "reopening" /\ ~avail)

\* As long as every reopen succeeds, no line is lost before the shutdown,
\* however rotations and writers interleave (file.c:81-109).
LostOnlyByFailureOrStop ==
  mpc \in {"serving", "reopening"} /\ ~ReopenFailed =>
    spoiled = {} /\ dropped = {}
=============================================================================
