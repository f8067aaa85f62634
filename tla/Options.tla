------------------------------ MODULE Options ------------------------------
(***************************************************************************)
(* How the options get from the command line and the configuration file    *)
(* into the program: parse_cli (src/src/pdns-logger.c), the INI parser     *)
(* (src/src/inih/ini.c) and the opt_handlers, up to the point where every  *)
(* back end is started or not.                                             *)
(*                                                                         *)
(* The file is read four times, once for [globals] and once by each back   *)
(* end; it may be replaced or become unreadable in between.                *)
(*                                                                         *)
(* A line is what fgets returns (INI_MAX_LINE cuts longer ones), by its    *)
(* kind.  A text is a string and Atoi the number atoi reads in it.         *)
(***************************************************************************)
EXTENDS Integers, Sequences, FiniteSetsExt

CONSTANTS
  Texts,                \* the values that occur in the file; "" is not one
  Atoi,                 \* the number each of them begins with, or 0
  Other,                \* the text of a line that begins with no number
  Files,                \* the files the program may be started with
  Edits,                \* the files it may be replaced by
  Argvs,                \* the command lines considered
  MaxUpsets             \* bound on edits and failures to open a file

VARIABLES
  args, argi,           \* argv, and how far getopt is
  config_file,          \* globals.config_file
  pc,                   \* "cli", "open", "lines", "started" or "failure"
  pass,                 \* the reader of the file: 1 for main, 2 to 4
  file,                 \* its content on disk
  pos,                  \* lines read in this pass
  section, prev_name,   \* the parser's locals
  error,                \* its result: 0, the first bad line, or -1
  opt,                  \* the options
  engine,               \* what became of each back end
  seen,                 \* the content that each pass has read
  unread,               \* the passes that could not open the file
  upsets                \* edits and failures so far

parseVars == <<pos, section, prev_name, error>>
histVars == <<seen, unread>>
optVars == <<args, argi, config_file, pc, pass, file, parseVars, opt, engine,
             histVars, upsets>>

\* The string "".
Empty == ""

\* What the parser makes of a line: rstrip, lskip and find_chars_or_comment
\* leave a key and a text without blanks and inline comment.  key is a
\* section's or an option's name.
Kinds == {"blank", "comment", "header", "unclosed", "pair", "junk"}
Line(kind, indent, key, text) ==
  [kind |-> kind, indent |-> indent, key |-> key, text |-> text]

Lines == [kind : Kinds, indent : BOOLEAN, key : STRING, text : Texts \cup {Empty}]

ASSUME OptionsAssumption ==
  /\ Atoi \in [Texts -> Int] /\ Other \in Texts /\ Atoi[Other] = 0
  /\ Files \subseteq Seq(Lines) /\ Edits \subseteq Seq(Lines)
  /\ Argvs \subseteq Seq(STRING)
  /\ MaxUpsets \in Nat

\* The text of a whole line, as a continuation passes it on.
Whole(l) == IF l.kind = "junk" THEN l.text ELSE Other

\* The options each opt_handler stores.  [syslog] ident, facility and level
\* are accepted and dropped.
globals_options == {"bind-ip", "bind-port", "allow-root", "foreground"}
logfile_options == {"logfile", "force-flush", "only-rewrites", "disabled"}
syslog_options == {"only-rewrites", "disabled"}
sqlite_options == {"dbfile", "only-rewrites", "disabled", "autocommit"}

\* The section each pass looks for, and its options.
Sections == <<"globals", "logfile", "syslog", "sqlite3">>
Stored == <<globals_options, logfile_options, syslog_options, sqlite_options>>
Opts == UNION {{Sections[p]} \X Stored[p] : p \in 1..4}

Strings == {"bind-ip", "logfile", "dbfile"}
Default(name) ==
  CASE name \in Strings -> Empty
    [] name \in {"only-rewrites", "autocommit"} -> 1
    [] OTHER -> 0

\* A slip: atoi's result is stored as it is.
Convert_raw(name, text) == IF name \in Strings THEN text ELSE Atoi[text]

\* strdup(value), atoi(value), or atoi(value) ? 1 : 0.
Convert(name, text) ==
  CASE name \in Strings -> text
    [] name = "bind-port" -> Atoi[text]
    [] OTHER -> IF Atoi[text] # 0 THEN 1 ELSE 0

OptInit ==
  /\ args \in Argvs /\ argi = 0
  /\ config_file = "default"
  /\ pc = "cli" /\ pass = 1
  /\ file \in Files
  /\ pos = 0 /\ section = Empty /\ prev_name = Empty /\ error = 0
  /\ opt = [o \in Opts |-> Default(o[2])]
  /\ engine = [p \in 2..4 |-> "unset"]
  /\ seen = <<>> /\ unread = {} /\ upsets = 0

Upset == upsets < MaxUpsets /\ upsets' = upsets + 1

-----------------------------------------------------------------------------
(* parse_cli.                                                              *)

\* The next option.  -h returns PDNS_OK at once, and main() goes on.
parse_option ==
  /\ pc = "cli" /\ argi < Len(args)
  /\ LET a == args[argi + 1] IN
     /\ argi' = IF a = "-h" THEN Len(args) ELSE argi + 1
     /\ config_file' = IF a = "-c" THEN "given" ELSE config_file
     /\ opt' = IF a = "-f" THEN [opt EXCEPT ![<<"globals", "foreground">>] = 1]
               ELSE opt
     /\ pc' = IF a \in {"-h", "-c", "-f", "-v"} THEN pc ELSE "failure"
  /\ UNCHANGED <<args, pass, file, parseVars, engine, histVars, upsets>>

parse_cli_returns ==
  /\ pc = "cli" /\ argi = Len(args)
  /\ pc' = "open"
  /\ UNCHANGED <<args, argi, config_file, pass, file, parseVars, opt, engine,
                 histVars, upsets>>

-----------------------------------------------------------------------------
(* ini_parse, for the reader `pass'.                                       *)

ini_opens ==
  /\ pc = "open"
  /\ pc' = "lines"
  /\ seen' = Append(seen, file)
  /\ UNCHANGED <<args, argi, config_file, pass, file, parseVars, opt, engine,
                 unread, upsets>>

\* fopen fails: ini_parse returns -1.
ini_cannot_open ==
  /\ pc = "open"
  /\ Upset
  /\ pc' = "lines"
  /\ error' = -1
  /\ seen' = Append(seen, <<>>) /\ unread' = unread \cup {pass}
  /\ pos' = Len(file)
  /\ UNCHANGED <<args, argi, config_file, pass, file, section, prev_name, opt,
                 engine>>

\* Read the next line.  The next case to consider is the one it is in.
ReadLine ==
  /\ pc = "lines" /\ pos < Len(file)
  /\ pos' = pos + 1
  /\ UNCHANGED <<args, argi, config_file, pc, pass, file, engine, histVars,
                 upsets>>
TheLine == file[pos + 1]
Continues ==
  /\ prev_name # Empty
  /\ TheLine.indent /\ TheLine.kind \notin {"blank", "comment"}

\* The handler of this pass: every option of its section that it knows, unless
\* the value is empty.
opt_handler(sec, name, text) ==
  IF sec = Sections[pass] /\ name \in Stored[pass] /\ text # Empty
  THEN [opt EXCEPT ![<<sec, name>>] = Convert(name, text)] ELSE opt

ini_skips ==
  /\ ReadLine
  /\ TheLine.kind \in {"blank", "comment"}
  /\ UNCHANGED <<section, prev_name, error, opt>>

\* "Non-blank line with leading whitespace, treat as continuation of previous
\* name's value": the handler is called with the same name again.
ini_continues ==
  /\ ReadLine
  /\ Continues
  /\ opt' = opt_handler(section, prev_name, Whole(TheLine))
  /\ UNCHANGED <<section, prev_name, error>>

\* A slip: the name is kept across sections.
ini_section_keeps_name ==
  /\ ReadLine
  /\ ~Continues /\ TheLine.kind = "header"
  /\ section' = TheLine.key
  /\ UNCHANGED <<prev_name, error, opt>>

ini_section ==
  /\ ReadLine
  /\ ~Continues /\ TheLine.kind = "header"
  /\ section' = TheLine.key /\ prev_name' = Empty
  /\ UNCHANGED <<error, opt>>

\* A slip: the result is that of the last line.
ini_pair_forgives ==
  /\ ReadLine
  /\ ~Continues /\ TheLine.kind = "pair"
  /\ prev_name' = TheLine.key
  /\ opt' = opt_handler(section, TheLine.key, TheLine.text)
  /\ error' = 0
  /\ UNCHANGED section

ini_pair ==
  /\ ReadLine
  /\ ~Continues /\ TheLine.kind = "pair"
  /\ prev_name' = TheLine.key
  /\ opt' = opt_handler(section, TheLine.key, TheLine.text)
  /\ UNCHANGED <<section, error>>

\* A section without "]", or a line without "=": the first one is the result,
\* and reading goes on.
ini_error ==
  /\ ReadLine
  /\ ~Continues /\ TheLine.kind \in {"unclosed", "junk"}
  /\ error' = IF error = 0 THEN pos + 1 ELSE error
  /\ UNCHANGED <<section, prev_name, opt>>

-----------------------------------------------------------------------------
(* The four readers: what they do once ini_parse has returned.             *)

Returned(p) == pc = "lines" /\ pass = p /\ pos = Len(file)

NextPass ==
  /\ pass' = pass + 1
  /\ pc' = IF pass = 4 THEN "started" ELSE "open"
  /\ pos' = 0 /\ section' = Empty /\ prev_name' = Empty /\ error' = 0
  /\ UNCHANGED <<args, argi, config_file, file, opt, histVars>>

\* main(): exit(EXIT_FAILURE) if the file is bad.
parse_config_file ==
  /\ Returned(1)
  /\ IF error = 0 THEN NextPass
     ELSE /\ pc' = "failure"
          /\ UNCHANGED <<args, argi, config_file, pass, file, parseVars, opt,
                         histVars>>
  /\ UNCHANGED <<engine, upsets>>

\* What a back end's start comes to; `missing': a path it needs is not set.
Outcome(missing) ==
  CASE error # 0 -> "failed"
    [] error = 0 /\ opt[<<Sections[pass], "disabled">>] = 1 -> "disabled"
    [] OTHER -> IF missing THEN "failed" ELSE "on"

\* fopen of the log file may fail too.
logfile_init ==
  /\ Returned(2)
  /\ LET on == Outcome(opt[<<"logfile", "logfile">>] = Empty) IN
     \/ engine' = [engine EXCEPT ![2] = on] /\ UNCHANGED upsets
     \/ on = "on" /\ Upset /\ engine' = [engine EXCEPT ![2] = "failed"]
  /\ NextPass

syslog_init ==
  /\ Returned(3)
  /\ engine' = [engine EXCEPT ![3] = Outcome(FALSE)]
  /\ NextPass
  /\ UNCHANGED upsets

\* A slip: the database's name is not tested.
logsqlite_init_untested ==
  /\ Returned(4)
  /\ engine' = [engine EXCEPT ![4] = Outcome(FALSE)]
  /\ NextPass
  /\ UNCHANGED upsets

\* "on": the queue and the writer thread exist, even if db_open failed.
logsqlite_init ==
  /\ Returned(4)
  /\ engine' = [engine EXCEPT ![4] = Outcome(opt[<<"sqlite3", "dbfile">>] = Empty)]
  /\ NextPass
  /\ UNCHANGED upsets

\* Somebody saves another version of the file.
file_edited ==
  /\ pc = "open"
  /\ Upset
  /\ file' \in Edits
  /\ UNCHANGED <<args, argi, config_file, pc, pass, parseVars, opt, engine,
                 histVars>>

OptNext ==
  \/ parse_option \/ parse_cli_returns \/ ini_opens \/ ini_cannot_open
  \/ ini_skips \/ ini_continues \/ ini_section \/ ini_pair \/ ini_error
  \/ parse_config_file \/ logfile_init \/ syslog_init \/ logsqlite_init
  \/ file_edited

OptSpec == OptInit /\ [][OptNext]_optVars

-----------------------------------------------------------------------------
(* What a file means, without reading it line by line.                     *)

\* A name stands before line i whose value an indented line would continue:
\* only a header or a pair without a name, at the start of a line, ends it.
Ends(l) == ~l.indent /\ (l.kind = "header" \/ (l.kind = "pair" /\ l.key = Empty))
Pending(F, i) ==
  \E j \in 1..(i - 1) :
    /\ F[j].kind = "pair" /\ F[j].key # Empty
    /\ \A h \in (j + 1)..(i - 1) : ~Ends(F[h])

Role(F, i) == IF F[i].kind \in {"blank", "comment"} THEN "none"
              ELSE IF F[i].indent /\ Pending(F, i) THEN "more" ELSE F[i].kind

\* The key of the last line before i in this role.
KeyBefore(F, i, role) ==
  LET S == {j \in 1..(i - 1) : Role(F, j) = role}
  IN  IF S = {} THEN Empty ELSE F[Max(S)].key

NameOf(F, i) == IF Role(F, i) = "pair" THEN F[i].key
                ELSE KeyBefore(F, i, "pair")
TextOf(F, i) == IF Role(F, i) = "pair" THEN F[i].text ELSE Whole(F[i])

\* The lines that set an option, of which the last one counts.
Setters(F, sec, name) ==
  {i \in 1..Len(F) :
     /\ Role(F, i) \in {"pair", "more"}
     /\ KeyBefore(F, i, "header") = sec
     /\ NameOf(F, i) = name /\ TextOf(F, i) # Empty}
Meaning(F, sec, name, default) ==
  LET S == Setters(F, sec, name)
  IN  IF S = {} THEN default ELSE Convert(name, TextOf(F, Max(S)))

Good(F) == \A i \in 1..Len(F) : Role(F, i) \notin {"junk", "unclosed"}

\* -f was given, and no -h before it.
ForegroundGiven ==
  \E i \in 1..Len(args) :
    args[i] = "-f" /\ \A j \in 1..i : args[j] # "-h"

\* The value an option has when the file does not set it.
Unset(o) == IF o[2] = "foreground" /\ ForegroundGiven THEN 1 ELSE Default(o[2])

-----------------------------------------------------------------------------
(* Properties.                                                             *)

\* The values the variables take: an option that is a flag is 0 or 1, whatever
\* number the file holds (pdns-logger-ini.c:33-35, file.c:38-42, syslog.c:84-86,
\* sqlite.c:192-196).
OptTypeOK ==
  /\ pc \in {"cli", "open", "lines", "started", "failure"}
  /\ argi \in 0..Len(args) /\ config_file \in {"default", "given"}
  /\ pass \in 1..5 /\ pos \in 0..Len(file) /\ error \in -1..Len(file)
  /\ engine \in [2..4 -> {"unset", "failed", "disabled", "on"}]
  /\ \A o \in Opts :
       CASE o[2] \in Strings -> opt[o] \in Texts \cup {Empty}
         [] o[2] = "bind-port" -> opt[o] \in Int
         [] OTHER -> opt[o] \in {0, 1}

\* Each option has the value of the last line that sets it in the version of
\* the file its reader saw, and else its default: for [globals] foreground
\* what the command line says (README.md:117).  A section's options never mix
\* two versions, and no section reaches into another (inih/ini.c:105-167,
\* pdns-logger-ini.c:20-50 and the other opt_handlers).
SettingsAreTheFiles ==
  \A p \in 1..4 :
    pass > p =>
      \A name \in Stored[p] :
        LET o == <<Sections[p], name>>
        IN  opt[o] = Meaning(seen[p], o[1], name, Unset(o))

\* main() goes on exactly if the command line is right and the file could be
\* read and has no bad line: an indented line is bad only when there is no name
\* it could continue (pdns-logger.c:183-195, pdns-logger-ini.c:52-64).
StartsIffGood ==
  /\ pass > 1 => Good(seen[1]) /\ 1 \notin unread
  /\ pc = "failure" =>
       \/ \E i \in 1..Len(args) : args[i] \notin {"-h", "-c", "-f", "-v"}
       \/ seen # <<>> /\ (~Good(seen[1]) \/ 1 \in unread)

\* A back end runs only if its own reading of the file succeeded and told it
\* everything it needs, even if the file changed after main() had read it;
\* without such upsets it is off only if the file says so
\* (file.c:52-79, syslog.c:96-118, sqlite.c:205-230).
EnginesAsConfigured ==
  \A p \in 2..4 :
    LET F == seen[p]
        off == Meaning(F, Sections[p], "disabled", 0) = 1
        bare == \/ p = 2 /\ Meaning(F, "logfile", "logfile", Empty) = Empty
                \/ p = 4 /\ Meaning(F, "sqlite3", "dbfile", Empty) = Empty
    IN  pass > p =>
          /\ engine[p] = "on" => Good(F) /\ p \notin unread /\ ~off /\ ~bare
          /\ upsets = 0 => (engine[p] = "on" <=> ~off /\ ~bare)
=============================================================================
