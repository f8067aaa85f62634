----------------------------- MODULE LogRecord -----------------------------
(***************************************************************************)
(* What the back ends write for one message: logfile_log, syslog_log and   *)
(* logsqlite_log, called in this order by pdns_loggers_log.                *)
(*                                                                         *)
(* A resource record (RR) has optional fields; Absent marks one that is    *)
(* missing.  So does the head of a message: the query's id, the querier,   *)
(* the question and the response code.  A name that was not sent is a      *)
(* null pointer, NoName.  A text line is the sequence of its               *)
(* <<field, RR, value>>, with RR 0 for the head; only lines that fit       *)
(* str[1024] are modelled.  A row has a value in every column.             *)
(***************************************************************************)
EXTENDS DnsNames, Sequences

CONSTANTS
  Heads,                \* the heads a message may have
  RRs,                  \* the resource records a response may hold
  MaxRRs,               \* bound on their number in a response
  NDEBUG                \* TRUE: assert() is compiled out

Absent == -3
NotSupported == -2
Optional == Nat \cup {Absent}

ASSUME RecordAssumption ==
  /\ Heads \subseteq
       [id : Optional, from : Optional, fromlen : Nat, question : BOOLEAN,
        qtype : Optional, qclass : Optional, qname : Nat \cup {NoName},
        rcode : Optional]
  /\ RRs \subseteq
       [name : Nat \cup {NoName}, type : Optional, class : Optional,
        ttl : Optional, rdata : Optional, len : Nat]
  /\ MaxRRs \in Nat /\ NDEBUG \in BOOLEAN

VARIABLES
  disabled,             \* back ends with disabled=1
  rewrites_only,        \* back ends with only-rewrites=1
  msg,                  \* the message
  engine,               \* the back end that runs, by its index; 4: all done
  t,                    \* RRs it has handled
  str,                  \* logfile_log, syslog_log: the line so far
  row,                  \* logsqlite_log: the variables for an RR's columns
  out,                  \* what each back end has written
  alive                 \* FALSE once assert(0) aborted the process

conf == <<disabled, rewrites_only>>
recVars == <<conf, msg, engine, t, str, row, out, alive>>

Engines == <<"logfile", "syslog", "sqlite">>
EngineNames == {Engines[e] : e \in 1..3}
Messages ==
  [head : Heads, response : BOOLEAN, policy : BOOLEAN, subnet : BOOLEAN,
   rrs : UNION {[1..n -> RRs] : n \in 0..MaxRRs}]

\* char *rname = NULL, ..., int rttl = 0.
EmptyRow == [rname |-> Absent, rtype |-> Absent, rclass |-> Absent,
             rttl |-> 0, rdata |-> Absent]

RecInit ==
  /\ disabled \in SUBSET EngineNames
  /\ rewrites_only \in SUBSET EngineNames
  /\ msg \in Messages
  /\ engine = 1 /\ t = 0
  /\ str = <<>> /\ row = EmptyRow
  /\ out = [e \in 1..3 |-> <<>>]
  /\ alive = TRUE

-----------------------------------------------------------------------------

\* The early returns all three share: nothing is written.
Skips(e) ==
  \/ Engines[e] \in disabled
  \/ ~msg.response
  \/ Engines[e] \in rewrites_only /\ ~msg.policy

\* rdata as text: IPv4 for A, IPv6 for AAAA, the bytes for NS, CNAME, SOA, MX.
RData(rr) ==
  IF \/ rr.type = 1 /\ rr.len = 4
     \/ rr.type = 28 /\ rr.len = 16
     \/ rr.type \in {2, 5, 6, 15}
  THEN rr.rdata ELSE NotSupported

\* A name in a row; "" stands for a null pointer.
Name(x) == IF x = NoName THEN Absent ELSE x

\* A present field of RR number n, as text.
Field(name, n, present, value) ==
  IF present THEN <<<<name, n, value>>>> ELSE <<>>

\* The fields of RR number n, in the order of the code.
Tuple(rr, n) ==
  Field("rname", n, TRUE, rr.name)
    \o Field("rtype", n, rr.type # Absent, pdns_logger_type2p(rr.type))
    \o Field("rclass", n, rr.class # Absent, pdns_logger_class2p(rr.class))
    \o Field("rttl", n, rr.ttl # Absent, rr.ttl)
    \o Field("rdata", n, rr.rdata # Absent, RData(rr))

\* An address of 4 or 16 bytes; others are not logged.
Querier == IF msg.head.fromlen \in {4, 16} THEN msg.head.from ELSE Absent

\* The head of a line.
text_head ==
  LET h == msg.head
  IN  Field("id", 0, h.id # Absent, h.id)
        \o Field("querier", 0, Querier # Absent, Querier)
        \o Field("qtype", 0, h.question /\ h.qtype # Absent,
                 pdns_logger_type2p(h.qtype))
        \o Field("qclass", 0, h.question /\ h.qclass # Absent,
                 pdns_logger_class2p(h.qclass))
        \o Field("qname", 0, h.question, h.qname)
        \o Field("rcode", 0, h.rcode # Absent, pdns_logger_rcode2p(h.rcode))
        \o Field("rcount", 0, TRUE, Len(msg.rrs))
        \o Field("policy", 0, msg.policy, 1)

\* A slip: the line is started afresh for each RR.
text_line_afresh(rr, n) == text_head \o Tuple(rr, n)

\* The line after RR number n: the buffer is never cleared between RRs.
text_line(rr, n) == (IF n = 1 THEN text_head ELSE str) \o Tuple(rr, n)

\* A slip: the class is looked up only for a question that has a type.
head_columns_nested ==
  LET h == msg.head
  IN  [id |-> IF h.id # Absent THEN h.id ELSE 0,
       querier |-> Querier,
       qtype |-> IF h.question THEN Name(pdns_logger_type2p(h.qtype))
                 ELSE Absent,
       qclass |-> IF h.question /\ h.qtype # Absent
                  THEN Name(pdns_logger_class2p(h.qclass)) ELSE Absent,
       qname |-> IF h.question THEN Name(h.qname) ELSE Absent,
       rcode |-> Name(pdns_logger_rcode2p(h.rcode)),
       rcount |-> Len(msg.rrs),
       policy |-> IF msg.policy THEN 1 ELSE Absent]

\* The columns of a row that describe the message.  prepare_sql writes "" for
\* a null pointer, be the field absent or its code without a name.
head_columns ==
  LET h == msg.head
  IN  [id |-> IF h.id # Absent THEN h.id ELSE 0,
       querier |-> Querier,
       qtype |-> IF h.question THEN Name(pdns_logger_type2p(h.qtype))
                 ELSE Absent,
       qclass |-> IF h.question THEN Name(pdns_logger_class2p(h.qclass))
                  ELSE Absent,
       qname |-> IF h.question THEN Name(h.qname) ELSE Absent,
       rcode |-> Name(pdns_logger_rcode2p(h.rcode)),
       rcount |-> Len(msg.rrs),
       policy |-> IF msg.policy THEN 1 ELSE Absent]

\* The column variables after an RR: an absent field leaves the old value.
columns(rr) ==
  [rname  |-> rr.name,
   rtype  |-> IF rr.type # Absent THEN pdns_logger_type2p(rr.type)
              ELSE row.rtype,
   rclass |-> IF rr.class # Absent THEN pdns_logger_class2p(rr.class)
              ELSE row.rclass,
   rttl   |-> IF rr.ttl # Absent THEN rr.ttl ELSE row.rttl,
   rdata  |-> IF rr.rdata # Absent THEN RData(rr) ELSE row.rdata]

HeadColumns == {"id", "querier", "qtype", "qclass", "qname", "rcode", "rcount",
                "policy"}
RRColumns == {"rname", "rtype", "rclass", "rttl", "rdata"}

\* The row of the column variables as they are: prepare_sql.
prepare_sql(columnvars) ==
  [c \in HeadColumns \cup RRColumns |->
     IF c \in HeadColumns THEN head_columns[c]
     ELSE IF c \in {"rname", "rtype", "rclass"} THEN Name(columnvars[c])
     ELSE columnvars[c]]

\* The engine returns; pdns_loggers_log calls the next one.
NextEngine ==
  /\ engine' = engine + 1
  /\ t' = 0
  /\ str' = <<>> /\ row' = EmptyRow

\* Early return.
skip_message ==
  /\ alive /\ engine <= 3
  /\ t = 0 /\ Skips(engine)
  /\ NextEngine
  /\ UNCHANGED <<conf, msg, out, alive>>

\* logfile_log and syslog_log, has_originalrequestorsubnet: assert(0).
subnet_assert ==
  /\ alive /\ engine <= 2
  /\ t = 0 /\ ~Skips(engine)
  /\ msg.subnet /\ ~NDEBUG
  /\ alive' = FALSE
  /\ UNCHANGED <<conf, msg, engine, t, str, row, out>>

\* What keeps an engine going past the assertion.
Proceeds == alive /\ engine <= 3 /\ ~Skips(engine)
            /\ (msg.subnet => NDEBUG \/ engine = 3)

\* A slip: a response without RRs is not recorded.
log_no_rrs_silent ==
  /\ Proceeds
  /\ msg.rrs = <<>>
  /\ NextEngine
  /\ UNCHANGED <<conf, msg, out, alive>>

\* A response without RRs: one record.
log_no_rrs ==
  /\ Proceeds
  /\ msg.rrs = <<>>
  /\ out' = [out EXCEPT ![engine] =
               Append(@, IF engine = 3 THEN prepare_sql(row) ELSE text_head)]
  /\ NextEngine
  /\ UNCHANGED <<conf, msg, alive>>

\* One line for the next RR, the loop body logfile_log and syslog_log share.
text_log ==
  /\ Proceeds
  /\ t < Len(msg.rrs)
  /\ t' = t + 1
  /\ str' = text_line(msg.rrs[t + 1], t + 1)
  /\ out' = [out EXCEPT ![engine] = Append(@, str')]
  /\ UNCHANGED <<conf, msg, engine, row, alive>>

logfile_log == engine = 1 /\ text_log
syslog_log == engine = 2 /\ text_log

\* logsqlite_log: one INSERT for the next RR.
logsqlite_log ==
  /\ Proceeds /\ engine = 3
  /\ t < Len(msg.rrs)
  /\ t' = t + 1
  /\ row' = columns(msg.rrs[t + 1])
  /\ out' = [out EXCEPT ![3] = Append(@, prepare_sql(row'))]
  /\ UNCHANGED <<conf, msg, engine, str, alive>>

\* The loop over the RRs is over.
log_returns ==
  /\ Proceeds
  /\ t > 0 /\ t = Len(msg.rrs)
  /\ NextEngine
  /\ UNCHANGED <<conf, msg, out, alive>>

RecNext ==
  \/ skip_message \/ subnet_assert \/ log_no_rrs
  \/ logfile_log \/ syslog_log \/ logsqlite_log \/ log_returns

RecSpec == RecInit /\ [][RecNext]_recVars

-----------------------------------------------------------------------------
(* Properties.                                                             *)

\* Every back end that does not skip a message writes one record per RR and at
\* least one, and the two text back ends write the same lines (README.md:146;
\* file.c:204-270, syslog.c:225-291, sqlite.c:345-388).
EnginesAgree ==
  engine = 4 =>
    /\ \A e \in 1..3 :
         Len(out[e]) = IF Skips(e) THEN 0
                       ELSE IF msg.rrs = <<>> THEN 1 ELSE Len(msg.rrs)
    /\ ~Skips(1) /\ ~Skips(2) => out[1] = out[2]

\* Line n of a message holds the tuples of its RRs 1 to n, in order, so that
\* the last one holds them all (file.c:204-264, README.md:162).
LastLineHoldsAll ==
  \A e \in 1..2 : \A n \in 1..Len(out[e]) :
    msg.rrs # <<>> =>
      \A m \in 1..n :
        /\ \E i \in 1..Len(out[e][n]) :
             out[e][n][i] = <<"rname", m, msg.rrs[m].name>>
        /\ \A i, j \in 1..Len(out[e][n]) :
             i < j => out[e][n][i][2] <= out[e][n][j][2]

\* What a line says of a field: its value, or the default if it is missing or
\* printed as "(null)".
Said(line, name, n, default) ==
  LET S == {i \in 1..Len(line) : line[i][1] = name /\ line[i][2] = n}
  IN  IF S = {} THEN default
      ELSE Name(line[CHOOSE i \in S : TRUE][3])

DefaultOf(column) == IF column \in {"id", "rttl"} THEN 0 ELSE Absent

Complete(rr) == Absent \notin {rr.type, rr.class, rr.ttl, rr.rdata}

\* Row n and line n of a message say the same: of the head always, and of RR n
\* if it has all its fields, whatever came before it (README.md:190; file.c:
\* 137-202, 211-261, sqlite.c:248-264, 304-343, 351-379).
RowsMatchLines ==
  \A e \in 1..2 : \A n \in 1..Len(out[3]) : n <= Len(out[e]) =>
    LET Agree(column, m) ==
          out[3][n][column] = Said(out[e][n], column, m, DefaultOf(column))
    IN  /\ \A column \in HeadColumns : Agree(column, 0)
        /\ msg.rrs # <<>> /\ Complete(msg.rrs[n]) =>
             \A column \in RRColumns : Agree(column, n)

\* README.md:190: "The meaning of the columns are identical to the
\* corresponding text version": a row holds no field its RR does not have.
ColumnsAreTheRRs ==
  \A e \in 1..2 : \A n \in 1..Len(out[3]) :
    n <= Len(out[e]) /\ msg.rrs # <<>> =>
      \A column \in RRColumns :
        out[3][n][column] = Said(out[e][n], column, n, DefaultOf(column))

\* A name in a row is the name of the code it stands for, for every code below
\* the first gap of the numbering, where index and val of a table agree; a
\* code beyond a table has none (dns.c:107-126, dns.h:25-104).
NamesAreRight ==
  \A n \in 1..Len(out[3]) :
    LET h == msg.head
        Right(enum, code, name) ==
          /\ code \in 0..(FirstGap(enum) - 1) => name = code
          /\ code >= Cardinality(enum) => name = Absent
    IN  /\ Right(dns_rcode_e, h.rcode, out[3][n].rcode)
        /\ h.question => /\ Right(dns_type_e, h.qtype, out[3][n].qtype)
                         /\ Right(dns_class_e, h.qclass, out[3][n].qclass)
        /\ msg.rrs # <<>> =>
             /\ Right(dns_type_e, msg.rrs[n].type, out[3][n].rtype)
             /\ Right(dns_class_e, msg.rrs[n].class, out[3][n].rclass)
=============================================================================
