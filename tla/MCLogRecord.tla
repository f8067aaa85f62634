----------------------------- MODULE MCLogRecord -----------------------------
(* Messages with up to MaxRRs records that differ in the fields they have. *)
EXTENDS LogRecord

RR(name, type, class, ttl, rdata, len) ==
  [name |-> name, type |-> type, class |-> class, ttl |-> ttl,
   rdata |-> rdata, len |-> len]

\* A, AAAA and ANY records, a broken A record, and bare ones.
MCRRs ==
  {RR(1, 1, 1, 60, 11, 4), RR(2, 28, 1, 30, 12, 16), RR(2, 255, 1, 20, 14, 5),
   RR(3, 1, 1, 60, 15, 3), RR(NoName, Absent, Absent, Absent, Absent, 0),
   RR(5, Absent, 3, Absent, 16, 4)}

QHead(id, from, len, question, qtype, qclass, qname, rcode) ==
  [id |-> id, from |-> from, fromlen |-> len, question |-> question,
   qtype |-> qtype, qclass |-> qclass, qname |-> qname, rcode |-> rcode]

\* A full head, one with nothing, ones with odd codes, an address of an odd
\* length and a question without a name.
MCHeads ==
  {QHead(7, 21, 4, TRUE, 1, 1, 1, 3),
   QHead(Absent, Absent, 0, FALSE, Absent, Absent, NoName, Absent),
   QHead(0, 22, 5, TRUE, 255, Absent, 2, 16),
   QHead(8, 23, 16, TRUE, Absent, 1, NoName, 0)}
=============================================================================
