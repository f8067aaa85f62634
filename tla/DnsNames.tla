------------------------------ MODULE DnsNames ------------------------------
(***************************************************************************)
(* The names of DNS classes, types and response codes                      *)
(* (src/src/pdns-logger-dns.c).                                            *)
(*                                                                         *)
(* A table is an array of {val, name}.  The lookups use the code as an     *)
(* INDEX into it and never look at val.  A name is modelled by the val     *)
(* beside it, so that looking up code c should give c.                     *)
(***************************************************************************)
EXTENDS Integers, FiniteSets

\* The null pointer: the terminating entry's name, and "not in the table".
NoName == -1

\* The codes of src/src/pdns-logger-dns.h.
dns_class_e == {0, 1, 3, 4, 255}
dns_type_e == 0..41 \cup 250..256 \cup {65536}
dns_rcode_e == 0..10 \cup 16..18

\* A table lists the codes of an enum in ascending order, from index 0, and
\* ends with a terminator.
Table(enum) ==
  [i \in 0..Cardinality(enum) |->
     IF i = Cardinality(enum) THEN NoName
     ELSE CHOOSE c \in enum : Cardinality({d \in enum : d < c}) = i]
dns_classtab == Table(dns_class_e)
dns_typetab == Table(dns_type_e)
dns_rcodetab == Table(dns_rcode_e)

\* The first code an enum leaves out.
FirstGap(enum) ==
  CHOOSE g \in 0..Cardinality(enum) : g \notin enum /\ 0..(g - 1) \subseteq enum

\* A slip: the bound check lets no code through to the last entries and the
\* index is one too high.
next_entry(tab, i) == IF i + 1 \in DOMAIN tab THEN tab[i + 1] ELSE NoName

\* The body the three lookups share.
lookup(tab, i) == IF i \in DOMAIN tab THEN tab[i] ELSE NoName

pdns_logger_class2p(i) == lookup(dns_classtab, i)
pdns_logger_type2p(i) == lookup(dns_typetab, i)
pdns_logger_rcode2p(i) == lookup(dns_rcodetab, i)
=============================================================================
