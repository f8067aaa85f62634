---------------------------- MODULE RecordProofs ----------------------------
(***************************************************************************)
(* Proofs about the writing of one message, for all messages, any number   *)
(* of resource records, and both builds of the text file back end.         *)
(*                                                                         *)
(* A line is cut into its entries, so that what a line holds is a matter   *)
(* of membership: the invariant says which entries the line built so far   *)
(* has, and that the lines and the rows written come one by one from the   *)
(* records of the message.  The names rest on the tables of DnsNames: a    *)
(* table built by position gives the right name up to its first gap.       *)
(***************************************************************************)
EXTENDS LogRecord, FiniteSetTheorems, TLAPS

-----------------------------------------------------------------------------
(* The tables of names.                                                    *)

\* The codes below c, where the numbering has no gap up to c.
LEMMA CodesBelow ==
  ASSUME NEW enum, enum \subseteq Nat, NEW c \in Nat, 0..(c - 1) \subseteq enum
  PROVE  Cardinality({d \in enum : d < c}) = c
<1>1. {d \in enum : d < c} = 0..(c - 1)
  <2>1. \A d \in enum : d < c => d \in 0..(c - 1)
    OBVIOUS
  <2>2. \A d \in 0..(c - 1) : d \in enum /\ d < c
    OBVIOUS
  <2> QED
    BY <2>1, <2>2, Zenon
<1>2. Cardinality(0..(c - 1)) = c
  BY FS_Interval
<1> QED
  BY <1>1, <1>2

\* The first gap of a finite enum is where it should be.
LEMMA GapIs ==
  ASSUME NEW enum, enum \subseteq Nat, IsFiniteSet(enum),
         NEW g \in Nat, g \notin enum, 0..(g - 1) \subseteq enum
  PROVE  FirstGap(enum) = g /\ g <= Cardinality(enum) /\ Cardinality(enum) \in Nat
<1>1. Cardinality(enum) \in Nat
  BY FS_CardinalityType
<1>2. Cardinality(0..(g - 1)) = g
  BY FS_Interval
<1>3. g <= Cardinality(enum)
  BY <1>2, FS_Subset
<1>4. g \in 0..Cardinality(enum)
  BY <1>1, <1>3
<1>5. ASSUME NEW f \in 0..Cardinality(enum), f \notin enum, 0..(f - 1) \subseteq enum
      PROVE  f = g
  BY <1>1, <1>5
<1>6. FirstGap(enum) = g
  BY <1>4, <1>5, Zenon DEF FirstGap
<1> QED
  BY <1>1, <1>3, <1>6

\* Below the first gap a table holds at index c the name of c.
LEMMA TableIs ==
  ASSUME NEW enum, enum \subseteq Nat, IsFiniteSet(enum),
         NEW g \in Nat, g \notin enum, 0..(g - 1) \subseteq enum,
         NEW c \in 0..(g - 1)
  PROVE  c \in DOMAIN Table(enum) /\ Table(enum)[c] = c
<1>1. g <= Cardinality(enum) /\ Cardinality(enum) \in Nat
  BY GapIs
<1>2. c \in 0..Cardinality(enum) /\ c # Cardinality(enum)
  BY <1>1
<1>3. c \in enum /\ Cardinality({d \in enum : d < c}) = c
  <2>1. c \in enum /\ c \in Nat /\ 0..(c - 1) \subseteq enum
    OBVIOUS
  <2> QED
    BY <2>1, CodesBelow
<1>4. ASSUME NEW b \in enum, Cardinality({d \in enum : d < b}) = c PROVE b = c
  <2>1. b \in Nat /\ c \in Nat
    OBVIOUS
  <2>2. CASE b < g
    <3>1. 0..(b - 1) \subseteq enum
      BY <2>1, <2>2
    <3> QED
      BY <1>4, <2>1, <3>1, CodesBelow
  <2>3. CASE b > g
    <3>1. {d \in enum : d < g} \subseteq {d \in enum : d < b}
      <4>1. \A d \in enum : d < g => d < b
        BY <2>1, <2>3
      <4> QED
        BY <4>1, Zenon
    <3>2. IsFiniteSet({d \in enum : d < b})
      BY FS_Subset
    <3>3. Cardinality({d \in enum : d < g}) = g
      BY CodesBelow
    <3>4. g <= c
      BY <1>4, <3>1, <3>2, <3>3, FS_Subset
    <3> QED
      BY <3>4
  <2> QED
    BY <2>1, <2>2, <2>3
<1>5. (CHOOSE b \in enum : Cardinality({d \in enum : d < b}) = c) = c
  BY <1>3, <1>4, Zenon
<1> QED
  BY <1>2, <1>5, Zenon DEF Table

\* A finite set of codes that leaves a number out.
Numbered(enum) ==
  /\ enum \subseteq Nat /\ IsFiniteSet(enum)
  /\ \E g \in Nat : g \notin enum /\ 0..(g - 1) \subseteq enum

\* What a name column should hold for a code.
RightName(enum, code, name) ==
  /\ code \in 0..(FirstGap(enum) - 1) => name = code
  /\ code >= Cardinality(enum) => name = Absent

\* A lookup gives the right name.
LEMMA LookupRight ==
  ASSUME NEW enum, Numbered(enum), NEW code \in Optional
  PROVE  RightName(enum, code, Name(lookup(Table(enum), code)))
<1>g. PICK g \in Nat : g \notin enum /\ 0..(g - 1) \subseteq enum
  BY DEF Numbered
<1>0. enum \subseteq Nat /\ IsFiniteSet(enum)
  BY DEF Numbered
<1>1. /\ FirstGap(enum) = g /\ g <= Cardinality(enum)
      /\ Cardinality(enum) \in Nat
  BY <1>g, <1>0, GapIs
<1>2. ASSUME code \in 0..(g - 1) PROVE Name(lookup(Table(enum), code)) = code
  <2>1. code \in DOMAIN Table(enum) /\ Table(enum)[code] = code
    BY <1>g, <1>0, <1>2, TableIs
  <2>2. lookup(Table(enum), code) = code
    BY <2>1, Zenon DEF lookup
  <2> QED
    BY <1>2, <2>2 DEF Name, NoName
<1>3. ASSUME code >= Cardinality(enum)
      PROVE  Name(lookup(Table(enum), code)) = Absent
  <2>1. code \notin 0..Cardinality(enum) \/ code = Cardinality(enum)
    BY <1>1, <1>3 DEF Optional, Absent
  <2>2. lookup(Table(enum), code) = NoName
    BY <1>1, <2>1 DEF lookup, Table
  <2> QED
    BY <2>2 DEF Name
<1> QED
  BY <1>1, <1>2, <1>3 DEF RightName

\* Numbers up to a bound are finitely many.
LEMMA BoundedNumbered ==
  ASSUME NEW S, S \subseteq Nat, NEW n \in Nat, \A c \in S : c <= n,
         NEW g \in Nat, g \notin S, 0..(g - 1) \subseteq S
  PROVE  Numbered(S)
<1>1. S \subseteq 0..n
  OBVIOUS
<1>2. IsFiniteSet(0..n)
  BY FS_Interval
<1>3. IsFiniteSet(S)
  BY <1>1, <1>2, FS_Subset
<1> QED
  BY <1>3, Zenon DEF Numbered

\* The three enums are numbered so, up to 2, 42 and 11.
LEMMA EnumsNumbered ==
  Numbered(dns_class_e) /\ Numbered(dns_type_e) /\ Numbered(dns_rcode_e)
<1> DEFINE Bounded(S, g) == /\ S \subseteq Nat /\ \E n \in Nat : \A c \in S : c <= n
                            /\ g \in Nat /\ g \notin S /\ 0..(g - 1) \subseteq S
<1>1. \A S, g : Bounded(S, g) => Numbered(S)
  BY BoundedNumbered, Zenon
<1>2. Bounded(dns_class_e, 2)
  BY SMT DEF dns_class_e
<1>3. Bounded(dns_type_e, 42)
  <2>1. \A c \in dns_type_e : c \in Nat /\ c <= 65536
    BY SMT DEF dns_type_e
  <2>2. 42 \notin dns_type_e /\ \A c \in 0..41 : c \in dns_type_e
    BY SMT DEF dns_type_e
  <2> QED
    BY <2>1, <2>2, SMT
<1>4. Bounded(dns_rcode_e, 11)
  BY SMT DEF dns_rcode_e
<1> HIDE DEF Bounded
<1> QED
  BY <1>1, <1>2, <1>3, <1>4, SMT

\* The lookups give the right names.
LEMMA NamesRight ==
  ASSUME NEW code \in Optional
  PROVE  /\ RightName(dns_class_e, code, Name(pdns_logger_class2p(code)))
         /\ RightName(dns_type_e, code, Name(pdns_logger_type2p(code)))
         /\ RightName(dns_rcode_e, code, Name(pdns_logger_rcode2p(code)))
BY EnumsNumbered, LookupRight, Zenon DEF pdns_logger_class2p, dns_classtab,
   pdns_logger_type2p, dns_typetab, pdns_logger_rcode2p, dns_rcodetab

-----------------------------------------------------------------------------
(* Lines.                                                                  *)

\* The entries of a line.
Entries(line) == {line[i] : i \in 1..Len(line)}
IsLine(line) == line \in Seq(Entries(line))

\* The entry of a field, if it is there.
Entry(name, n, present, value) == IF present THEN {<<name, n, value>>} ELSE {}

\* A field is a line with its entry.
LEMMA FieldEntries ==
  ASSUME NEW name, NEW n, NEW present \in BOOLEAN, NEW value
  PROVE  /\ IsLine(Field(name, n, present, value))
         /\ Entries(Field(name, n, present, value)) = Entry(name, n, present, value)
<1>1. CASE present
  <2>1. Field(name, n, present, value) = <<<<name, n, value>>>>
    BY <1>1 DEF Field
  <2>2. Len(<<<<name, n, value>>>>) = 1 /\ <<<<name, n, value>>>>[1] = <<name, n, value>>
    OBVIOUS
  <2>3. Entries(<<<<name, n, value>>>>) = {<<name, n, value>>}
    BY <2>2, 1..1 = {1} DEF Entries
  <2>4. <<<<name, n, value>>>> \in Seq({<<name, n, value>>})
    OBVIOUS
  <2> QED
    BY <1>1, <2>1, <2>3, <2>4 DEF IsLine, Entry
<1>2. CASE ~present
  <2>1. Field(name, n, present, value) = <<>>
    BY <1>2 DEF Field
  <2>2. Entries(<<>>) = {} /\ <<>> \in Seq({})
    BY DEF Entries
  <2> QED
    BY <1>2, <2>1, <2>2 DEF IsLine, Entry
<1> QED
  BY <1>1, <1>2

\* Two lines joined.
LEMMA JoinEntries ==
  ASSUME NEW a, NEW b, IsLine(a), IsLine(b)
  PROVE  /\ IsLine(a \o b) /\ Entries(a \o b) = Entries(a) \cup Entries(b)
         /\ Len(a) \in Nat /\ Len(b) \in Nat /\ Len(a \o b) = Len(a) + Len(b)
         /\ \A i \in 1..Len(a) : (a \o b)[i] = a[i]
         /\ \A i \in 1..Len(b) : (a \o b)[Len(a) + i] = b[i]
<1> DEFINE S == Entries(a) \cup Entries(b)
<1>1. /\ a \in Seq(S) /\ b \in Seq(S)
  <2>1. a \in Seq(Entries(a)) /\ b \in Seq(Entries(b))
    BY DEF IsLine
  <2>2. /\ Len(a) \in Nat /\ a = [i \in 1..Len(a) |-> a[i]] /\ \A i \in 1..Len(a) : a[i] \in S
        /\ Len(b) \in Nat /\ b = [i \in 1..Len(b) |-> b[i]] /\ \A i \in 1..Len(b) : b[i] \in S
    BY <2>1 DEF Entries
  <2> QED
    BY <2>2
<1> HIDE DEF S
<1>2. /\ a \o b \in Seq(S) /\ Len(a) \in Nat /\ Len(b) \in Nat
      /\ Len(a \o b) = Len(a) + Len(b)
      /\ \A i \in 1..Len(a) : (a \o b)[i] = a[i]
      /\ \A i \in 1..Len(b) : (a \o b)[Len(a) + i] = b[i]
  BY <1>1
<1>3. \A i \in 1..(Len(a) + Len(b)) :
        i \in 1..Len(a) \/ \E j \in 1..Len(b) : i = Len(a) + j
  <2> SUFFICES ASSUME NEW i \in 1..(Len(a) + Len(b)), i \notin 1..Len(a)
               PROVE  i - Len(a) \in 1..Len(b) /\ i = Len(a) + (i - Len(a))
    BY Zenon
  <2> QED
    BY <1>2
<1>4. /\ \A i \in 1..Len(a) : i \in 1..(Len(a) + Len(b))
      /\ \A i \in 1..Len(b) : Len(a) + i \in 1..(Len(a) + Len(b))
  BY <1>2
<1>5. Entries(a \o b) = S
  <2>1. \A i \in 1..Len(a \o b) : (a \o b)[i] \in S
    BY <1>2
  <2>2. \A i \in 1..Len(a) : a[i] \in Entries(a \o b)
    BY <1>2, <1>4, Zenon DEF Entries
  <2>3. \A i \in 1..Len(b) : b[i] \in Entries(a \o b)
    BY <1>2, <1>4, Zenon DEF Entries
  <2> QED
    BY <2>1, <2>2, <2>3, Zenon DEF Entries, S
<1> QED
  BY <1>2, <1>5, Zenon DEF IsLine, S

\* Four lines joined.
LEMMA JoinFour ==
  ASSUME NEW a, NEW b, NEW c, NEW d, IsLine(a), IsLine(b), IsLine(c), IsLine(d)
  PROVE  /\ IsLine(a \o b \o c \o d)
         /\ Entries(a \o b \o c \o d) =
              Entries(a) \cup Entries(b) \cup Entries(c) \cup Entries(d)
<1>1. IsLine(a \o b) /\ Entries(a \o b) = Entries(a) \cup Entries(b)
  BY JoinEntries
<1>2. /\ IsLine((a \o b) \o c)
      /\ Entries((a \o b) \o c) = Entries(a \o b) \cup Entries(c)
  BY <1>1, JoinEntries
<1>3. /\ IsLine(((a \o b) \o c) \o d)
      /\ Entries(((a \o b) \o c) \o d) = Entries((a \o b) \o c) \cup Entries(d)
  BY <1>2, JoinEntries
<1> QED
  BY <1>1, <1>2, <1>3

\* The entries of an RR's tuple.
LEMMA TupleEntries ==
  ASSUME NEW rr, NEW n
  PROVE  /\ IsLine(Tuple(rr, n))
         /\ \A x : x \in Entries(Tuple(rr, n)) <=>
              \/ x \in Entry("rname", n, TRUE, rr.name)
              \/ x \in Entry("rtype", n, rr.type # Absent, pdns_logger_type2p(rr.type))
              \/ x \in Entry("rclass", n, rr.class # Absent, pdns_logger_class2p(rr.class))
              \/ x \in Entry("rttl", n, rr.ttl # Absent, rr.ttl)
              \/ x \in Entry("rdata", n, rr.rdata # Absent, RData(rr))
<1> DEFINE a == Field("rname", n, TRUE, rr.name)
           b == Field("rtype", n, rr.type # Absent, pdns_logger_type2p(rr.type))
           c == Field("rclass", n, rr.class # Absent, pdns_logger_class2p(rr.class))
           d == Field("rttl", n, rr.ttl # Absent, rr.ttl)
           e == Field("rdata", n, rr.rdata # Absent, RData(rr))
<1>1. /\ IsLine(a) /\ Entries(a) = Entry("rname", n, TRUE, rr.name)
      /\ IsLine(b)
      /\ Entries(b) = Entry("rtype", n, rr.type # Absent, pdns_logger_type2p(rr.type))
      /\ IsLine(c)
      /\ Entries(c) = Entry("rclass", n, rr.class # Absent, pdns_logger_class2p(rr.class))
      /\ IsLine(d) /\ Entries(d) = Entry("rttl", n, rr.ttl # Absent, rr.ttl)
      /\ IsLine(e) /\ Entries(e) = Entry("rdata", n, rr.rdata # Absent, RData(rr))
  BY FieldEntries, Zenon
<1>2. Tuple(rr, n) = (a \o b \o c \o d) \o e
  BY DEF Tuple
<1> HIDE DEF a, b, c, d, e
<1>3. /\ IsLine(a \o b \o c \o d)
      /\ Entries(a \o b \o c \o d) =
           Entries(a) \cup Entries(b) \cup Entries(c) \cup Entries(d)
  <2>1. IsLine(a) /\ IsLine(b) /\ IsLine(c) /\ IsLine(d)
    BY <1>1, Zenon
  <2> QED
    BY <2>1, JoinFour
<1>4. /\ IsLine((a \o b \o c \o d) \o e)
      /\ Entries((a \o b \o c \o d) \o e) = Entries(a \o b \o c \o d) \cup Entries(e)
  BY <1>1, <1>3, JoinEntries
<1>5. \A z : z \in Entries(Tuple(rr, n)) <=>
        \/ z \in Entries(a) \/ z \in Entries(b) \/ z \in Entries(c)
        \/ z \in Entries(d) \/ z \in Entries(e)
  BY <1>2, <1>3, <1>4
<1> QED
  BY <1>1, <1>2, <1>4, <1>5, Zenon

\* The head of a line.
LEMMA HeadEntries ==
  ASSUME msg \in Messages
  PROVE  /\ IsLine(text_head)
         /\ \A x : x \in Entries(text_head) <=>
              \/ x \in Entry("id", 0, msg.head.id # Absent, msg.head.id)
              \/ x \in Entry("querier", 0, Querier # Absent, Querier)
              \/ x \in Entry("qtype", 0, msg.head.question /\ msg.head.qtype # Absent,
                            pdns_logger_type2p(msg.head.qtype))
              \/ x \in Entry("qclass", 0, msg.head.question /\ msg.head.qclass # Absent,
                            pdns_logger_class2p(msg.head.qclass))
              \/ x \in Entry("qname", 0, msg.head.question, msg.head.qname)
              \/ x \in Entry("rcode", 0, msg.head.rcode # Absent,
                            pdns_logger_rcode2p(msg.head.rcode))
              \/ x \in Entry("rcount", 0, TRUE, Len(msg.rrs))
              \/ x \in Entry("policy", 0, msg.policy, 1)
<1> DEFINE h == msg.head
           a == Field("id", 0, h.id # Absent, h.id)
           b == Field("querier", 0, Querier # Absent, Querier)
           c == Field("qtype", 0, h.question /\ h.qtype # Absent,
                      pdns_logger_type2p(h.qtype))
           d == Field("qclass", 0, h.question /\ h.qclass # Absent,
                      pdns_logger_class2p(h.qclass))
           e == Field("qname", 0, h.question, h.qname)
           f == Field("rcode", 0, h.rcode # Absent, pdns_logger_rcode2p(h.rcode))
           g == Field("rcount", 0, TRUE, Len(msg.rrs))
           k == Field("policy", 0, msg.policy, 1)
           x == a \o b \o c \o d
           y == x \o e \o f \o g
<1>1. h.question \in BOOLEAN /\ msg.policy \in BOOLEAN
  BY RecordAssumption DEF Messages
<1>2. text_head = y \o k
  BY DEF text_head
<1> HIDE DEF h
<1>3. /\ IsLine(a) /\ Entries(a) = Entry("id", 0, h.id # Absent, h.id)
      /\ IsLine(b) /\ Entries(b) = Entry("querier", 0, Querier # Absent, Querier)
      /\ IsLine(c) /\ Entries(c) = Entry("qtype", 0, h.question /\ h.qtype # Absent,
                                         pdns_logger_type2p(h.qtype))
      /\ IsLine(d) /\ Entries(d) = Entry("qclass", 0, h.question /\ h.qclass # Absent,
                                         pdns_logger_class2p(h.qclass))
  BY FieldEntries, Zenon
<1>4. /\ IsLine(e) /\ Entries(e) = Entry("qname", 0, h.question, h.qname)
      /\ IsLine(f) /\ Entries(f) = Entry("rcode", 0, h.rcode # Absent,
                                         pdns_logger_rcode2p(h.rcode))
      /\ IsLine(g) /\ Entries(g) = Entry("rcount", 0, TRUE, Len(msg.rrs))
      /\ IsLine(k) /\ Entries(k) = Entry("policy", 0, msg.policy, 1)
  <2>1. /\ IsLine(e) /\ Entries(e) = Entry("qname", 0, h.question, h.qname)
        /\ IsLine(k) /\ Entries(k) = Entry("policy", 0, msg.policy, 1)
    BY <1>1, FieldEntries, Zenon
  <2>2. /\ IsLine(f) /\ Entries(f) = Entry("rcode", 0, h.rcode # Absent,
                                           pdns_logger_rcode2p(h.rcode))
        /\ IsLine(g) /\ Entries(g) = Entry("rcount", 0, TRUE, Len(msg.rrs))
    BY FieldEntries, Zenon
  <2> QED
    BY <2>1, <2>2, Zenon
<1> HIDE DEF a, b, c, d, e, f, g, k
<1>5. /\ IsLine(x)
      /\ Entries(x) = Entries(a) \cup Entries(b) \cup Entries(c) \cup Entries(d)
  BY <1>3, JoinFour
<1> HIDE DEF x
<1>6. /\ IsLine(y)
      /\ Entries(y) = Entries(x) \cup Entries(e) \cup Entries(f) \cup Entries(g)
  <2>1. IsLine(e) /\ IsLine(f) /\ IsLine(g)
    BY <1>4, Zenon
  <2> QED
    BY <1>5, <2>1, JoinFour
<1> HIDE DEF y
<1>7. IsLine(y \o k) /\ Entries(y \o k) = Entries(y) \cup Entries(k)
  BY <1>4, <1>6, JoinEntries
<1>8. \A z : z \in Entries(text_head) <=>
        \/ z \in Entries(a) \/ z \in Entries(b) \/ z \in Entries(c)
        \/ z \in Entries(d) \/ z \in Entries(e) \/ z \in Entries(f)
        \/ z \in Entries(g) \/ z \in Entries(k)
  BY <1>2, <1>5, <1>6, <1>7
<1> QED
  BY <1>2, <1>3, <1>4, <1>7, <1>8, Zenon DEF h

\* The entries of a line about RR m, or about the head.
Of(line, m) == {x \in Entries(line) : x[2] = m}

\* A line that holds the head and the RRs 1 to n, in order.
HoldsRRs(line, n, head, rrs) ==
  /\ IsLine(line)
  /\ \A x \in Entries(line) : x[2] \in 0..n
  /\ Of(line, 0) = Entries(head)
  /\ \A m \in 1..n : Of(line, m) = Entries(Tuple(rrs[m], m))
  /\ \A i, j \in 1..Len(line) : i < j => line[i][2] <= line[j][2]

\* The entries of the head are about no RR, those of a tuple about its RR.
LEMMA EntriesAbout ==
  /\ msg \in Messages => \A x \in Entries(text_head) : x[2] = 0
  /\ \A rr, n : \A x \in Entries(Tuple(rr, n)) : x[2] = n
<1>1. ASSUME NEW rr, NEW n, NEW x \in Entries(Tuple(rr, n)) PROVE x[2] = n
  BY TupleEntries DEF Entry
<1>2. ASSUME msg \in Messages, NEW x \in Entries(text_head) PROVE x[2] = 0
  BY <1>2, HeadEntries DEF Entry
<1> QED
  BY <1>1, <1>2

\* The head is a line without RRs.
LEMMA HeadHolds ==
  ASSUME msg \in Messages, NEW rrs
  PROVE  HoldsRRs(text_head, 0, text_head, rrs)
<1>1. IsLine(text_head) /\ \A x \in Entries(text_head) : x[2] = 0
  BY HeadEntries, EntriesAbout, Zenon
<1>2. \A i \in 1..Len(text_head) : text_head[i][2] = 0
  BY <1>1 DEF Entries
<1> QED
  BY <1>1, <1>2 DEF HoldsRRs, Of

\* The next RR's tuple is appended.
LEMMA LineGrows ==
  ASSUME NEW n \in Nat, NEW head, NEW rrs, NEW line,
         HoldsRRs(line, n, head, rrs)
  PROVE  HoldsRRs(line \o Tuple(rrs[n + 1], n + 1), n + 1, head, rrs)
<1> DEFINE b == Tuple(rrs[n + 1], n + 1)
<1>1. IsLine(b) /\ \A x \in Entries(b) : x[2] = n + 1
  BY TupleEntries, EntriesAbout, Zenon
<1> HIDE DEF b
<1>2. IsLine(line) /\ \A x \in Entries(line) : x[2] \in 0..n
  BY DEF HoldsRRs
<1>3. /\ IsLine(line \o b) /\ Entries(line \o b) = Entries(line) \cup Entries(b)
      /\ Len(line) \in Nat /\ Len(b) \in Nat /\ Len(line \o b) = Len(line) + Len(b)
      /\ \A i \in 1..Len(line) : (line \o b)[i] = line[i]
      /\ \A i \in 1..Len(b) : (line \o b)[Len(line) + i] = b[i]
  BY <1>1, <1>2, JoinEntries
<1>4. \A x \in Entries(line \o b) : x[2] \in 0..(n + 1)
  BY <1>1, <1>2, <1>3
<1>5. Of(line \o b, n + 1) = Entries(b)
  BY <1>1, <1>2, <1>3 DEF Of
<1>6. \A m \in 0..n : Of(line \o b, m) = Of(line, m)
  BY <1>1, <1>2, <1>3 DEF Of
<1>7. ASSUME NEW i \in 1..Len(line \o b), NEW j \in 1..Len(line \o b), i < j
      PROVE  (line \o b)[i][2] <= (line \o b)[j][2]
  <2>1. ASSUME NEW k \in 1..Len(line \o b), k \notin 1..Len(line)
        PROVE  (line \o b)[k][2] = n + 1
    <3>1. k - Len(line) \in 1..Len(b) /\ Len(line) + (k - Len(line)) = k
      BY <1>3, <2>1
    <3>2. (line \o b)[k] = b[k - Len(line)]
      BY <1>3, <3>1
    <3> QED
      BY <1>1, <3>1, <3>2 DEF Entries
  <2>2. \A k \in 1..Len(line) : (line \o b)[k] = line[k] /\ line[k][2] \in 0..n
    BY <1>2, <1>3 DEF Entries
  <2>3. CASE j \in 1..Len(line)
    <3>1. i \in 1..Len(line)
      BY <1>3, <1>7, <2>3
    <3> QED
      BY <1>7, <2>2, <2>3, <3>1 DEF HoldsRRs
  <2>4. CASE j \notin 1..Len(line)
    BY <2>1, <2>2, <2>4
  <2> QED
    BY <2>3, <2>4
<1>8. \A m \in 1..(n + 1) : Of(line \o b, m) = Entries(Tuple(rrs[m], m))
  <2>1. \A m \in 1..(n + 1) : m \in 1..n \/ m = n + 1
    OBVIOUS
  <2>2. \A m \in 1..n : m \in 0..n
    OBVIOUS
  <2> QED
    BY <1>5, <1>6, <2>1, <2>2, Zenon DEF b, HoldsRRs
<1>9. Of(line \o b, 0) = Entries(head)
  BY <1>6 DEF HoldsRRs
<1> QED
  BY <1>3, <1>4, <1>7, <1>8, <1>9 DEF HoldsRRs, b

\* What a line says of a field it has once, or not at all.
LEMMA LineSays ==
  ASSUME NEW line, NEW name, NEW n, NEW value, NEW default
  PROVE  /\ /\ <<name, n, value>> \in Entries(line)
            /\ \A x \in Entries(line) :
                 x[1] = name /\ x[2] = n => x = <<name, n, value>>
            => Said(line, name, n, default) = Name(value)
         /\ (\A x \in Entries(line) : ~(x[1] = name /\ x[2] = n))
            => Said(line, name, n, default) = default
<1> DEFINE S == {i \in 1..Len(line) : line[i][1] = name /\ line[i][2] = n}
<1>1. Said(line, name, n, default) =
        IF S = {} THEN default ELSE Name(line[CHOOSE i \in S : TRUE][3])
  BY DEF Said
<1>2. ASSUME <<name, n, value>> \in Entries(line),
             \A x \in Entries(line) :
               x[1] = name /\ x[2] = n => x = <<name, n, value>>
      PROVE  Said(line, name, n, default) = Name(value)
  <2>1. S # {} /\ \A i \in S : line[i][3] = value
    BY <1>2 DEF Entries
  <2> HIDE DEF S
  <2>2. (CHOOSE i \in S : TRUE) \in S
    BY <2>1, Zenon
  <2> QED
    BY <1>1, <2>1, <2>2, Zenon
<1>3. ASSUME \A x \in Entries(line) : ~(x[1] = name /\ x[2] = n)
      PROVE  Said(line, name, n, default) = default
  <2>1. S = {}
    BY <1>3 DEF Entries
  <2> QED
    BY <1>1, <2>1, Zenon
<1> QED
  BY <1>2, <1>3, Zenon

\* A complete RR in a line.
LEMMA TupleSays ==
  ASSUME NEW line, NEW n, NEW rr, Complete(rr),
         Of(line, n) = Entries(Tuple(rr, n))
  PROVE  /\ Said(line, "rname", n, Absent) = Name(rr.name)
         /\ Said(line, "rtype", n, Absent) = Name(pdns_logger_type2p(rr.type))
         /\ Said(line, "rclass", n, Absent) = Name(pdns_logger_class2p(rr.class))
         /\ Said(line, "rttl", n, 0) = Name(rr.ttl)
         /\ Said(line, "rdata", n, Absent) = Name(RData(rr))
<1> DEFINE Once(name, value) ==
             /\ <<name, n, value>> \in Entries(line)
             /\ \A x \in Entries(line) :
                  x[1] = name /\ x[2] = n => x = <<name, n, value>>
<1>1. \A x : (x \in Entries(line) /\ x[2] = n) <=>
        \/ x = <<"rname", n, rr.name>>
        \/ x = <<"rtype", n, pdns_logger_type2p(rr.type)>>
        \/ x = <<"rclass", n, pdns_logger_class2p(rr.class)>>
        \/ x = <<"rttl", n, rr.ttl>>
        \/ x = <<"rdata", n, RData(rr)>>
  <2>1. \A x : x \in Of(line, n) <=> x \in Entries(line) /\ x[2] = n
    BY Zenon DEF Of
  <2> QED
    BY <2>1, TupleEntries DEF Entry, Complete
<1>2. /\ Once("rname", rr.name)
      /\ Once("rtype", pdns_logger_type2p(rr.type))
      /\ Once("rclass", pdns_logger_class2p(rr.class))
      /\ Once("rttl", rr.ttl)
      /\ Once("rdata", RData(rr))
  BY <1>1
<1>3. ASSUME NEW name, NEW value, NEW default, Once(name, value)
      PROVE  Said(line, name, n, default) = Name(value)
  BY <1>3, LineSays
<1> HIDE DEF Once
<1> QED
  BY <1>2, <1>3, Zenon

\* A code that was not sent has no name.
LEMMA AbsentHasNoName ==
  /\ pdns_logger_class2p(Absent) = NoName
  /\ pdns_logger_type2p(Absent) = NoName
  /\ pdns_logger_rcode2p(Absent) = NoName
<1>1. \A enum : lookup(Table(enum), Absent) = NoName
  BY DEF lookup, Table, Absent
<1> QED
  BY <1>1, Zenon DEF pdns_logger_class2p, dns_classtab,
     pdns_logger_type2p, dns_typetab, pdns_logger_rcode2p, dns_rcodetab

\* The types of the head's fields.
LEMMA HeadTypes ==
  ASSUME msg \in Messages
  PROVE  /\ msg.head.id \in Optional /\ Querier \in Optional
         /\ msg.head.qtype \in Optional /\ msg.head.qclass \in Optional
         /\ msg.head.rcode \in Optional
         /\ msg.head.question \in BOOLEAN /\ msg.policy \in BOOLEAN
         /\ msg.rrs \in Seq(RRs) /\ Len(msg.rrs) \in Nat
<1>1. msg.head \in Heads /\ msg.policy \in BOOLEAN
  BY DEF Messages
<1>2. msg.rrs \in Seq(RRs)
  BY RecordAssumption DEF Messages
<1> QED
  BY <1>1, <1>2, RecordAssumption DEF Querier, Optional

\* What a line says of the head is what the columns hold.
LEMMA HeadSays ==
  ASSUME msg \in Messages, NEW line, Of(line, 0) = Entries(text_head)
  PROVE  \A column \in HeadColumns :
           head_columns[column] = Said(line, column, 0, DefaultOf(column))
<1> DEFINE h == msg.head
           Once(name, value) ==
             /\ <<name, 0, value>> \in Entries(line)
             /\ \A x \in Entries(line) :
                  x[1] = name /\ x[2] = 0 => x = <<name, 0, value>>
           Never(name) == \A x \in Entries(line) : ~(x[1] = name /\ x[2] = 0)
<1>1. \A x : (x \in Entries(line) /\ x[2] = 0) <=>
        \/ h.id # Absent /\ x = <<"id", 0, h.id>>
        \/ Querier # Absent /\ x = <<"querier", 0, Querier>>
        \/ h.question /\ h.qtype # Absent
             /\ x = <<"qtype", 0, pdns_logger_type2p(h.qtype)>>
        \/ h.question /\ h.qclass # Absent
             /\ x = <<"qclass", 0, pdns_logger_class2p(h.qclass)>>
        \/ h.question /\ x = <<"qname", 0, h.qname>>
        \/ h.rcode # Absent /\ x = <<"rcode", 0, pdns_logger_rcode2p(h.rcode)>>
        \/ x = <<"rcount", 0, Len(msg.rrs)>>
        \/ msg.policy /\ x = <<"policy", 0, 1>>
  <2>1. \A x : x \in Of(line, 0) <=> x \in Entries(line) /\ x[2] = 0
    BY Zenon DEF Of
  <2> QED
    BY <2>1, HeadEntries DEF Entry
<1>2. /\ IF h.id # Absent THEN Once("id", h.id) ELSE Never("id")
      /\ IF Querier # Absent THEN Once("querier", Querier) ELSE Never("querier")
      /\ IF h.question /\ h.qtype # Absent
         THEN Once("qtype", pdns_logger_type2p(h.qtype)) ELSE Never("qtype")
      /\ IF h.question /\ h.qclass # Absent
         THEN Once("qclass", pdns_logger_class2p(h.qclass)) ELSE Never("qclass")
  BY <1>1
<1>3. /\ IF h.question THEN Once("qname", h.qname) ELSE Never("qname")
      /\ IF h.rcode # Absent
         THEN Once("rcode", pdns_logger_rcode2p(h.rcode)) ELSE Never("rcode")
      /\ Once("rcount", Len(msg.rrs))
      /\ IF msg.policy THEN Once("policy", 1) ELSE Never("policy")
  BY <1>1
<1>4. ASSUME NEW name, NEW value, NEW default
      PROVE  /\ Once(name, value) => Said(line, name, 0, default) = Name(value)
             /\ Never(name) => Said(line, name, 0, default) = default
  BY LineSays
<1>5. \A x \in Nat : Name(x) = x
  BY DEF Name, NoName
<1>6. (h.id # Absent => h.id \in Nat) /\ (Querier # Absent => Querier \in Nat)
  BY HeadTypes DEF Optional
<1>7. Name(NoName) = Absent
  BY DEF Name
<1> HIDE DEF Once, Never, h
<1>8. /\ Said(line, "id", 0, 0) = (IF h.id # Absent THEN h.id ELSE 0)
      /\ Said(line, "querier", 0, Absent) = Querier
      /\ Said(line, "qtype", 0, Absent) =
           IF h.question THEN Name(pdns_logger_type2p(h.qtype)) ELSE Absent
      /\ Said(line, "qclass", 0, Absent) =
           IF h.question THEN Name(pdns_logger_class2p(h.qclass)) ELSE Absent
  BY <1>2, <1>4, <1>5, <1>6, <1>7, AbsentHasNoName
<1>9. /\ Said(line, "qname", 0, Absent) =
           IF h.question THEN Name(h.qname) ELSE Absent
      /\ Said(line, "rcode", 0, Absent) = Name(pdns_logger_rcode2p(h.rcode))
      /\ Said(line, "rcount", 0, Absent) = Len(msg.rrs)
      /\ Said(line, "policy", 0, Absent) = IF msg.policy THEN 1 ELSE Absent
  BY <1>3, <1>4, <1>5, <1>7, HeadTypes, AbsentHasNoName
<1> QED
  BY <1>8, <1>9 DEF HeadColumns, head_columns, DefaultOf, h

-----------------------------------------------------------------------------
(* The invariant.                                                          *)

\* The records a back end writes in all, and has written.
InAll(e) == IF Skips(e) THEN 0 ELSE IF msg.rrs = <<>> THEN 1 ELSE Len(msg.rrs)
SoFar(e) == IF e < engine THEN InAll(e) ELSE IF e = engine THEN t ELSE 0

Progress ==
  /\ msg \in Messages /\ engine \in 1..4 /\ t \in 0..Len(msg.rrs)
  /\ t > 0 => engine <= 3 /\ ~Skips(engine)
  /\ out = [e \in 1..3 |-> out[e]]
  /\ \A e \in 1..3 : IsLine(out[e]) /\ Len(out[e]) = SoFar(e)

\* Every line of a text back end holds the head and the RRs up to its own; the
\* buffer holds the last line written.
Text ==
  /\ \A e \in 1..2 : \A n \in 1..Len(out[e]) :
       IF msg.rrs = <<>> THEN out[e][n] = text_head
       ELSE HoldsRRs(out[e][n], n, text_head, msg.rrs)
  /\ engine <= 2 /\ t > 0 => str = out[engine][t]

\* Each line of logfile continues the one before; syslog's are the same.
Lines ==
  /\ msg.rrs # <<>> =>
       \A n \in 1..Len(out[1]) :
         out[1][n] = (IF n = 1 THEN text_head ELSE out[1][n - 1])
                       \o Tuple(msg.rrs[n], n)
  /\ \A n \in 1..Len(out[2]) : n <= Len(out[1]) => out[2][n] = out[1][n]

\* A row holds the head, and what its RR has.
RowIs(r, n, columnsOfHead, rrs) ==
  /\ \A c \in HeadColumns : r[c] = columnsOfHead[c]
  /\ rrs # <<>> =>
       /\ r["rname"] = Name(rrs[n].name)
       /\ rrs[n].type # Absent => r["rtype"] = Name(pdns_logger_type2p(rrs[n].type))
       /\ rrs[n].class # Absent => r["rclass"] = Name(pdns_logger_class2p(rrs[n].class))
       /\ rrs[n].ttl # Absent => r["rttl"] = rrs[n].ttl
       /\ rrs[n].rdata # Absent => r["rdata"] = RData(rrs[n])
TableRows ==
  \A n \in 1..Len(out[3]) : RowIs(out[3][n], n, head_columns, msg.rrs)

RecIInv == Progress /\ Text /\ Lines /\ TableRows

\* The invariant holds initially.
LEMMA RecInitIInv == RecInit => RecIInv
<1> SUFFICES ASSUME RecInit PROVE RecIInv
  OBVIOUS
<1>1. /\ engine = 1 /\ t = 0 /\ out = [e \in 1..3 |-> <<>>] /\ msg \in Messages
      /\ \A e \in 1..3 : out[e] = <<>>
  BY DEF RecInit
<1>2. IsLine(<<>>) /\ Len(<<>>) = 0
  BY DEF IsLine
<1>3. Len(msg.rrs) \in Nat
  BY <1>1, HeadTypes
<1>4. Progress
  BY <1>1, <1>2, <1>3 DEF Progress, SoFar
<1> QED
  BY <1>1, <1>2, <1>4 DEF RecIInv, Text, Lines, TableRows

\* What the message determines stays.
LEMMA SameMessage ==
  ASSUME UNCHANGED <<conf, msg>>
  PROVE  /\ text_head' = text_head /\ head_columns' = head_columns
         /\ \A e : Skips(e)' = Skips(e) /\ InAll(e)' = InAll(e)
BY DEF conf, text_head, Querier, head_columns, Skips, InAll

\* A record is written.
LEMMA Recorded ==
  ASSUME Progress, NEW e \in 1..3, NEW x,
         out' = [out EXCEPT ![e] = Append(@, x)]
  PROVE  /\ out' = [f \in 1..3 |-> out'[f]]
         /\ \A f \in 1..3 : f # e => out'[f] = out[f]
         /\ IsLine(out'[e]) /\ Len(out'[e]) = Len(out[e]) + 1 /\ Len(out[e]) \in Nat
         /\ \A i \in 1..Len(out[e]) : out'[e][i] = out[e][i]
         /\ out'[e][Len(out[e]) + 1] = x
<1>1. /\ out' = [f \in 1..3 |-> out'[f]] /\ out'[e] = Append(out[e], x)
      /\ \A f \in 1..3 : f # e => out'[f] = out[f]
  BY DEF Progress
<1>2. out[e] \in Seq(Entries(out[e]))
  BY DEF Progress, IsLine
<1>3. /\ Len(Append(out[e], x)) = Len(out[e]) + 1 /\ Len(out[e]) \in Nat
      /\ \A i \in 1..Len(out[e]) : Append(out[e], x)[i] = out[e][i]
      /\ Append(out[e], x)[Len(out[e]) + 1] = x
      /\ Append(out[e], x) = [i \in 1..(Len(out[e]) + 1) |-> Append(out[e], x)[i]]
  BY <1>2
<1>4. IsLine(Append(out[e], x))
  BY <1>3, SMTT(20) DEF IsLine, Entries
<1> QED
  BY <1>1, <1>3, <1>4

\* An engine is done, and the next one begins.
LEMMA EngineDone ==
  ASSUME RecIInv, UNCHANGED <<conf, msg, out>>, engine <= 3, NextEngine,
         Len(out[engine]) = InAll(engine)
  PROVE  RecIInv'
<1>1. /\ text_head' = text_head /\ head_columns' = head_columns
      /\ \A e : Skips(e)' = Skips(e) /\ InAll(e)' = InAll(e)
  BY SameMessage
<1>2. engine \in 1..3 /\ engine' = engine + 1 /\ t' = 0
  BY DEF RecIInv, Progress, NextEngine
<1>3. \A e \in 1..3 : SoFar(e)' = Len(out[e])
  BY <1>1, <1>2 DEF SoFar, RecIInv, Progress
<1>4. Progress'
  BY <1>2, <1>3, HeadTypes DEF Progress, RecIInv
<1>5. Text' /\ Lines' /\ TableRows'
  <2>1. ~(t' > 0)
    BY <1>2
  <2> QED
    BY <1>1, <2>1, Zenon DEF RecIInv, Text, Lines, TableRows
<1> QED
  BY <1>4, <1>5 DEF RecIInv

\* A message that an engine skips.
LEMMA SkipStep == RecIInv /\ skip_message => RecIInv'
<1> SUFFICES ASSUME RecIInv, skip_message PROVE RecIInv'
  OBVIOUS
<1>1. engine \in 1..3 /\ Len(out[engine]) = InAll(engine)
  BY DEF skip_message, RecIInv, Progress, SoFar, InAll
<1> QED
  BY <1>1, EngineDone DEF skip_message

\* The loop is over.
LEMMA ReturnStep == RecIInv /\ log_returns => RecIInv'
<1> SUFFICES ASSUME RecIInv, log_returns PROVE RecIInv'
  OBVIOUS
<1>1. msg.rrs # <<>> /\ ~Skips(engine) /\ engine \in 1..3
  BY DEF log_returns, Proceeds, RecIInv, Progress
<1>2. Len(out[engine]) = InAll(engine)
  BY <1>1 DEF log_returns, RecIInv, Progress, SoFar, InAll
<1> QED
  BY <1>1, <1>2, EngineDone DEF log_returns

\* One record for a message without RRs.
LEMMA NoRRsStep == RecIInv /\ log_no_rrs => RecIInv'
<1> SUFFICES ASSUME RecIInv, log_no_rrs PROVE RecIInv'
  OBVIOUS
<1> DEFINE x == IF engine = 3 THEN prepare_sql(row) ELSE text_head
<1>1. /\ engine \in 1..3 /\ t = 0 /\ msg.rrs = <<>> /\ ~Skips(engine)
      /\ UNCHANGED <<conf, msg>> /\ engine' = engine + 1 /\ t' = 0 /\ Progress
  BY DEF log_no_rrs, Proceeds, NextEngine, RecIInv, Progress
<1>2. out' = [out EXCEPT ![engine] = Append(@, x)]
  BY DEF log_no_rrs
<1> HIDE DEF x
<1>3. /\ text_head' = text_head /\ head_columns' = head_columns
      /\ \A e : Skips(e)' = Skips(e) /\ InAll(e)' = InAll(e)
  BY <1>1, SameMessage
<1>4. /\ out' = [f \in 1..3 |-> out'[f]]
      /\ \A f \in 1..3 : f # engine => out'[f] = out[f]
      /\ IsLine(out'[engine]) /\ Len(out'[engine]) = Len(out[engine]) + 1
      /\ out'[engine][Len(out[engine]) + 1] = x
  BY <1>1, <1>2, Recorded
<1>5. Len(out[engine]) = 0 /\ InAll(engine) = 1
  BY <1>1 DEF RecIInv, Progress, SoFar, InAll
<1>6. \A e \in 1..3 : IsLine(out'[e]) /\ Len(out'[e]) = SoFar(e)'
  BY <1>1, <1>3, <1>4, <1>5 DEF SoFar, Progress
<1>7. Progress'
  BY <1>1, <1>4, <1>6, HeadTypes DEF Progress
<1>8. \A e \in 1..2 : \A n \in 1..Len(out'[e]) : out'[e][n] = text_head
  BY <1>1, <1>4, <1>5 DEF x, RecIInv, Text
<1>9. Text' /\ Lines'
  <2>1. \A n \in 1..Len(out'[2]) : n <= Len(out'[1]) => n \in 1..Len(out'[1])
    BY <1>7 DEF Progress, SoFar, InAll
  <2>2. 1 \in 1..2 /\ 2 \in 1..2 /\ ~(t' > 0)
    BY <1>1
  <2> QED
    BY <1>1, <1>3, <1>8, <2>1, <2>2, Zenon DEF Text, Lines
<1>10. TableRows'
  <2>1. \A c \in HeadColumns : prepare_sql(row)[c] = head_columns[c]
    BY DEF prepare_sql
  <2>2. CASE engine = 3
    <3>1. \A n \in 1..Len(out'[3]) : out'[3][n] = prepare_sql(row)
      BY <1>4, <1>5, <2>2 DEF x
    <3> QED
      BY <1>1, <1>3, <2>1, <3>1 DEF TableRows, RowIs
  <2>3. CASE engine # 3
    BY <1>1, <1>3, <1>4, <2>3 DEF TableRows, RecIInv
  <2> QED
    BY <2>2, <2>3
<1> QED
  BY <1>7, <1>9, <1>10 DEF RecIInv

\* A line or a row for the next RR: the lengths.
LEMMA RecordStep ==
  ASSUME RecIInv, Proceeds, t < Len(msg.rrs), t' = t + 1,
         UNCHANGED <<conf, msg, engine>>,
         NEW x, out' = [out EXCEPT ![engine] = Append(@, x)]
  PROVE  /\ Progress' /\ engine \in 1..3 /\ t \in Nat /\ msg.rrs # <<>>
         /\ text_head' = text_head /\ head_columns' = head_columns
         /\ \A f \in 1..3 : f # engine => out'[f] = out[f]
         /\ Len(out[engine]) = t /\ Len(out'[engine]) = t + 1
         /\ \A i \in 1..t : out'[engine][i] = out[engine][i]
         /\ out'[engine][t + 1] = x
<1>1. Progress /\ engine \in 1..3 /\ t \in Nat /\ Len(msg.rrs) \in Nat /\ ~Skips(engine)
  BY HeadTypes DEF RecIInv, Progress, Proceeds
<1>2. /\ text_head' = text_head /\ head_columns' = head_columns
      /\ \A e : Skips(e)' = Skips(e) /\ InAll(e)' = InAll(e)
  BY SameMessage
<1>3. /\ out' = [f \in 1..3 |-> out'[f]]
      /\ \A f \in 1..3 : f # engine => out'[f] = out[f]
      /\ IsLine(out'[engine]) /\ Len(out'[engine]) = Len(out[engine]) + 1
      /\ \A i \in 1..Len(out[engine]) : out'[engine][i] = out[engine][i]
      /\ out'[engine][Len(out[engine]) + 1] = x
  BY <1>1, Recorded
<1>4. Len(out[engine]) = t
  BY <1>1 DEF Progress, SoFar
<1>5. \A e \in 1..3 : IsLine(out'[e]) /\ Len(out'[e]) = SoFar(e)'
  BY <1>1, <1>2, <1>3, <1>4 DEF SoFar, Progress
<1>6. Progress'
  BY <1>1, <1>2, <1>3, <1>5 DEF Progress
<1>7. msg.rrs # <<>>
  BY <1>1
<1> QED
  BY <1>1, <1>2, <1>3, <1>4, <1>6, <1>7

\* A line of logfile or syslog.
LEMMA TextStep == RecIInv /\ (logfile_log \/ syslog_log) => RecIInv'
<1> SUFFICES ASSUME RecIInv, engine \in 1..2, text_log PROVE RecIInv'
  BY DEF logfile_log, syslog_log
<1> DEFINE last == IF t = 0 THEN text_head ELSE str
<1>1. /\ Proceeds /\ t < Len(msg.rrs) /\ t' = t + 1 /\ UNCHANGED <<conf, msg, engine>>
      /\ out' = [out EXCEPT ![engine] = Append(@, str')]
  BY DEF text_log
<1>2. /\ Progress' /\ t \in Nat /\ msg.rrs # <<>>
      /\ text_head' = text_head /\ head_columns' = head_columns
      /\ \A f \in 1..3 : f # engine => out'[f] = out[f]
      /\ Len(out[engine]) = t /\ Len(out'[engine]) = t + 1
      /\ \A i \in 1..t : out'[engine][i] = out[engine][i]
      /\ out'[engine][t + 1] = str'
  BY <1>1, RecordStep
<1>3. str' = last \o Tuple(msg.rrs[t + 1], t + 1)
  <2>1. t + 1 = 1 <=> t = 0
    BY <1>2
  <2> QED
    BY <2>1, Zenon DEF text_log, text_line
<1>4. last = IF t = 0 THEN text_head ELSE out[engine][t]
  BY <1>2 DEF RecIInv, Text
<1> HIDE DEF last
<1>5. HoldsRRs(last, t, text_head, msg.rrs)
  <2>1. t # 0 => t \in 1..Len(out[engine])
    BY <1>2
  <2>2. msg \in Messages
    BY DEF RecIInv, Progress
  <2> QED
    BY <1>2, <1>4, <2>1, <2>2, HeadHolds, Zenon DEF RecIInv, Text
<1>6. HoldsRRs(str', t + 1, text_head, msg.rrs)
  BY <1>2, <1>3, <1>5, LineGrows
<1>7. \A i \in 1..(t + 1) : i \in 1..t \/ i = t + 1
  BY <1>2
<1>8. Text'
  <2>1. \A n \in 1..Len(out'[engine]) :
          HoldsRRs(out'[engine][n], n, text_head, msg.rrs)
    BY <1>2, <1>6, <1>7, Zenon DEF RecIInv, Text
  <2>2. \A e \in 1..2 : e # engine => out'[e] = out[e]
    BY <1>2
  <2>3. str' = out'[engine][t']
    BY <1>1, <1>2
  <2> QED
    BY <1>1, <1>2, <2>1, <2>2, <2>3, Zenon DEF RecIInv, Text
<1>9. Lines'
  <2>1. CASE engine = 1
    <3>1. out'[2] = out[2] /\ Len(out[2]) = 0
      BY <1>2, <2>1 DEF RecIInv, Progress, SoFar
    <3>2. ASSUME NEW n \in 1..(t + 1)
          PROVE  out'[1][n] = (IF n = 1 THEN text_head ELSE out'[1][n - 1])
                                \o Tuple(msg.rrs[n], n)
      <4>1. CASE n \in 1..t
        <5>1. n # 1 => n - 1 \in 1..t
          BY <1>2, <4>1
        <5> QED
          BY <1>2, <2>1, <4>1, <5>1 DEF RecIInv, Lines
      <4>2. CASE n = t + 1
        <5>1. IF n = 1 THEN t = 0 ELSE t # 0 /\ n - 1 = t /\ t \in 1..t
          BY <1>2, <4>2
        <5> QED
          BY <1>2, <1>3, <1>4, <2>1, <4>2, <5>1
      <4> QED
        BY <1>7, <4>1, <4>2
    <3>3. /\ \A n \in 1..Len(out'[1]) : n \in 1..(t + 1)
          /\ \A n \in 1..Len(out'[2]) : FALSE
      BY <1>2, <2>1, <3>1
    <3>4. text_head' = text_head /\ msg' = msg
      BY <1>1, <1>2
    <3> QED
      BY <3>2, <3>3, <3>4, Zenon DEF Lines
  <2>2. CASE engine = 2
    <3>1. out'[1] = out[1]
      BY <1>2, <2>2
    <3>2. ASSUME NEW n \in 1..(t + 1), n <= Len(out[1]) PROVE out'[2][n] = out[1][n]
      <4>1. CASE n \in 1..t
        BY <1>2, <2>2, <3>2, <4>1 DEF RecIInv, Lines
      <4>2. CASE n = t + 1
        <5>1. n \in 1..Len(out[1]) /\ (t # 0 => t \in 1..Len(out[2]) /\ t <= Len(out[1]))
          <6>1. Len(out[1]) \in Nat
            BY DEF RecIInv, Progress, IsLine
          <6> QED
            BY <1>2, <2>2, <3>2, <4>2, <6>1
        <5>2. out[1][n] = (IF n = 1 THEN text_head ELSE out[1][n - 1])
                            \o Tuple(msg.rrs[n], n)
          BY <1>2, <5>1 DEF RecIInv, Lines
        <5>3. last = IF n = 1 THEN text_head ELSE out[1][n - 1]
          <6>1. IF n = 1 THEN t = 0 ELSE t # 0 /\ n - 1 = t
            BY <1>2, <4>2
          <6> QED
            BY <1>4, <2>2, <5>1, <6>1 DEF RecIInv, Lines
        <5> QED
          BY <1>2, <1>3, <2>2, <4>2, <5>2, <5>3
      <4> QED
        BY <1>7, <4>1, <4>2
    <3>3. \A n \in 1..Len(out'[2]) : n \in 1..(t + 1)
      BY <1>2, <2>2
    <3>4. text_head' = text_head /\ msg' = msg
      BY <1>1, <1>2
    <3> QED
      BY <3>1, <3>2, <3>3, <3>4, Zenon DEF RecIInv, Lines
  <2> QED
    BY <2>1, <2>2
<1>10. TableRows'
  <2>1. out'[3] = out[3]
    BY <1>2
  <2> QED
    BY <1>1, <1>2, <2>1, Zenon DEF RecIInv, TableRows
<1> QED
  BY <1>2, <1>8, <1>9, <1>10 DEF RecIInv

\* A row of sqlite.
LEMMA RowStep == RecIInv /\ logsqlite_log => RecIInv'
<1> SUFFICES ASSUME RecIInv, logsqlite_log PROVE RecIInv'
  OBVIOUS
<1> DEFINE rr == msg.rrs[t + 1]
           x == prepare_sql(columns(rr))
<1>1. /\ Proceeds /\ t < Len(msg.rrs) /\ t' = t + 1 /\ UNCHANGED <<conf, msg, engine>>
      /\ engine = 3 /\ row' = columns(rr)
      /\ out' = [out EXCEPT ![3] = Append(@, prepare_sql(row'))]
  BY DEF logsqlite_log
<1>2. out' = [out EXCEPT ![engine] = Append(@, x)]
  BY <1>1, Zenon
<1> HIDE DEF x
<1>3. /\ Progress' /\ t \in Nat /\ msg.rrs # <<>>
      /\ text_head' = text_head /\ head_columns' = head_columns
      /\ \A f \in 1..3 : f # engine => out'[f] = out[f]
      /\ Len(out[engine]) = t /\ Len(out'[engine]) = t + 1
      /\ \A i \in 1..t : out'[engine][i] = out[engine][i]
      /\ out'[engine][t + 1] = x
  BY <1>1, <1>2, RecordStep
<1>4. out'[1] = out[1] /\ out'[2] = out[2] /\ ~(engine' <= 2)
      /\ \A e \in 1..2 : out'[e] = out[e]
  BY <1>1, <1>3
<1>5. Text' /\ Lines'
  <2>1. text_head' = text_head /\ msg' = msg
    BY <1>1, <1>3
  <2>2. Text'
    BY <1>4, <2>1, Zenon DEF RecIInv, Text
  <2>3. Lines'
    BY <1>4, <2>1, Zenon DEF RecIInv, Lines
  <2> QED
    BY <2>2, <2>3
<1>6. RowIs(x, t + 1, head_columns, msg.rrs)
  <2>1. \A c \in HeadColumns : x[c] = head_columns[c]
    BY DEF x, prepare_sql
  <2>2. /\ x["rname"] = Name(columns(rr).rname)
        /\ x["rtype"] = Name(columns(rr).rtype)
        /\ x["rclass"] = Name(columns(rr).rclass)
        /\ x["rttl"] = columns(rr).rttl
        /\ x["rdata"] = columns(rr).rdata
    BY DEF x, prepare_sql, HeadColumns, RRColumns
  <2>3. /\ columns(rr).rname = rr.name
        /\ rr.type # Absent => columns(rr).rtype = pdns_logger_type2p(rr.type)
        /\ rr.class # Absent => columns(rr).rclass = pdns_logger_class2p(rr.class)
        /\ rr.ttl # Absent => columns(rr).rttl = rr.ttl
        /\ rr.rdata # Absent => columns(rr).rdata = RData(rr)
    BY DEF columns
  <2> QED
    BY <2>1, <2>2, <2>3, Zenon DEF RowIs
<1>7. TableRows'
  <2>1. \A i \in 1..(t + 1) : i \in 1..t \/ i = t + 1
    BY <1>3
  <2> QED
    BY <1>1, <1>3, <1>6, <2>1 DEF RecIInv, TableRows
<1> QED
  BY <1>3, <1>5, <1>7 DEF RecIInv

\* Every step keeps the invariant.
LEMMA RecNextIInv == RecIInv /\ [RecNext]_recVars => RecIInv'
<1> SUFFICES ASSUME RecIInv, RecNext \/ UNCHANGED recVars PROVE RecIInv'
  OBVIOUS
<1>1. CASE subnet_assert \/ UNCHANGED recVars
  <2>1. UNCHANGED <<conf, msg, engine, t, str, out>>
    BY <1>1 DEF subnet_assert, recVars
  <2>2. /\ text_head' = text_head /\ head_columns' = head_columns
        /\ \A e : Skips(e)' = Skips(e) /\ InAll(e)' = InAll(e)
    BY <2>1, SameMessage
  <2>3. \A e : SoFar(e)' = SoFar(e)
    BY <2>1, <2>2 DEF SoFar
  <2> QED
    BY <2>1, <2>2, <2>3, Zenon DEF RecIInv, Progress, Text, Lines, TableRows
<1> QED
  BY <1>1, SkipStep, ReturnStep, NoRRsStep, TextStep, RowStep, Zenon DEF RecNext

\* The lines and rows of a message are as the invariant says, for every
\* message, configuration and build.
LEMMA RecInvariant == RecSpec => []RecIInv
BY RecInitIInv, RecNextIInv, PTL DEF RecSpec

\* Every back end that does not skip a message writes one record per RR and at
\* least one, and the text back ends write the same lines (file.c:204-270,
\* syslog.c:225-291, sqlite.c:345-388).
THEOREM RecordEnginesAgree == RecSpec => []EnginesAgree
<1>1. RecIInv => EnginesAgree
  <2> SUFFICES ASSUME RecIInv, engine = 4
               PROVE  /\ \A e \in 1..3 : Len(out[e]) = InAll(e)
                      /\ ~Skips(1) /\ ~Skips(2) => out[1] = out[2]
    BY Zenon DEF EnginesAgree, InAll
  <2>1. \A e \in 1..3 : Len(out[e]) = InAll(e)
    BY DEF RecIInv, Progress, SoFar
  <2>2. ASSUME ~Skips(1), ~Skips(2) PROVE out[1] = out[2]
    <3>1. Len(out[1]) = Len(out[2])
      BY <2>1, <2>2 DEF InAll
    <3>2. out[1] \in Seq(Entries(out[1])) /\ out[2] \in Seq(Entries(out[2]))
      BY DEF RecIInv, Progress, IsLine
    <3>3. \A n \in 1..Len(out[2]) : out[2][n] = out[1][n]
      BY <3>1, <3>2 DEF RecIInv, Lines
    <3> QED
      BY <3>1, <3>2, <3>3
  <2> QED
    BY <2>1, <2>2
<1> QED
  BY <1>1, RecInvariant, PTL

\* Line n holds the tuples of RRs 1 to n in order: the buffer is not cleared
\* between RRs (file.c:204-264).
THEOREM RecordLastLineHoldsAll == RecSpec => []LastLineHoldsAll
<1>1. RecIInv => LastLineHoldsAll
  <2> SUFFICES ASSUME RecIInv, NEW e \in 1..2, NEW n \in 1..Len(out[e]),
                      msg.rrs # <<>>, NEW m \in 1..n
               PROVE  /\ \E i \in 1..Len(out[e][n]) :
                           out[e][n][i] = <<"rname", m, msg.rrs[m].name>>
                      /\ \A i, j \in 1..Len(out[e][n]) :
                           i < j => out[e][n][i][2] <= out[e][n][j][2]
    BY Zenon DEF LastLineHoldsAll
  <2>1. HoldsRRs(out[e][n], n, text_head, msg.rrs)
    BY DEF RecIInv, Text
  <2>2. <<"rname", m, msg.rrs[m].name>> \in Entries(Tuple(msg.rrs[m], m))
    BY TupleEntries DEF Entry
  <2>3. <<"rname", m, msg.rrs[m].name>> \in Entries(out[e][n])
    BY <2>1, <2>2, Zenon DEF HoldsRRs, Of
  <2>4. \E i \in 1..Len(out[e][n]) : out[e][n][i] = <<"rname", m, msg.rrs[m].name>>
    BY <2>3, Zenon DEF Entries
  <2> QED
    BY <2>1, <2>4, Zenon DEF HoldsRRs
<1> QED
  BY <1>1, RecInvariant, PTL

\* Row n and line n of a message say the same, of the head always and of RR n
\* if it is complete (file.c:137-202, 211-261, sqlite.c:248-264, 304-343).
THEOREM RecordRowsMatchLines == RecSpec => []RowsMatchLines
<1>1. RecIInv => RowsMatchLines
  <2> SUFFICES ASSUME RecIInv, NEW e \in 1..2, NEW n \in 1..Len(out[3]),
                      n <= Len(out[e])
               PROVE  /\ \A c \in HeadColumns :
                           out[3][n][c] = Said(out[e][n], c, 0, DefaultOf(c))
                      /\ msg.rrs # <<>> /\ Complete(msg.rrs[n]) =>
                           \A c \in RRColumns :
                             out[3][n][c] = Said(out[e][n], c, n, DefaultOf(c))
    BY Zenon DEF RowsMatchLines
  <2>1. msg \in Messages /\ n \in 1..Len(out[e])
    BY DEF RecIInv, Progress, IsLine
  <2>2. RowIs(out[3][n], n, head_columns, msg.rrs)
    BY DEF RecIInv, TableRows
  <2>3. Of(out[e][n], 0) = Entries(text_head)
    <3>1. Of(text_head, 0) = Entries(text_head)
      BY <2>1, HeadHolds, Zenon DEF HoldsRRs
    <3> QED
      BY <2>1, <3>1, Zenon DEF RecIInv, Text, HoldsRRs
  <2>4. \A c \in HeadColumns : out[3][n][c] = Said(out[e][n], c, 0, DefaultOf(c))
    BY <2>1, <2>2, <2>3, HeadSays, Zenon DEF RowIs
  <2>5. ASSUME msg.rrs # <<>>, Complete(msg.rrs[n])
        PROVE  \A c \in RRColumns :
                 out[3][n][c] = Said(out[e][n], c, n, DefaultOf(c))
    <3> DEFINE rr == msg.rrs[n]
    <3>1. rr \in RRs /\ n \in 1..n
      <4>1. Len(out[3]) <= Len(msg.rrs) /\ Len(out[3]) \in Nat
        BY <2>1, <2>5, HeadTypes DEF RecIInv, Progress, SoFar, InAll, IsLine
      <4> QED
        BY <2>1, <4>1, HeadTypes
    <3>2. Of(out[e][n], n) = Entries(Tuple(rr, n))
      BY <2>1, <2>5, <3>1, Zenon DEF RecIInv, Text, HoldsRRs
    <3>3. Name(rr.ttl) = rr.ttl /\ Name(RData(rr)) = RData(rr)
      BY <2>5, <3>1, RecordAssumption DEF Complete, Optional, RData,
         NotSupported, Name, NoName
    <3>4. /\ out[3][n]["rname"] = Said(out[e][n], "rname", n, Absent)
          /\ out[3][n]["rtype"] = Said(out[e][n], "rtype", n, Absent)
          /\ out[3][n]["rclass"] = Said(out[e][n], "rclass", n, Absent)
          /\ out[3][n]["rttl"] = Said(out[e][n], "rttl", n, 0)
          /\ out[3][n]["rdata"] = Said(out[e][n], "rdata", n, Absent)
      BY <2>2, <2>5, <3>2, <3>3, TupleSays DEF RowIs, Complete
    <3> QED
      BY <3>4 DEF RRColumns, DefaultOf
  <2> QED
    BY <2>4, <2>5
<1> QED
  BY <1>1, RecInvariant, PTL

\* A name in a row is the name of the code it stands for, for every code below
\* the first gap of its enum; one beyond the table has none (dns.c:107-126).
THEOREM RecordNamesAreRight == RecSpec => []NamesAreRight
<1>1. RecIInv => NamesAreRight
  <2> SUFFICES ASSUME RecIInv, NEW n \in 1..Len(out[3])
               PROVE  LET h == msg.head IN
                      /\ RightName(dns_rcode_e, h.rcode, out[3][n]["rcode"])
                      /\ h.question =>
                           /\ RightName(dns_type_e, h.qtype, out[3][n]["qtype"])
                           /\ RightName(dns_class_e, h.qclass, out[3][n]["qclass"])
                      /\ msg.rrs # <<>> =>
                           /\ RightName(dns_type_e, msg.rrs[n].type, out[3][n]["rtype"])
                           /\ RightName(dns_class_e, msg.rrs[n].class, out[3][n]["rclass"])
    BY DEF NamesAreRight, RightName
  <2> DEFINE h == msg.head
  <2>1. RowIs(out[3][n], n, head_columns, msg.rrs) /\ msg \in Messages
    BY DEF RecIInv, TableRows, Progress
  <2>2. /\ out[3][n]["rcode"] = Name(pdns_logger_rcode2p(h.rcode))
        /\ h.question =>
             /\ out[3][n]["qtype"] = Name(pdns_logger_type2p(h.qtype))
             /\ out[3][n]["qclass"] = Name(pdns_logger_class2p(h.qclass))
    BY <2>1 DEF RowIs, HeadColumns, head_columns
  <2>3. h.rcode \in Optional /\ h.qtype \in Optional /\ h.qclass \in Optional
    BY <2>1, HeadTypes
  <2>4. ASSUME msg.rrs # <<>>
        PROVE  /\ RightName(dns_type_e, msg.rrs[n].type, out[3][n]["rtype"])
               /\ RightName(dns_class_e, msg.rrs[n].class, out[3][n]["rclass"])
    <3> DEFINE rr == msg.rrs[n]
    <3>1. rr \in RRs
      <4>1. Len(out[3]) <= Len(msg.rrs) /\ Len(out[3]) \in Nat
        BY <2>1, <2>4, HeadTypes DEF RecIInv, Progress, SoFar, InAll, IsLine
      <4> QED
        BY <2>1, <4>1, HeadTypes
    <3>2. rr.type \in Optional /\ rr.class \in Optional
      BY <3>1, RecordAssumption
    <3>3. \A enum, name : Numbered(enum) => RightName(enum, Absent, name)
      <4>1. \A enum : Numbered(enum) => Cardinality(enum) \in Nat
        BY FS_CardinalityType DEF Numbered
      <4> QED
        BY <4>1 DEF RightName, Absent
    <3>4. /\ rr.type # Absent => out[3][n]["rtype"] = Name(pdns_logger_type2p(rr.type))
          /\ rr.class # Absent => out[3][n]["rclass"] = Name(pdns_logger_class2p(rr.class))
      BY <2>1, <2>4, Zenon DEF RowIs
    <3> QED
      BY <3>2, <3>3, <3>4, NamesRight, EnumsNumbered, Zenon
  <2> QED
    BY <2>2, <2>3, <2>4, NamesRight, Zenon
<1> QED
  BY <1>1, RecInvariant, PTL
=============================================================================
