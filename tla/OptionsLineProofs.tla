------------------------- MODULE OptionsLineProofs -------------------------
(***************************************************************************)
(* The invariant of the reading of the options, and the steps that read an *)
(* argument or a line of the file.                                         *)
(*                                                                         *)
(* The parser goes line by line with a section and a name in hand, while   *)
(* Meaning says what a file sets without reading it.  The inductive        *)
(* invariant says that after n lines of a pass the parser's locals, its    *)
(* result and the section's options are what Meaning makes of those n.     *)
(***************************************************************************)
EXTENDS Options, TLAPS

Contents == Files \cup Edits \cup {<<>>}

\* The values an option may have.
Values(name) == IF name \in Strings THEN Texts \cup {Empty}
                ELSE IF name = "bind-port" THEN Int ELSE {0, 1}

Types ==
  /\ pc \in {"cli", "open", "lines", "started", "failure"}
  /\ args \in Argvs /\ argi \in 0..Len(args)
  /\ config_file \in {"default", "given"}
  /\ pass \in 1..5 /\ file \in Contents
  /\ pos \in 0..Len(file) /\ error \in -1..Len(file)
  /\ DOMAIN opt = Opts /\ \A o \in Opts : opt[o] \in Values(o[2])
  /\ engine \in [2..4 -> {"unset", "failed", "disabled", "on"}]
  /\ seen \in Seq(Contents) /\ unread \subseteq 1..4 /\ upsets \in Nat

\* How many passes have read the file, and what they have read.
Passes ==
  /\ pc \in {"cli", "failure"} => pass = 1
  /\ pc = "cli" => seen = <<>>
  /\ pc = "open" => Len(seen) = pass - 1
  /\ pc = "lines" => Len(seen) = pass
  /\ pc = "started" => pass = 5 /\ Len(seen) = 4
  /\ pc # "started" => pass <= 4
  /\ pc \in {"cli", "open"} =>
       pos = 0 /\ section = Empty /\ prev_name = Empty /\ error = 0
  /\ \A p \in unread : p <= Len(seen) /\ seen[p] = <<>>
  /\ upsets = 0 => unread = {} /\ \A p \in 1..Len(seen) : seen[p] = file

\* The lines up to n that set an option, and what they set it to.
SettersTo(F, n, sec, name) ==
  {i \in 1..n :
     /\ Role(F, i) \in {"pair", "more"}
     /\ KeyBefore(F, i, "header") = sec
     /\ NameOf(F, i) = name /\ TextOf(F, i) # Empty}
MeaningTo(F, n, sec, name, default) ==
  LET S == SettersTo(F, n, sec, name)
  IN  IF S = {} THEN default ELSE Convert(name, TextOf(F, Max(S)))

\* The parser's locals and result after n lines.
Locals(F, n) ==
  /\ section = KeyBefore(F, n + 1, "header")
  /\ IF Pending(F, n + 1)
     THEN prev_name = KeyBefore(F, n + 1, "pair") /\ prev_name # Empty
     ELSE prev_name = Empty
  /\ error >= 0
  /\ error = 0 <=> \A i \in 1..n : Role(F, i) \notin {"junk", "unclosed"}

\* The options of pass p after n lines of F.
OptionsTo(p, F, n) ==
  \A name \in Stored[p] :
    opt[<<Sections[p], name>>] =
      MeaningTo(F, n, Sections[p], name, Unset(<<Sections[p], name>>))

\* -f was among the first n arguments, and no -h before it.
GivenTo(n) ==
  \E i \in 1..n : args[i] = "-f" /\ \A j \in 1..i : args[j] # "-h"

CommandLine ==
  pc = "cli" =>
    /\ argi < Len(args) => \A j \in 1..argi : args[j] # "-h"
    /\ \A name \in Stored[1] :
         opt[<<Sections[1], name>>] =
           IF name = "foreground" /\ GivenTo(argi) THEN 1 ELSE Default(name)

\* What is left to later passes is untouched.
Untouched ==
  \A q \in 1..4 :
    q > pass \/ (q = pass /\ pc = "open") => OptionsTo(q, <<>>, 0)

Reading ==
  pc = "lines" =>
    IF pass \in unread
    THEN error = -1 /\ pos = Len(file) /\ OptionsTo(pass, <<>>, 0)
    ELSE file = seen[pass] /\ Locals(file, pos) /\ OptionsTo(pass, file, pos)

OptIInv ==
  /\ Types /\ Passes /\ CommandLine /\ Untouched /\ Reading
  /\ SettingsAreTheFiles /\ StartsIffGood /\ EnginesAsConfigured

-----------------------------------------------------------------------------
(* What one more line adds.                                                *)

\* The last line read is the greatest of the lines read.
LEMMA MaxNext ==
  ASSUME NEW n \in Nat, NEW S \in SUBSET (1..n)
  PROVE  Max(S \cup {n + 1}) = n + 1
<1> DEFINE T == S \cup {n + 1}
           IsMax(x) == \A y \in T : x >= y
<1>1. n + 1 \in T /\ IsMax(n + 1)
  OBVIOUS
<1>2. \A x \in T : IsMax(x) => x = n + 1
  OBVIOUS
<1> QED
  BY <1>1, <1>2, Zenon DEF Max

\* A name is in hand after a line that gives one, and stays there until a line
\* that ends it.
LEMMA PendingNext ==
  ASSUME NEW F, NEW n \in Nat
  PROVE  Pending(F, (n + 1) + 1) <=>
           \/ F[n + 1].kind = "pair" /\ F[n + 1].key # Empty
           \/ Pending(F, n + 1) /\ ~Ends(F[n + 1])
<1> DEFINE Gives(j) == F[j].kind = "pair" /\ F[j].key # Empty
           Lasts(j, m) == \A h \in (j + 1)..m : ~Ends(F[h])
<1> HIDE DEF Gives
<1>1. Pending(F, n + 1) <=> \E j \in 1..n : Gives(j) /\ Lasts(j, n)
  BY (n + 1) - 1 = n DEF Pending, Gives
<1>2. Pending(F, (n + 1) + 1) <=>
        \E j \in 1..(n + 1) : Gives(j) /\ Lasts(j, n + 1)
  BY ((n + 1) + 1) - 1 = n + 1 DEF Pending, Gives
<1>3. \A j \in 1..n : Lasts(j, n + 1) <=> Lasts(j, n) /\ ~Ends(F[n + 1])
  OBVIOUS
<1>4. Lasts(n + 1, n + 1)
  OBVIOUS
<1>5. \A j : j \in 1..(n + 1) <=> j \in 1..n \/ j = n + 1
  OBVIOUS
<1> HIDE DEF Lasts
<1> QED
  BY <1>1, <1>2, <1>3, <1>4, <1>5, Zenon DEF Gives

\* The last key in a role is that of the last line, or the one before.
LEMMA KeyNext ==
  ASSUME NEW F, NEW n \in Nat, NEW role
  PROVE  KeyBefore(F, (n + 1) + 1, role) =
           IF Role(F, n + 1) = role THEN F[n + 1].key
           ELSE KeyBefore(F, n + 1, role)
<1> DEFINE S(m) == {j \in 1..m : Role(F, j) = role}
<1>1. /\ KeyBefore(F, n + 1, role) =
           IF S(n) = {} THEN Empty ELSE F[Max(S(n))].key
      /\ KeyBefore(F, (n + 1) + 1, role) =
           IF S(n + 1) = {} THEN Empty ELSE F[Max(S(n + 1))].key
  BY (n + 1) - 1 = n, ((n + 1) + 1) - 1 = n + 1 DEF KeyBefore
<1>2. CASE Role(F, n + 1) = role
  <2>1. S(n + 1) = S(n) \cup {n + 1} /\ S(n) \in SUBSET (1..n)
    BY <1>2
  <2>2. Max(S(n + 1)) = n + 1
    BY <2>1, MaxNext
  <2> QED
    BY <1>1, <1>2, <2>1, <2>2
<1>3. CASE Role(F, n + 1) # role
  <2>1. S(n + 1) = S(n)
    BY <1>3
  <2> QED
    BY <1>1, <1>3, <2>1
<1> QED
  BY <1>2, <1>3

\* Before the first line there is no name and no section.
LEMMA NothingRead ==
  ASSUME NEW F
  PROVE  ~Pending(F, 0 + 1) /\ \A role : KeyBefore(F, 0 + 1, role) = Empty
BY DEF Pending, KeyBefore

\* Line i sets an option.
Sets(F, i, sec, name) ==
  /\ Role(F, i) \in {"pair", "more"}
  /\ KeyBefore(F, i, "header") = sec
  /\ NameOf(F, i) = name /\ TextOf(F, i) # Empty

\* An option has the value the last line gives it, or the one it had.
LEMMA MeaningNext ==
  ASSUME NEW F, NEW n \in Nat, NEW sec, NEW name, NEW d
  PROVE  MeaningTo(F, n + 1, sec, name, d) =
           IF Sets(F, n + 1, sec, name) THEN Convert(name, TextOf(F, n + 1))
           ELSE MeaningTo(F, n, sec, name, d)
<1> DEFINE S(m) == {i \in 1..m : Sets(F, i, sec, name)}
<1>1. \A m : MeaningTo(F, m, sec, name, d) =
               IF S(m) = {} THEN d ELSE Convert(name, TextOf(F, Max(S(m))))
  BY DEF MeaningTo, SettersTo, Sets
<1>2. CASE Sets(F, n + 1, sec, name)
  <2>1. S(n + 1) = S(n) \cup {n + 1} /\ S(n) \in SUBSET (1..n)
    BY <1>2
  <2>2. Max(S(n + 1)) = n + 1
    BY <2>1, MaxNext
  <2> QED
    BY <1>1, <1>2, <2>1, <2>2, Zenon
<1>3. CASE ~Sets(F, n + 1, sec, name)
  <2>1. S(n + 1) = S(n)
    BY <1>3
  <2> QED
    BY <1>1, <1>3, <2>1, Zenon
<1> QED
  BY <1>2, <1>3

\* No line read, and all of them read.
LEMMA MeaningEnds ==
  ASSUME NEW F, NEW sec, NEW name, NEW d
  PROVE  /\ MeaningTo(F, 0, sec, name, d) = d
         /\ MeaningTo(F, Len(F), sec, name, d) = Meaning(F, sec, name, d)
<1>1. SettersTo(F, 0, sec, name) = {}
  BY DEF SettersTo
<1>2. SettersTo(F, Len(F), sec, name) = Setters(F, sec, name)
  BY DEF SettersTo, Setters
<1> QED
  BY <1>1, <1>2, Zenon DEF MeaningTo, Meaning

\* An unset option of an empty file.
LEMMA MeaningEmpty ==
  ASSUME NEW sec, NEW name, NEW d
  PROVE  Meaning(<<>>, sec, name, d) = d
<1>1. Len(<<>>) = 0
  OBVIOUS
<1> QED
  BY <1>1, MeaningEnds

-----------------------------------------------------------------------------
(* The options and their handler.                                          *)

\* The options by pass and name, and no two passes share one.
LEMMA OptsByPass ==
  /\ \A p \in 1..4 : \A name \in Stored[p] : <<Sections[p], name>> \in Opts
  /\ \A o \in Opts : \E p \in 1..4 : \E name \in Stored[p] :
       o = <<Sections[p], name>>
  /\ \A p, q \in 1..4 : Sections[p] = Sections[q] => p = q
<1>1. \A p \in 1..4 : p = 1 \/ p = 2 \/ p = 3 \/ p = 4
  OBVIOUS
<1>2. /\ Sections[1] = "globals" /\ Sections[2] = "logfile"
      /\ Sections[3] = "syslog" /\ Sections[4] = "sqlite3"
  BY DEF Sections
<1>3. \A p, q \in 1..4 : Sections[p] = Sections[q] => p = q
  BY <1>1, <1>2
<1>4. \A o : o \in Opts <=> \E p \in 1..4 : o \in {Sections[p]} \X Stored[p]
  BY Zenon DEF Opts
<1>5. \A p \in 1..4 : \A o : o \in {Sections[p]} \X Stored[p] <=>
        \E name \in Stored[p] : o = <<Sections[p], name>>
  OBVIOUS
<1>6. ASSUME NEW p \in 1..4, NEW name \in Stored[p]
      PROVE  <<Sections[p], name>> \in Opts
  BY <1>4, <1>5
<1>7. ASSUME NEW o \in Opts
      PROVE  \E p \in 1..4 : \E name \in Stored[p] : o = <<Sections[p], name>>
  <2>1. PICK p \in 1..4 : o \in {Sections[p]} \X Stored[p]
    BY <1>4
  <2> QED
    BY <1>5, <2>1
<1> QED
  BY <1>3, <1>6, <1>7

\* The value a text gives to an option.
LEMMA ConvertValues ==
  ASSUME NEW name, NEW text \in Texts
  PROVE  Convert(name, text) \in Values(name)
<1>1. Atoi[text] \in Int
  BY OptionsAssumption
<1>2. "bind-port" \notin Strings
  BY DEF Strings
<1> QED
  BY <1>1, <1>2 DEF Convert, Values

\* The default of an option is one of its values.
LEMMA DefaultValues ==
  ASSUME NEW name
  PROVE  Default(name) \in Values(name)
<1>1. CASE name \in Strings
  <2>1. Default(name) = Empty /\ Values(name) = Texts \cup {Empty}
    BY <1>1, Zenon DEF Default, Values, Strings
  <2> QED
    BY <2>1, Zenon
<1>2. CASE name \notin Strings
  <2>1. Default(name) =
          IF name \in {"only-rewrites", "autocommit"} THEN 1 ELSE 0
    BY <1>2, Zenon DEF Default
  <2> QED
    BY <1>2, <2>1 DEF Values
<1> QED
  BY <1>1, <1>2

\* The handler sets the option it is given, of its own section, and no other.
LEMMA Handler ==
  ASSUME Types, pass \in 1..4, NEW sec, NEW nm, NEW text \in Texts \cup {Empty},
         opt' = opt_handler(sec, nm, text)
  PROVE  /\ DOMAIN opt' = Opts /\ \A o \in Opts : opt'[o] \in Values(o[2])
         /\ \A q \in 1..4 : \A name \in Stored[q] :
              opt'[<<Sections[q], name>>] =
                IF /\ q = pass /\ sec = Sections[pass] /\ nm = name
                   /\ text # Empty
                THEN Convert(name, text) ELSE opt[<<Sections[q], name>>]
<1>1. DOMAIN opt = Opts /\ \A o \in Opts : opt[o] \in Values(o[2])
  BY DEF Types
<1>2. CASE sec = Sections[pass] /\ nm \in Stored[pass] /\ text # Empty
  <2>1. opt' = [opt EXCEPT ![<<sec, nm>>] = Convert(nm, text)]
    BY <1>2 DEF opt_handler
  <2>2. <<sec, nm>> \in Opts
    BY <1>2, OptsByPass
  <2>3. DOMAIN opt' = Opts /\ opt'[<<sec, nm>>] = Convert(nm, text)
        /\ \A o \in Opts : o # <<sec, nm>> => opt'[o] = opt[o]
    BY <1>1, <2>1, <2>2, Zenon
  <2>4. Convert(nm, text) \in Values(nm)
    BY <1>2, ConvertValues
  <2>5. \A o \in Opts : opt'[o] \in Values(o[2])
    <3>1. <<sec, nm>>[2] = nm
      OBVIOUS
    <3> QED
      BY <1>1, <2>3, <2>4, <3>1, Zenon
  <2>6. ASSUME NEW q \in 1..4, NEW name \in Stored[q]
        PROVE  opt'[<<Sections[q], name>>] =
                 IF /\ q = pass /\ sec = Sections[pass] /\ nm = name
                    /\ text # Empty
                 THEN Convert(name, text) ELSE opt[<<Sections[q], name>>]
    <3>1. <<Sections[q], name>> \in Opts
      BY OptsByPass
    <3>2. <<Sections[q], name>> = <<sec, nm>> <=> q = pass /\ nm = name
      BY <1>2, OptsByPass
    <3> QED
      BY <1>2, <2>3, <3>1, <3>2
  <2> QED
    BY <2>3, <2>5, <2>6
<1>3. CASE ~(sec = Sections[pass] /\ nm \in Stored[pass] /\ text # Empty)
  <2>1. opt' = opt
    BY <1>3 DEF opt_handler
  <2> QED
    BY <1>1, <1>3, <2>1
<1> QED
  BY <1>2, <1>3

\* Whatever is read is a sequence of lines.
LEMMA ContentsAreLines ==
  \A F \in Contents : F \in Seq(Lines) /\ Len(F) \in Nat
<1>1. <<>> \in Seq(Lines)
  OBVIOUS
<1>2. Contents \subseteq Seq(Lines)
  BY <1>1, OptionsAssumption, Zenon DEF Contents
<1> QED
  BY <1>2

-----------------------------------------------------------------------------
(* A line is read.                                                         *)

\* The command line does not change once it is there.
LEMMA UnsetSame ==
  args' = args => ForegroundGiven' = ForegroundGiven
BY DEF ForegroundGiven

\* What is known when the parser reads a line, and its role in the file.
LEMMA LineFacts ==
  ASSUME OptIInv, ReadLine
  PROVE  /\ pass \in 1..4 /\ pass \notin unread /\ pos \in Nat
         /\ pos < Len(file) /\ file = seen[pass] /\ TheLine \in Lines
         /\ Locals(file, pos) /\ OptionsTo(pass, file, pos)
         /\ TheLine = file[pos + 1]
         /\ Continues <=> Role(file, pos + 1) = "more"
         /\ ~Continues => Role(file, pos + 1) =
              IF TheLine.kind \in {"blank", "comment"} THEN "none"
              ELSE TheLine.kind
<1>1. pc = "lines" /\ pos < Len(file)
  BY DEF ReadLine
<1>2. pass \in 1..4 /\ file \in Contents /\ pos \in 0..Len(file)
  BY <1>1 DEF OptIInv, Types, Passes
<1>3. file \in Seq(Lines) /\ Len(file) \in Nat
  BY <1>2, ContentsAreLines
<1>4. pos \in Nat /\ pos + 1 \in 1..Len(file) /\ TheLine = file[pos + 1]
  BY <1>1, <1>2, <1>3 DEF TheLine
<1>5. TheLine \in Lines
  BY <1>3, <1>4
<1>6. pass \notin unread /\ file = seen[pass]
      /\ Locals(file, pos) /\ OptionsTo(pass, file, pos)
  BY <1>1, <1>2, <1>3 DEF OptIInv, Reading
<1>7. prev_name # Empty <=> Pending(file, pos + 1)
  BY <1>6 DEF Locals
<1>8. TheLine.kind # "more"
  BY <1>5 DEF Lines, Kinds
<1>9. Continues <=> Role(file, pos + 1) = "more"
  BY <1>4, <1>7, <1>8 DEF Continues, Role
<1>10. ~Continues => Role(file, pos + 1) =
         IF TheLine.kind \in {"blank", "comment"} THEN "none" ELSE TheLine.kind
  BY <1>4, <1>7, Zenon DEF Continues, Role
<1> QED
  BY <1>1, <1>2, <1>4, <1>5, <1>6, <1>9, <1>10

\* The invariant after a line, from what the line did to the locals and the
\* options.
LEMMA LineStep ==
  ASSUME OptIInv, ReadLine,
         error' \in 0..Len(file), Locals(file, pos)',
         DOMAIN opt' = Opts, \A o \in Opts : opt'[o] \in Values(o[2]),
         \A q \in 1..4 : \A name \in Stored[q] :
           opt'[<<Sections[q], name>>] =
             IF q = pass /\ Sets(file, pos + 1, Sections[q], name)
             THEN Convert(name, TextOf(file, pos + 1))
             ELSE opt[<<Sections[q], name>>]
  PROVE  OptIInv'
<1>1. /\ pass \in 1..4 /\ pass \notin unread /\ pos \in Nat
      /\ pos < Len(file) /\ file = seen[pass]
      /\ OptionsTo(pass, file, pos)
  BY LineFacts
<1>2. /\ pc = "lines" /\ pos' = pos + 1
      /\ UNCHANGED <<args, argi, config_file, pc, pass, file, engine, seen,
                     unread, upsets>>
  BY DEF ReadLine, histVars
<1>3. ForegroundGiven' = ForegroundGiven
  BY <1>2, UnsetSame
<1>4. Len(file) \in Nat
  BY ContentsAreLines DEF OptIInv, Types
<1>5. Types'
  BY <1>1, <1>2, <1>4 DEF OptIInv, Types
<1>6. Passes'
  BY <1>2 DEF OptIInv, Passes
<1>7. CommandLine'
  BY <1>2 DEF CommandLine
<1>8. ASSUME NEW q \in 1..4, NEW name \in Stored[q], q # pass
      PROVE  opt'[<<Sections[q], name>>] = opt[<<Sections[q], name>>]
  BY <1>8
<1>9. Untouched'
  <2>1. ASSUME NEW q \in 1..4, q > pass
        PROVE  OptionsTo(q, <<>>, 0)'
    <3>1. OptionsTo(q, <<>>, 0)
      BY <2>1 DEF OptIInv, Untouched
    <3>2. q # pass
      BY <1>1, <2>1
    <3> QED
      BY <1>3, <1>8, <3>1, <3>2 DEF OptionsTo, Unset
  <2> QED
    BY <1>2, <2>1 DEF Untouched
<1>10. Reading'
  <2>1. ASSUME NEW name \in Stored[pass]
        PROVE  opt'[<<Sections[pass], name>>] =
                 MeaningTo(file, pos + 1, Sections[pass], name,
                           Unset(<<Sections[pass], name>>))
    <3>1. opt[<<Sections[pass], name>>] =
            MeaningTo(file, pos, Sections[pass], name,
                      Unset(<<Sections[pass], name>>))
      BY <1>1 DEF OptionsTo
    <3>2. opt'[<<Sections[pass], name>>] =
            IF Sets(file, pos + 1, Sections[pass], name)
            THEN Convert(name, TextOf(file, pos + 1))
            ELSE opt[<<Sections[pass], name>>]
      BY <1>1
    <3> QED
      BY <1>1, <3>1, <3>2, MeaningNext
  <2>2. OptionsTo(pass, file, pos)'
    BY <1>2, <1>3, <2>1 DEF OptionsTo, Unset
  <2> QED
    BY <1>1, <1>2, <2>2 DEF Reading
<1>11. SettingsAreTheFiles'
  <2>1. ASSUME NEW p \in 1..4, pass > p, NEW name \in Stored[p]
        PROVE  opt'[<<Sections[p], name>>] =
                 Meaning(seen[p], Sections[p], name,
                         Unset(<<Sections[p], name>>))
    <3>1. opt[<<Sections[p], name>>] =
            Meaning(seen[p], Sections[p], name, Unset(<<Sections[p], name>>))
      BY <2>1 DEF OptIInv, SettingsAreTheFiles
    <3>2. p # pass
      BY <1>1, <2>1
    <3> QED
      BY <1>8, <3>1, <3>2
  <2> QED
    BY <1>2, <1>3, <2>1 DEF SettingsAreTheFiles, Unset
<1>12. StartsIffGood'
  BY <1>2 DEF OptIInv, StartsIffGood
<1>13. EnginesAsConfigured'
  BY <1>2 DEF OptIInv, EnginesAsConfigured
<1> QED
  BY <1>5, <1>6, <1>7, <1>9, <1>10, <1>11, <1>12, <1>13 DEF OptIInv

\* The line's part in the result: the first bad line is kept.
LEMMA ErrorNext ==
  ASSUME NEW F, NEW n \in Nat
  PROVE  (\A i \in 1..(n + 1) : Role(F, i) \notin {"junk", "unclosed"}) <=>
           /\ \A i \in 1..n : Role(F, i) \notin {"junk", "unclosed"}
           /\ Role(F, n + 1) \notin {"junk", "unclosed"}
<1>1. \A i : i \in 1..(n + 1) <=> i \in 1..n \/ i = n + 1
  OBVIOUS
<1> QED
  BY <1>1, Zenon

\* While lines are read the result is 0 or one of them.
LEMMA ErrorBound ==
  ASSUME OptIInv, ReadLine
  PROVE  Len(file) \in Nat /\ pos < Len(file) /\ error \in 0..Len(file)
<1>1. Locals(file, pos) /\ pos < Len(file) /\ Len(file) \in Nat
  BY LineFacts, ContentsAreLines DEF OptIInv, Types
<1>2. error >= 0 /\ error \in -1..Len(file)
  BY <1>1 DEF OptIInv, Types, Locals
<1> QED
  BY <1>1, <1>2

\* Lines that set nothing: blank ones, comments, headers and bad ones.
LEMMA QuietLine ==
  ASSUME OptIInv, ReadLine, opt' = opt,
         Role(file, pos + 1) \notin {"pair", "more"},
         error' \in 0..Len(file), Locals(file, pos)'
  PROVE  OptIInv'
<1>1. DOMAIN opt' = Opts /\ \A o \in Opts : opt'[o] \in Values(o[2])
  BY DEF OptIInv, Types
<1>2. \A sec, name : ~Sets(file, pos + 1, sec, name)
  BY DEF Sets
<1> QED
  BY <1>1, <1>2, LineStep

\* Blank lines and comments.
LEMMA SkipStep ==
  ASSUME OptIInv, ini_skips
  PROVE  OptIInv'
<1>1. /\ ReadLine /\ TheLine.kind \in {"blank", "comment"}
      /\ UNCHANGED <<section, prev_name, error, opt>>
  BY DEF ini_skips
<1>2. /\ pos \in Nat /\ TheLine = file[pos + 1] /\ Locals(file, pos)
      /\ pos' = pos + 1 /\ file' = file
  BY <1>1, LineFacts DEF ReadLine
<1>3. Role(file, pos + 1) = "none" /\ ~Ends(file[pos + 1])
      /\ file[pos + 1].kind # "pair"
  BY <1>1, <1>2 DEF Role, Ends
<1>4. /\ Pending(file, (pos + 1) + 1) <=> Pending(file, pos + 1)
      /\ KeyBefore(file, (pos + 1) + 1, "header") =
           KeyBefore(file, pos + 1, "header")
      /\ KeyBefore(file, (pos + 1) + 1, "pair") =
           KeyBefore(file, pos + 1, "pair")
  BY <1>2, <1>3, PendingNext, KeyNext
<1>5. Locals(file, pos)'
  BY <1>1, <1>2, <1>3, <1>4, ErrorNext DEF Locals
<1>6. error' \in 0..Len(file)
  BY <1>1, <1>2, ErrorBound
<1> QED
  BY <1>1, <1>3, <1>5, <1>6, QuietLine

\* Bad lines.
LEMMA ErrorStep ==
  ASSUME OptIInv, ini_error
  PROVE  OptIInv'
<1>1. /\ ReadLine /\ TheLine.kind \in {"unclosed", "junk"} /\ ~Continues
      /\ error' = IF error = 0 THEN pos + 1 ELSE error
      /\ UNCHANGED <<section, prev_name, opt>>
  BY DEF ini_error
<1>2. /\ pos \in Nat /\ TheLine = file[pos + 1] /\ Locals(file, pos)
      /\ pos' = pos + 1 /\ file' = file
  BY <1>1, LineFacts DEF ReadLine
<1>3. Role(file, pos + 1) \in {"unclosed", "junk"} /\ ~Ends(file[pos + 1])
      /\ file[pos + 1].kind # "pair"
  BY <1>1, <1>2, LineFacts DEF Ends
<1>4. /\ Pending(file, (pos + 1) + 1) <=> Pending(file, pos + 1)
      /\ KeyBefore(file, (pos + 1) + 1, "header") =
           KeyBefore(file, pos + 1, "header")
      /\ KeyBefore(file, (pos + 1) + 1, "pair") =
           KeyBefore(file, pos + 1, "pair")
  BY <1>2, <1>3, PendingNext, KeyNext
<1>5. error' \in 1..Len(file)
  BY <1>1, <1>2, ErrorBound
<1>6. ~\A i \in 1..(pos + 1) : Role(file, i) \notin {"junk", "unclosed"}
  BY <1>2, <1>3, ErrorNext
<1>7. Locals(file, pos)'
  <2>1. section' = KeyBefore(file, (pos + 1) + 1, "header")
    BY <1>1, <1>2, <1>4 DEF Locals
  <2>2. IF Pending(file, (pos + 1) + 1)
        THEN /\ prev_name' = KeyBefore(file, (pos + 1) + 1, "pair")
             /\ prev_name' # Empty
        ELSE prev_name' = Empty
    BY <1>1, <1>2, <1>4 DEF Locals
  <2>3. error' >= 0 /\ error' # 0
    BY <1>5
  <2> QED
    BY <1>2, <1>6, <2>1, <2>2, <2>3 DEF Locals
<1> QED
  BY <1>1, <1>3, <1>5, <1>7, QuietLine

\* Section headers.
LEMMA SectionStep ==
  ASSUME OptIInv, ini_section
  PROVE  OptIInv'
<1>1. /\ ReadLine /\ TheLine.kind = "header" /\ ~Continues
      /\ section' = TheLine.key /\ prev_name' = Empty
      /\ UNCHANGED <<error, opt>>
  BY DEF ini_section
<1>2. /\ pos \in Nat /\ TheLine = file[pos + 1] /\ Locals(file, pos)
      /\ pos' = pos + 1 /\ file' = file
  BY <1>1, LineFacts DEF ReadLine
<1>3. Role(file, pos + 1) = "header" /\ file[pos + 1].kind # "pair"
  BY <1>1, <1>2, LineFacts
<1>4. Pending(file, pos + 1) => Ends(file[pos + 1])
  BY <1>1, <1>2 DEF Continues, Locals, Ends
<1>5. /\ ~Pending(file, (pos + 1) + 1)
      /\ KeyBefore(file, (pos + 1) + 1, "header") = TheLine.key
  BY <1>2, <1>3, <1>4, PendingNext, KeyNext
<1>6. Locals(file, pos)'
  BY <1>1, <1>2, <1>3, <1>5, ErrorNext DEF Locals
<1>7. error' \in 0..Len(file)
  BY <1>1, <1>2, ErrorBound
<1> QED
  BY <1>1, <1>3, <1>6, <1>7, QuietLine

\* Lines for which the handler is called.
LEMMA SetLine ==
  ASSUME OptIInv, ReadLine, NEW nm, NEW text \in Texts \cup {Empty},
         opt' = opt_handler(section, nm, text),
         TextOf(file, pos + 1) = text,
         \A sec, name : Sets(file, pos + 1, sec, name) <=>
           section = sec /\ nm = name /\ text # Empty,
         error' \in 0..Len(file), Locals(file, pos)'
  PROVE  OptIInv'
<1>1. Types /\ pass \in 1..4
  BY LineFacts DEF OptIInv
<1>2. /\ DOMAIN opt' = Opts /\ \A o \in Opts : opt'[o] \in Values(o[2])
      /\ \A q \in 1..4 : \A name \in Stored[q] :
           opt'[<<Sections[q], name>>] =
             IF /\ q = pass /\ section = Sections[pass] /\ nm = name
                /\ text # Empty
             THEN Convert(name, text) ELSE opt[<<Sections[q], name>>]
  BY <1>1, Handler
<1>3. ASSUME NEW q \in 1..4, NEW name \in Stored[q]
      PROVE  opt'[<<Sections[q], name>>] =
               IF q = pass /\ Sets(file, pos + 1, Sections[q], name)
               THEN Convert(name, TextOf(file, pos + 1))
               ELSE opt[<<Sections[q], name>>]
  <2>1. Sets(file, pos + 1, Sections[q], name) <=>
          section = Sections[q] /\ nm = name /\ text # Empty
    OBVIOUS
  <2> QED
    BY <1>2, <2>1, Zenon
<1> QED
  BY <1>2, <1>3, LineStep

\* Names with a value.
LEMMA PairStep ==
  ASSUME OptIInv, ini_pair
  PROVE  OptIInv'
<1>1. /\ ReadLine /\ TheLine.kind = "pair" /\ ~Continues
      /\ prev_name' = TheLine.key
      /\ opt' = opt_handler(section, TheLine.key, TheLine.text)
      /\ UNCHANGED <<section, error>>
  BY DEF ini_pair
<1>2. /\ pos \in Nat /\ TheLine = file[pos + 1] /\ Locals(file, pos)
      /\ pos' = pos + 1 /\ file' = file /\ pass \in 1..4 /\ TheLine \in Lines
  BY <1>1, LineFacts DEF ReadLine
<1>3. Role(file, pos + 1) = "pair"
  BY <1>1, <1>2, LineFacts
<1>4. Pending(file, pos + 1) /\ TheLine.key = Empty => Ends(file[pos + 1])
  BY <1>1, <1>2 DEF Continues, Locals, Ends
<1>5. /\ Pending(file, (pos + 1) + 1) <=> TheLine.key # Empty
      /\ KeyBefore(file, (pos + 1) + 1, "pair") = TheLine.key
      /\ KeyBefore(file, (pos + 1) + 1, "header") =
           KeyBefore(file, pos + 1, "header")
  <2>1. Pending(file, (pos + 1) + 1) <=> TheLine.key # Empty
    BY <1>1, <1>2, <1>4, PendingNext DEF Ends
  <2> QED
    BY <1>2, <1>3, <2>1, KeyNext
<1>6. Locals(file, pos)'
  BY <1>1, <1>2, <1>3, <1>5, ErrorNext DEF Locals
<1>7. error' \in 0..Len(file)
  BY <1>1, <1>2, ErrorBound
<1>8. TheLine.text \in Texts \cup {Empty} /\ Types
  BY <1>2 DEF Lines, OptIInv
<1>9. \A sec, name : Sets(file, pos + 1, sec, name) <=>
        section = sec /\ TheLine.key = name /\ TheLine.text # Empty
  BY <1>2, <1>3 DEF Sets, NameOf, TextOf, Locals
<1>10. TextOf(file, pos + 1) = TheLine.text
  BY <1>2, <1>3 DEF TextOf
<1> QED
  BY <1>1, <1>2, <1>6, <1>7, <1>8, <1>9, <1>10, SetLine, Zenon

\* Lines that continue the value of a name.
LEMMA ContinueStep ==
  ASSUME OptIInv, ini_continues
  PROVE  OptIInv'
<1>1. /\ ReadLine /\ Continues
      /\ opt' = opt_handler(section, prev_name, Whole(TheLine))
      /\ UNCHANGED <<section, prev_name, error>>
  BY DEF ini_continues
<1>2. /\ pos \in Nat /\ TheLine = file[pos + 1] /\ Locals(file, pos)
      /\ pos' = pos + 1 /\ file' = file /\ pass \in 1..4 /\ TheLine \in Lines
  BY <1>1, LineFacts DEF ReadLine
<1>3. Role(file, pos + 1) = "more"
  BY <1>1, LineFacts
<1>4. /\ Pending(file, pos + 1) /\ ~Ends(file[pos + 1])
      /\ prev_name = KeyBefore(file, pos + 1, "pair") /\ prev_name # Empty
  BY <1>1, <1>2 DEF Continues, Locals, Ends
<1>5. /\ Pending(file, (pos + 1) + 1)
      /\ KeyBefore(file, (pos + 1) + 1, "pair") = prev_name
      /\ KeyBefore(file, (pos + 1) + 1, "header") =
           KeyBefore(file, pos + 1, "header")
  BY <1>2, <1>3, <1>4, PendingNext, KeyNext
<1>6. Locals(file, pos)'
  BY <1>1, <1>2, <1>3, <1>4, <1>5, ErrorNext DEF Locals
<1>7. error' \in 0..Len(file)
  BY <1>1, <1>2, ErrorBound
<1>8. Whole(TheLine) \in Texts \cup {Empty} /\ Types
  BY <1>2, OptionsAssumption DEF Lines, OptIInv, Whole
<1>9. TextOf(file, pos + 1) = Whole(TheLine)
  BY <1>2, <1>3 DEF TextOf
<1>10. \A sec, name : Sets(file, pos + 1, sec, name) <=>
         section = sec /\ prev_name = name /\ Whole(TheLine) # Empty
  BY <1>2, <1>3, <1>4, <1>9 DEF Sets, NameOf, Locals
<1> QED
  BY <1>1, <1>2, <1>6, <1>7, <1>8, <1>9, <1>10, SetLine, Zenon

-----------------------------------------------------------------------------
(* The command line.                                                       *)

\* Initially nothing has been read and every option has its default.
LEMMA OptInitIInv == OptInit => OptIInv
<1> SUFFICES ASSUME OptInit PROVE OptIInv
  OBVIOUS
<1>0. /\ args \in Argvs /\ argi = 0 /\ config_file = "default"
      /\ pc = "cli" /\ pass = 1 /\ file \in Files
      /\ pos = 0 /\ section = Empty /\ prev_name = Empty /\ error = 0
      /\ engine \in [2..4 -> {"unset", "failed", "disabled", "on"}]
      /\ seen = <<>> /\ unread = {} /\ upsets = 0
  BY DEF OptInit
<1>1. DOMAIN opt = Opts /\ \A o \in Opts : opt[o] = Default(o[2])
  BY Zenon DEF OptInit
<1>2. \A q \in 1..4 : \A name \in Stored[q] :
        opt[<<Sections[q], name>>] = Default(name)
  BY <1>1, OptsByPass
<1>3. Types
  <2>1. \A o \in Opts : opt[o] \in Values(o[2])
    BY <1>1, DefaultValues
  <2>2. Len(args) \in Nat
    BY <1>0, OptionsAssumption
  <2>3. file \in Contents
    BY <1>0 DEF Contents
  <2>4. Len(file) \in Nat
    BY <2>3, ContentsAreLines
  <2> QED
    BY <1>0, <1>1, <2>1, <2>2, <2>3, <2>4 DEF Types
<1>4. Passes
  BY <1>0 DEF Passes
<1>5. CommandLine
  BY <1>0, <1>2 DEF CommandLine, GivenTo
<1>6. Untouched
  <2>1. ASSUME NEW q \in 1..4, q > 1, NEW name \in Stored[q]
        PROVE  name # "foreground"
    <3>1. q = 2 \/ q = 3 \/ q = 4
      BY <2>1
    <3> QED
      BY <3>1 DEF Stored, logfile_options, syslog_options, sqlite_options
  <2>2. ASSUME NEW q \in 1..4, q > 1 PROVE OptionsTo(q, <<>>, 0)
    BY <1>2, <2>1, <2>2, MeaningEnds DEF OptionsTo, Unset
  <2> QED
    BY <1>0, <2>2 DEF Untouched
<1>7. Reading /\ SettingsAreTheFiles /\ StartsIffGood /\ EnginesAsConfigured
  BY <1>0 DEF Reading, SettingsAreTheFiles, StartsIffGood, EnginesAsConfigured
<1> QED
  BY <1>3, <1>4, <1>5, <1>6, <1>7 DEF OptIInv

\* One more argument: -f counts unless -h came first, which ends the list.
LEMMA GivenNext ==
  ASSUME NEW n \in Nat, args \in Seq(STRING), n < Len(args),
         \A j \in 1..n : args[j] # "-h"
  PROVE  /\ args[n + 1] = "-f" => GivenTo(n + 1)
         /\ args[n + 1] # "-f" => (GivenTo(n + 1) <=> GivenTo(n))
         /\ args[n + 1] = "-h" => (GivenTo(Len(args)) <=> GivenTo(n))
<1>1. \A i : i \in 1..(n + 1) <=> i \in 1..n \/ i = n + 1
  OBVIOUS
<1>2. ASSUME args[n + 1] = "-f" PROVE GivenTo(n + 1)
  <2>1. n + 1 \in 1..(n + 1) /\ \A j \in 1..(n + 1) : args[j] # "-h"
    BY <1>1, <1>2
  <2> QED
    BY <1>2, <2>1, Zenon DEF GivenTo
<1>3. ASSUME args[n + 1] # "-f" PROVE GivenTo(n + 1) <=> GivenTo(n)
  BY <1>1, <1>3, Zenon DEF GivenTo
<1>4. ASSUME args[n + 1] = "-h" PROVE GivenTo(Len(args)) <=> GivenTo(n)
  <2>1. \A i \in 1..Len(args) : i \in 1..n \/ n + 1 \in 1..i
    OBVIOUS
  <2>2. \A i \in 1..n : i \in 1..Len(args)
    OBVIOUS
  <2> QED
    BY <1>4, <2>1, <2>2, Zenon DEF GivenTo
<1> QED
  BY <1>2, <1>3, <1>4

\* An argument.
LEMMA OptionStep ==
  ASSUME OptIInv, parse_option
  PROVE  OptIInv'
<1> DEFINE a == args[argi + 1]
           fg == <<"globals", "foreground">>
<1>1. /\ pc = "cli" /\ argi < Len(args)
      /\ argi' = IF a = "-h" THEN Len(args) ELSE argi + 1
      /\ config_file' = IF a = "-c" THEN "given" ELSE config_file
      /\ opt' = IF a = "-f" THEN [opt EXCEPT ![fg] = 1] ELSE opt
      /\ pc' = IF a \in {"-h", "-c", "-f", "-v"} THEN pc ELSE "failure"
      /\ UNCHANGED <<args, pass, file, pos, section, prev_name, error, engine,
                     seen, unread, upsets>>
  BY DEF parse_option, parseVars, histVars
<1> HIDE DEF a
<1>2. /\ args \in Seq(STRING) /\ Len(args) \in Nat /\ argi \in Nat
      /\ argi + 1 \in 1..Len(args)
  BY <1>1, OptionsAssumption DEF OptIInv, Types
<1>3. pass = 1 /\ seen = <<>>
  BY <1>1 DEF OptIInv, Passes
<1>4. DOMAIN opt = Opts /\ \A o \in Opts : opt[o] \in Values(o[2])
  BY DEF OptIInv, Types
<1>5. fg \in Opts /\ Sections[1] = "globals" /\ fg[2] = "foreground"
      /\ 1 \in Values("foreground")
  <2>1. Sections[1] = "globals" /\ "foreground" \in Stored[1]
    BY DEF Sections, Stored, globals_options
  <2> QED
    BY <2>1, OptsByPass DEF Values, Strings
<1>6. /\ DOMAIN opt' = Opts
      /\ \A o \in Opts : opt'[o] = IF a = "-f" /\ o = fg THEN 1 ELSE opt[o]
  BY <1>1, <1>4, <1>5
<1>7. \A o \in Opts : opt'[o] \in Values(o[2])
  BY <1>4, <1>5, <1>6, Zenon
<1>8. Types'
  BY <1>1, <1>2, <1>6, <1>7 DEF OptIInv, Types
<1>9. Passes'
  BY <1>1, <1>3 DEF OptIInv, Passes
<1>10. ASSUME NEW q \in 1..4, NEW name \in Stored[q]
       PROVE  /\ q # 1 => opt'[<<Sections[q], name>>] =
                            opt[<<Sections[q], name>>]
              /\ q = 1 => opt'[<<Sections[q], name>>] =
                            IF a = "-f" /\ name = "foreground" THEN 1
                            ELSE opt[<<Sections[q], name>>]
  <2>1. <<Sections[q], name>> \in Opts
    BY OptsByPass
  <2>2. <<Sections[q], name>> = fg <=> q = 1 /\ name = "foreground"
    BY <1>5, OptsByPass
  <2> QED
    BY <1>6, <2>1, <2>2
<1>11. CommandLine'
  <2> SUFFICES ASSUME pc' = "cli" PROVE CommandLine'
    BY DEF CommandLine
  <2>1. \A j \in 1..argi : args[j] # "-h"
    BY <1>1 DEF OptIInv, CommandLine
  <2>2. /\ a = "-f" => GivenTo(argi + 1)
        /\ a # "-f" => (GivenTo(argi + 1) <=> GivenTo(argi))
        /\ a = "-h" => (GivenTo(Len(args)) <=> GivenTo(argi))
    BY <1>1, <1>2, <2>1, GivenNext DEF a
  <2>3. GivenTo(argi)' <=> a = "-f" \/ GivenTo(argi)
    <3>1. GivenTo(argi)' <=> IF a = "-h" THEN GivenTo(Len(args))
                             ELSE GivenTo(argi + 1)
      BY <1>1 DEF GivenTo
    <3> QED
      BY <2>2, <3>1
  <2>4. argi' < Len(args)' => \A j \in 1..argi' : args'[j] # "-h"
    BY <1>1, <1>2, <2>1 DEF a
  <2>5. ASSUME NEW name \in Stored[1]
        PROVE  opt'[<<Sections[1], name>>] =
                 IF name = "foreground" /\ GivenTo(argi)' THEN 1
                 ELSE Default(name)
    <3>1. opt[<<Sections[1], name>>] =
            IF name = "foreground" /\ GivenTo(argi) THEN 1 ELSE Default(name)
      BY <1>1 DEF OptIInv, CommandLine
    <3>2. opt'[<<Sections[1], name>>] =
            IF a = "-f" /\ name = "foreground" THEN 1
            ELSE opt[<<Sections[1], name>>]
      BY <1>10
    <3> QED
      BY <2>3, <3>1, <3>2
  <2> QED
    BY <2>4, <2>5 DEF CommandLine
<1>12. Untouched'
  <2>1. ForegroundGiven' = ForegroundGiven
    BY <1>1, UnsetSame
  <2>2. ASSUME NEW q \in 1..4, q > 1 PROVE OptionsTo(q, <<>>, 0)'
    <3>1. OptionsTo(q, <<>>, 0) /\ q # 1
      BY <1>3, <2>2 DEF OptIInv, Untouched
    <3> QED
      BY <1>10, <2>1, <3>1 DEF OptionsTo, Unset
  <2> QED
    BY <1>1, <1>3, <2>2 DEF Untouched
<1>13. StartsIffGood'
  BY <1>1, <1>2, <1>3 DEF StartsIffGood, a
<1>14. Reading' /\ SettingsAreTheFiles' /\ EnginesAsConfigured'
  BY <1>1, <1>3 DEF Reading, SettingsAreTheFiles, EnginesAsConfigured
<1> QED
  BY <1>8, <1>9, <1>11, <1>12, <1>13, <1>14 DEF OptIInv

\* The end of the command line.
LEMMA CliStep ==
  ASSUME OptIInv, parse_cli_returns
  PROVE  OptIInv'
<1>1. /\ pc = "cli" /\ argi = Len(args) /\ pc' = "open"
      /\ UNCHANGED <<args, argi, config_file, pass, file, pos, section,
                     prev_name, error, opt, engine, seen, unread, upsets>>
  BY DEF parse_cli_returns, parseVars, histVars
<1>2. pass = 1 /\ seen = <<>> /\ Len(seen) = 0
  BY <1>1 DEF OptIInv, Passes
<1>3. ForegroundGiven' = ForegroundGiven
  BY <1>1, UnsetSame
<1>4. Types'
  BY <1>1 DEF OptIInv, Types
<1>5. Passes'
  <2>1. Len(seen) = pass - 1 /\ pass <= 4
    BY <1>2
  <2>2. pc' \notin {"cli", "failure", "lines", "started"}
    BY <1>1
  <2> QED
    BY <1>1, <2>1, <2>2 DEF OptIInv, Passes
<1>6. OptionsTo(1, <<>>, 0)
  <2>1. GivenTo(argi) <=> ForegroundGiven
    BY <1>1 DEF GivenTo, ForegroundGiven
  <2>2. \A name \in Stored[1] :
          opt[<<Sections[1], name>>] = Unset(<<Sections[1], name>>)
    BY <1>1, <2>1 DEF OptIInv, CommandLine, Unset
  <2> QED
    BY <2>2, MeaningEnds DEF OptionsTo
<1>7. Untouched'
  <2>1. ASSUME NEW q \in 1..4 PROVE OptionsTo(q, <<>>, 0)'
    <3>1. OptionsTo(q, <<>>, 0)
      BY <1>2, <1>6 DEF OptIInv, Untouched
    <3> QED
      BY <1>1, <1>3, <3>1 DEF OptionsTo, Unset
  <2> QED
    BY <2>1 DEF Untouched
<1>8. CommandLine' /\ StartsIffGood' /\ Reading' /\ SettingsAreTheFiles'
      /\ EnginesAsConfigured'
  BY <1>1, <1>2 DEF CommandLine, StartsIffGood, Reading, SettingsAreTheFiles,
     EnginesAsConfigured
<1> QED
  BY <1>4, <1>5, <1>7, <1>8 DEF OptIInv

=============================================================================
