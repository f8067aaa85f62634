---------------------------- MODULE OptionsProofs ----------------------------
(***************************************************************************)
(* Proofs about the reading of the options, for all files, command lines   *)
(* and numbers of upsets: the beginning and the end of each pass, and the  *)
(* theorems.                                                               *)
(***************************************************************************)
EXTENDS OptionsLineProofs, TLAPS

-----------------------------------------------------------------------------
(* A pass begins.                                                          *)

\* A pass that has just read C, or nothing, leaves the settled ones alone.
LEMMA PassBegins ==
  ASSUME OptIInv, pc = "open", pc' = "lines", NEW C \in Contents,
         seen' = Append(seen, C),
         unread' = unread \/ unread' = unread \cup {pass},
         upsets' = 0 => upsets = 0,
         UNCHANGED <<args, pass, opt, engine>>
  PROVE  /\ pass \in 1..4 /\ pass \notin unread
         /\ seen' \in Seq(Contents) /\ Len(seen') = pass /\ seen'[pass] = C
         /\ \A p \in 1..(pass - 1) : seen'[p] = seen[p]
         /\ OptionsTo(pass, <<>>, 0)'
         /\ CommandLine' /\ Untouched'
         /\ SettingsAreTheFiles' /\ StartsIffGood' /\ EnginesAsConfigured'
<1>1. pass \in 1..4 /\ seen \in Seq(Contents) /\ Len(seen) = pass - 1
  BY DEF OptIInv, Types, Passes
<1>2. pass \notin unread /\ \A p \in unread : p \in 1..4
  BY <1>1 DEF OptIInv, Types, Passes
<1>3. /\ seen' \in Seq(Contents) /\ Len(seen') = pass /\ seen'[pass] = C
      /\ \A p \in 1..(pass - 1) : seen'[p] = seen[p]
  BY <1>1
<1>4. ForegroundGiven' = ForegroundGiven
  BY UnsetSame
<1>5. ASSUME NEW q \in 1..4, OptionsTo(q, <<>>, 0)
      PROVE  OptionsTo(q, <<>>, 0)'
  BY <1>4, <1>5 DEF OptionsTo, Unset
<1>6. OptionsTo(pass, <<>>, 0)
  BY <1>1 DEF OptIInv, Untouched
<1>7. OptionsTo(pass, <<>>, 0)'
  BY <1>4, <1>6 DEF OptionsTo, Unset
<1>8. CommandLine'
  BY DEF CommandLine
<1>9. Untouched'
  <2>1. ASSUME NEW q \in 1..4, q > pass PROVE OptionsTo(q, <<>>, 0)'
    BY <1>5, <2>1 DEF OptIInv, Untouched
  <2> QED
    BY <2>1 DEF Untouched
<1>10. \A p \in 1..4 : pass > p =>
         seen'[p] = seen[p] /\ (p \in unread' <=> p \in unread)
  BY <1>1, <1>3
<1>11. SettingsAreTheFiles'
  BY <1>4, <1>10 DEF OptIInv, SettingsAreTheFiles, Unset
<1>12. StartsIffGood'
  <2>1. pass > 1 => Good(seen'[1]) /\ 1 \notin unread'
    BY <1>1, <1>10 DEF OptIInv, StartsIffGood
  <2> QED
    BY <2>1 DEF StartsIffGood
<1>13. EnginesAsConfigured'
  <2>1. \A p \in 2..4 : p \in 1..4
    OBVIOUS
  <2> QED
    BY <1>10, <2>1, Zenon DEF OptIInv, EnginesAsConfigured
<1> QED
  BY <1>1, <1>2, <1>3, <1>7, <1>8, <1>9, <1>11, <1>12, <1>13

\* The file is opened.
LEMMA OpenStep ==
  ASSUME OptIInv, ini_opens
  PROVE  OptIInv'
<1>1. /\ pc = "open" /\ pc' = "lines" /\ seen' = Append(seen, file)
      /\ UNCHANGED <<args, argi, config_file, pass, file, pos, section,
                     prev_name, error, opt, engine, unread, upsets>>
  BY DEF ini_opens, parseVars
<1>2. file \in Contents
  BY DEF OptIInv, Types
<1>3. /\ pass \in 1..4 /\ pass \notin unread
      /\ seen' \in Seq(Contents) /\ Len(seen') = pass /\ seen'[pass] = file
      /\ \A p \in 1..(pass - 1) : seen'[p] = seen[p]
      /\ OptionsTo(pass, <<>>, 0)'
      /\ CommandLine' /\ Untouched'
      /\ SettingsAreTheFiles' /\ StartsIffGood' /\ EnginesAsConfigured'
  BY <1>1, <1>2, PassBegins
<1>4. Types'
  BY <1>1, <1>3 DEF OptIInv, Types
<1>5. Len(seen) = pass - 1 /\ pos = 0 /\ section = Empty /\ prev_name = Empty
      /\ error = 0
  BY <1>1 DEF OptIInv, Passes
<1>6. Passes'
  <2>1. \A p \in unread : p \in 1..(pass - 1) /\ seen'[p] = <<>>
    BY <1>3, <1>5 DEF OptIInv, Types, Passes
  <2>2. upsets = 0 => unread = {} /\ \A p \in 1..pass : seen'[p] = file
    BY <1>3, <1>5 DEF OptIInv, Passes
  <2> QED
    BY <1>1, <1>3, <2>1, <2>2 DEF Passes
<1>7. Reading'
  <2>1. Locals(file, pos)'
    <3>1. ~Pending(file, 0 + 1) /\ KeyBefore(file, 0 + 1, "header") = Empty
      BY NothingRead
    <3>2. \A i \in 1..0 : Role(file, i) \notin {"junk", "unclosed"}
      OBVIOUS
    <3>3. error' >= 0
      BY <1>1, <1>5
    <3> QED
      BY <1>1, <1>5, <3>1, <3>2, <3>3, Zenon DEF Locals
  <2>2. OptionsTo(pass, file, pos)'
    BY <1>1, <1>3, <1>5, MeaningEnds DEF OptionsTo
  <2> QED
    BY <1>1, <1>3, <2>1, <2>2 DEF Reading
<1> QED
  BY <1>3, <1>4, <1>6, <1>7 DEF OptIInv

\* The file cannot be opened.
LEMMA CannotOpenStep ==
  ASSUME OptIInv, ini_cannot_open
  PROVE  OptIInv'
<1>1. /\ pc = "open" /\ pc' = "lines" /\ seen' = Append(seen, <<>>)
      /\ upsets' = upsets + 1 /\ error' = -1 /\ pos' = Len(file)
      /\ unread' = unread \cup {pass}
      /\ UNCHANGED <<args, argi, config_file, pass, file, section,
                     prev_name, opt, engine>>
  BY DEF ini_cannot_open, Upset
<1>2. <<>> \in Contents /\ upsets' # 0 /\ Len(file) \in Nat
  BY <1>1, ContentsAreLines DEF OptIInv, Types, Contents
<1>3. /\ pass \in 1..4 /\ pass \notin unread
      /\ seen' \in Seq(Contents) /\ Len(seen') = pass /\ seen'[pass] = <<>>
      /\ \A p \in 1..(pass - 1) : seen'[p] = seen[p]
      /\ OptionsTo(pass, <<>>, 0)'
      /\ CommandLine' /\ Untouched'
      /\ SettingsAreTheFiles' /\ StartsIffGood' /\ EnginesAsConfigured'
  BY <1>1, <1>2, PassBegins
<1>4. Types'
  BY <1>1, <1>2, <1>3 DEF OptIInv, Types
<1>5. Len(seen) = pass - 1
  BY <1>1 DEF OptIInv, Passes
<1>6. Passes'
  <2>1. \A p \in unread : p \in 1..(pass - 1) /\ seen'[p] = <<>>
    BY <1>3, <1>5 DEF OptIInv, Types, Passes
  <2>2. \A p \in unread' : p <= pass /\ seen'[p] = <<>>
    BY <1>1, <1>3, <2>1
  <2> QED
    <3>1. pc' \notin {"cli", "failure", "open", "started"} /\ pass' <= 4
      BY <1>1, <1>3
    <3> QED
      BY <1>1, <1>2, <1>3, <2>2, <3>1, Zenon DEF Passes
<1>7. Reading'
  BY <1>1, <1>3 DEF Reading
<1> QED
  BY <1>3, <1>4, <1>6, <1>7 DEF OptIInv

\* The file is replaced between two passes.
LEMMA EditStep ==
  ASSUME OptIInv, file_edited
  PROVE  OptIInv'
<1>1. /\ pc = "open" /\ upsets' = upsets + 1 /\ file' \in Edits
      /\ UNCHANGED <<args, argi, config_file, pc, pass, pos, section,
                     prev_name, error, opt, engine, seen, unread>>
  BY DEF file_edited, Upset, parseVars, histVars
<1>2. pos = 0 /\ error = 0 /\ upsets' # 0 /\ upsets' \in Nat
  BY <1>1 DEF OptIInv, Types, Passes
<1>3. file' \in Contents /\ Len(file') \in Nat
  BY <1>1, ContentsAreLines DEF Contents
<1>4. Types'
  BY <1>1, <1>2, <1>3 DEF OptIInv, Types
<1>5. Passes'
  BY <1>1, <1>2 DEF OptIInv, Passes
<1>6. CommandLine' /\ Reading'
  BY <1>1 DEF CommandLine, Reading
<1>7. ForegroundGiven' = ForegroundGiven
  BY <1>1, UnsetSame
<1>8. Untouched'
  BY <1>1, <1>7 DEF OptIInv, Untouched, OptionsTo, Unset
<1>9. SettingsAreTheFiles'
  BY <1>1, <1>7 DEF OptIInv, SettingsAreTheFiles, Unset
<1>10. StartsIffGood'
  BY <1>1 DEF OptIInv, StartsIffGood
<1>11. EnginesAsConfigured'
  BY <1>1, <1>2 DEF OptIInv, EnginesAsConfigured
<1> QED
  BY <1>4, <1>5, <1>6, <1>8, <1>9, <1>10, <1>11 DEF OptIInv

-----------------------------------------------------------------------------
(* A pass ends.                                                            *)

\* ini_parse has returned: its options are what the file it saw means, and its
\* result tells whether that was read and is good.
LEMMA ReadDone ==
  ASSUME OptIInv, NEW p \in 1..4, Returned(p)
  PROVE  /\ pc = "lines" /\ pass = p /\ seen \in Seq(Contents) /\ Len(seen) = p
         /\ \A name \in Stored[p] :
              opt[<<Sections[p], name>>] =
                Meaning(seen[p], Sections[p], name,
                        Unset(<<Sections[p], name>>))
         /\ error = 0 <=> p \notin unread /\ Good(seen[p])
<1>1. pc = "lines" /\ pass = p /\ pos = Len(file)
  BY DEF Returned
<1>2. seen \in Seq(Contents) /\ Len(seen) = p
  BY <1>1 DEF OptIInv, Types, Passes
<1>3. CASE p \in unread
  <2>1. error = -1 /\ OptionsTo(p, <<>>, 0) /\ seen[p] = <<>>
    BY <1>1, <1>3 DEF OptIInv, Reading, Passes
  <2>2. error # 0
    BY <2>1
  <2> QED
    BY <1>1, <1>2, <1>3, <2>1, <2>2, MeaningEnds, MeaningEmpty DEF OptionsTo
<1>4. CASE p \notin unread
  <2>1. file = seen[p] /\ Locals(file, Len(file))
        /\ OptionsTo(p, file, Len(file))
    BY <1>1, <1>4 DEF OptIInv, Reading
  <2>2. error = 0 <=> Good(seen[p])
    BY <2>1 DEF Locals, Good
  <2>3. \A name \in Stored[p] :
          opt[<<Sections[p], name>>] =
            Meaning(seen[p], Sections[p], name, Unset(<<Sections[p], name>>))
    BY <2>1, MeaningEnds DEF OptionsTo
  <2> QED
    BY <1>1, <1>2, <1>4, <2>2, <2>3
<1> QED
  BY <1>3, <1>4

\* What every pass that ends well leaves.
LEMMA PassEnds ==
  ASSUME OptIInv, NEW p \in 1..4, Returned(p), NextPass,
         p = 1 => error = 0,
         engine' \in [2..4 -> {"unset", "failed", "disabled", "on"}],
         upsets' \in Nat, upsets' = 0 => upsets = 0
  PROVE  /\ Types' /\ Passes' /\ CommandLine' /\ Untouched' /\ Reading'
         /\ SettingsAreTheFiles' /\ StartsIffGood'
<1>1. /\ pc = "lines" /\ pass = p /\ seen \in Seq(Contents) /\ Len(seen) = p
      /\ \A name \in Stored[p] :
           opt[<<Sections[p], name>>] =
             Meaning(seen[p], Sections[p], name, Unset(<<Sections[p], name>>))
      /\ error = 0 <=> p \notin unread /\ Good(seen[p])
  BY ReadDone
<1>2. /\ pass' = p + 1 /\ pc' = (IF p = 4 THEN "started" ELSE "open")
      /\ pos' = 0 /\ section' = Empty /\ prev_name' = Empty /\ error' = 0
      /\ UNCHANGED <<args, argi, config_file, file, opt, seen, unread>>
  BY <1>1 DEF NextPass, histVars
<1>3. Len(file) \in Nat
  BY ContentsAreLines DEF OptIInv, Types
<1>4. ForegroundGiven' = ForegroundGiven
  BY <1>2, UnsetSame
<1>5. Types'
  BY <1>2, <1>3 DEF OptIInv, Types
<1>6. Passes'
  <2>1. \A q \in unread : q <= Len(seen) /\ seen[q] = <<>>
    BY DEF OptIInv, Passes
  <2>2. upsets' = 0 => unread = {} /\ \A q \in 1..Len(seen) : seen[q] = file
    BY DEF OptIInv, Passes
  <2>3. /\ pc' \notin {"cli", "failure", "lines"}
        /\ pc' = "open" => Len(seen) = pass' - 1
        /\ pc' = "started" => pass' = 5 /\ Len(seen) = 4
        /\ pc' # "started" => pass' <= 4
    BY <1>1, <1>2
  <2> QED
    BY <1>2, <2>1, <2>2, <2>3, Zenon DEF Passes
<1>7. CommandLine' /\ Reading'
  BY <1>2 DEF CommandLine, Reading
<1>8. Untouched'
  <2>1. ASSUME NEW q \in 1..4, q > p PROVE OptionsTo(q, <<>>, 0)'
    <3>1. OptionsTo(q, <<>>, 0)
      BY <1>1, <2>1 DEF OptIInv, Untouched
    <3> QED
      BY <1>2, <1>4, <3>1 DEF OptionsTo, Unset
  <2>2. \A q \in 1..4 : q > pass' \/ q = pass' => q > p
    BY <1>2
  <2> QED
    BY <2>1, <2>2, Zenon DEF Untouched
<1>9. SettingsAreTheFiles'
  <2>1. ASSUME NEW q \in 1..4, pass' > q, NEW name \in Stored[q]
        PROVE  opt[<<Sections[q], name>>] =
                 Meaning(seen[q], Sections[q], name,
                         Unset(<<Sections[q], name>>))
    <3>1. q = p \/ pass > q
      BY <1>1, <1>2, <2>1
    <3> QED
      BY <1>1, <3>1 DEF OptIInv, SettingsAreTheFiles
  <2> QED
    BY <1>2, <1>4, <2>1 DEF SettingsAreTheFiles, Unset
<1>10. StartsIffGood'
  <2>1. Good(seen[1]) /\ 1 \notin unread
    <3>1. p = 1 \/ pass > 1
      BY <1>1
    <3> QED
      BY <1>1, <3>1 DEF OptIInv, StartsIffGood
  <2> QED
    BY <1>2, <2>1 DEF StartsIffGood
<1> QED
  BY <1>5, <1>6, <1>7, <1>8, <1>9, <1>10

\* main() has read its section.
LEMMA ConfigStep ==
  ASSUME OptIInv, parse_config_file
  PROVE  OptIInv'
<1>1. Returned(1) /\ UNCHANGED <<engine, upsets>>
  BY DEF parse_config_file
<1>2. /\ pc = "lines" /\ pass = 1 /\ Len(seen) = 1 /\ seen \in Seq(Contents)
      /\ error = 0 <=> 1 \notin unread /\ Good(seen[1])
  BY <1>1, ReadDone
<1>3. CASE error = 0
  <2>1. NextPass
    BY <1>3 DEF parse_config_file
  <2>2. upsets \in Nat
        /\ engine \in [2..4 -> {"unset", "failed", "disabled", "on"}]
    BY DEF OptIInv, Types
  <2>3. /\ Types' /\ Passes' /\ CommandLine' /\ Untouched' /\ Reading'
        /\ SettingsAreTheFiles' /\ StartsIffGood'
    BY <1>1, <1>3, <2>1, <2>2, PassEnds
  <2>4. pass' = 2
    BY <1>2, <2>1 DEF NextPass
  <2>5. EnginesAsConfigured'
    BY <2>4 DEF EnginesAsConfigured
  <2> QED
    BY <2>3, <2>5 DEF OptIInv
<1>4. CASE error # 0
  <2>1. /\ pc' = "failure"
        /\ UNCHANGED <<args, argi, config_file, pass, file, pos, section,
                       prev_name, error, opt, seen, unread>>
    BY <1>4 DEF parse_config_file, parseVars, histVars
  <2>2. ForegroundGiven' = ForegroundGiven
    BY <2>1, UnsetSame
  <2>3. Types'
    BY <1>1, <2>1 DEF OptIInv, Types
  <2>4. Passes'
    BY <1>1, <1>2, <2>1 DEF OptIInv, Passes
  <2>5. Untouched'
    BY <1>2, <2>1, <2>2 DEF OptIInv, Untouched, OptionsTo, Unset
  <2>6. StartsIffGood'
    <3>1. seen # <<>> /\ (~Good(seen[1]) \/ 1 \in unread)
      BY <1>2, <1>4
    <3> QED
      BY <1>2, <2>1, <3>1 DEF StartsIffGood
  <2>7. CommandLine' /\ Reading' /\ SettingsAreTheFiles'
        /\ EnginesAsConfigured'
    BY <1>2, <2>1 DEF CommandLine, Reading, SettingsAreTheFiles,
       EnginesAsConfigured
  <2> QED
    BY <2>3, <2>4, <2>5, <2>6, <2>7 DEF OptIInv
<1> QED
  BY <1>3, <1>4

\* What is needed of the file for a back end to run.
Off(F, p) == Meaning(F, Sections[p], "disabled", 0) = 1
Bare(F, p) == \/ p = 2 /\ Meaning(F, "logfile", "logfile", Empty) = Empty
              \/ p = 4 /\ Meaning(F, "sqlite3", "dbfile", Empty) = Empty

\* What the options of a back end say of it, once they are read.
LEMMA EngineOptions ==
  ASSUME OptIInv, NEW p \in 2..4, Returned(p)
  PROVE  /\ opt[<<Sections[p], "disabled">>] = 1 <=> Off(seen[p], p)
         /\ p = 2 => (opt[<<"logfile", "logfile">>] = Empty <=>
                        Bare(seen[p], p))
         /\ p = 3 => ~Bare(seen[p], p)
         /\ p = 4 => (opt[<<"sqlite3", "dbfile">>] = Empty <=>
                        Bare(seen[p], p))
<1>1. \A name \in Stored[p] :
        opt[<<Sections[p], name>>] =
          Meaning(seen[p], Sections[p], name, Unset(<<Sections[p], name>>))
  BY ReadDone
<1>2. p = 2 \/ p = 3 \/ p = 4
  OBVIOUS
<1>3. /\ "disabled" \in Stored[p] /\ "logfile" \in Stored[2]
      /\ "dbfile" \in Stored[4]
      /\ Sections[2] = "logfile" /\ Sections[4] = "sqlite3"
  BY <1>2 DEF Stored, logfile_options, syslog_options, sqlite_options, Sections
<1>4. /\ Default("disabled") = 0 /\ Default("logfile") = Empty
      /\ Default("dbfile") = Empty
  BY Zenon DEF Default, Strings
<1>5. \A sec : /\ Unset(<<sec, "disabled">>) = 0
               /\ Unset(<<sec, "logfile">>) = Empty
               /\ Unset(<<sec, "dbfile">>) = Empty
  BY <1>4 DEF Unset
<1>6. opt[<<Sections[p], "disabled">>] =
        Meaning(seen[p], Sections[p], "disabled", 0)
  BY <1>1, <1>3, <1>5
<1>7. p = 2 => opt[<<"logfile", "logfile">>] =
                 Meaning(seen[p], "logfile", "logfile", Empty)
  BY <1>1, <1>3, <1>5
<1>8. p = 4 => opt[<<"sqlite3", "dbfile">>] =
                 Meaning(seen[p], "sqlite3", "dbfile", Empty)
  BY <1>1, <1>3, <1>5
<1> QED
  BY <1>2, <1>6, <1>7, <1>8 DEF Off, Bare

\* A back end's init: `missing' is what it tests before it starts.
LEMMA EngineStep ==
  ASSUME OptIInv, NEW p \in 2..4, Returned(p), NextPass,
         NEW missing \in BOOLEAN, missing <=> Bare(seen[p], p),
         NEW on, engine' = [engine EXCEPT ![p] = on],
         \/ on = Outcome(missing) /\ upsets' = upsets
         \/ on = "failed" /\ upsets' = upsets + 1
  PROVE  OptIInv'
<1>1. /\ pc = "lines" /\ pass = p /\ seen \in Seq(Contents) /\ Len(seen) = p
      /\ error = 0 <=> p \notin unread /\ Good(seen[p])
  <2>1. p \in 1..4
    OBVIOUS
  <2> QED
    BY <2>1, ReadDone, Zenon
<1>2. opt[<<Sections[p], "disabled">>] = 1 <=> Off(seen[p], p)
  BY EngineOptions
<1>3. /\ upsets \in Nat
      /\ engine \in [2..4 -> {"unset", "failed", "disabled", "on"}]
  BY DEF OptIInv, Types
<1>4. Outcome(missing) =
        IF error # 0 THEN "failed"
        ELSE IF Off(seen[p], p) THEN "disabled"
        ELSE IF missing THEN "failed" ELSE "on"
  BY <1>1, <1>2, Zenon DEF Outcome
<1>5. on \in {"failed", "disabled", "on"}
  BY <1>4
<1>6. /\ engine' \in [2..4 -> {"unset", "failed", "disabled", "on"}]
      /\ engine'[p] = on /\ \A q \in 2..4 : q # p => engine'[q] = engine[q]
  BY <1>3, <1>5
<1>7. upsets' \in Nat /\ (upsets' = 0 => upsets = 0)
  BY <1>3
<1>8. /\ Types' /\ Passes' /\ CommandLine' /\ Untouched' /\ Reading'
      /\ SettingsAreTheFiles' /\ StartsIffGood'
  BY <1>6, <1>7, PassEnds
<1>9. pass' = p + 1 /\ UNCHANGED <<seen, unread>>
  BY <1>1 DEF NextPass, histVars
<1>10. on = "on" => Good(seen[p]) /\ p \notin unread
                    /\ ~Off(seen[p], p) /\ ~Bare(seen[p], p)
  BY <1>1, <1>4
<1>11. upsets' = 0 => (on = "on" <=> ~Off(seen[p], p) /\ ~Bare(seen[p], p))
  <2> SUFFICES ASSUME upsets' = 0
               PROVE  on = "on" <=> ~Off(seen[p], p) /\ ~Bare(seen[p], p)
    OBVIOUS
  <2>1. upsets = 0 /\ on = Outcome(missing)
    BY <1>3, <1>7
  <2>2. unread = {} /\ seen[p] = file /\ seen[1] = file
    BY <1>1, <2>1 DEF OptIInv, Passes
  <2>3. Good(seen[1])
    BY <1>1 DEF OptIInv, StartsIffGood
  <2>4. error = 0
    BY <1>1, <2>2, <2>3
  <2> QED
    BY <1>4, <2>1, <2>4
<1>12. EnginesAsConfigured'
  <2>1. ASSUME NEW q \in 2..4, pass' > q
        PROVE  /\ engine'[q] = "on" => /\ Good(seen[q]) /\ q \notin unread
                                       /\ ~Off(seen[q], q) /\ ~Bare(seen[q], q)
               /\ upsets' = 0 => (engine'[q] = "on" <=>
                                    ~Off(seen[q], q) /\ ~Bare(seen[q], q))
    <3>1. CASE q = p
      BY <1>6, <1>10, <1>11, <3>1
    <3>2. CASE q # p
      <4>1. pass > q
        BY <1>1, <1>9, <2>1, <3>2
      <4>2. engine'[q] = engine[q]
        BY <1>6, <3>2
      <4> QED
        BY <1>7, <4>1, <4>2 DEF OptIInv, EnginesAsConfigured, Off, Bare
    <3> QED
      BY <3>1, <3>2
  <2> QED
    BY <1>9, <2>1 DEF EnginesAsConfigured, Off, Bare
<1> QED
  BY <1>8, <1>12 DEF OptIInv

\* The three inits: each tests the path it needs.
LEMMA InitSteps ==
  ASSUME OptIInv, logfile_init \/ syslog_init \/ logsqlite_init
  PROVE  OptIInv'
<1>1. ASSUME logfile_init PROVE OptIInv'
  <2> DEFINE missing == opt[<<"logfile", "logfile">>] = Empty
  <2>1. Returned(2) /\ NextPass
    BY <1>1 DEF logfile_init
  <2>2. missing \in BOOLEAN /\ (missing <=> Bare(seen[2], 2))
    BY <2>1, EngineOptions
  <2>3. \/ /\ engine' = [engine EXCEPT ![2] = Outcome(missing)]
           /\ upsets' = upsets
        \/ engine' = [engine EXCEPT ![2] = "failed"] /\ upsets' = upsets + 1
    BY <1>1 DEF logfile_init, Upset
  <2> HIDE DEF missing
  <2> QED
    BY <2>1, <2>2, <2>3, EngineStep
<1>2. ASSUME syslog_init PROVE OptIInv'
  <2> DEFINE on == Outcome(FALSE)
  <2>1. Returned(3) /\ NextPass /\ upsets' = upsets
        /\ engine' = [engine EXCEPT ![3] = on]
    BY <1>2 DEF syslog_init
  <2>2. FALSE <=> Bare(seen[3], 3)
    BY <2>1, EngineOptions
  <2>3. 3 \in 2..4 /\ on = Outcome(FALSE)
    OBVIOUS
  <2> HIDE DEF on
  <2> QED
    BY <2>1, <2>2, <2>3, EngineStep
<1>3. ASSUME logsqlite_init PROVE OptIInv'
  <2> DEFINE missing == opt[<<"sqlite3", "dbfile">>] = Empty
             on == Outcome(missing)
  <2>1. Returned(4) /\ NextPass /\ upsets' = upsets
        /\ engine' = [engine EXCEPT ![4] = on]
    BY <1>3 DEF logsqlite_init
  <2>2. missing \in BOOLEAN /\ (missing <=> Bare(seen[4], 4))
    BY <2>1, EngineOptions
  <2>3. 4 \in 2..4 /\ on = Outcome(missing)
    OBVIOUS
  <2> HIDE DEF missing, on
  <2> QED
    BY <2>1, <2>2, <2>3, EngineStep
<1> QED
  BY <1>1, <1>2, <1>3

\* Nothing happens.
LEMMA OptStutter ==
  ASSUME OptIInv, UNCHANGED optVars
  PROVE  OptIInv'
<1>1. UNCHANGED <<args, argi, config_file, pc, pass, file, pos, section,
                  prev_name, error, opt, engine, seen, unread, upsets>>
  BY DEF optVars, parseVars, histVars
<1>2. ForegroundGiven' = ForegroundGiven
  BY <1>1, UnsetSame
<1>3. Types' /\ Passes'
  BY <1>1 DEF OptIInv, Types, Passes
<1>4. CommandLine'
  BY <1>1 DEF OptIInv, CommandLine, GivenTo
<1>5. Untouched'
  BY <1>1, <1>2 DEF OptIInv, Untouched, OptionsTo, Unset
<1>6. Reading'
  BY <1>1, <1>2 DEF OptIInv, Reading, Locals, OptionsTo, Unset
<1>7. SettingsAreTheFiles'
  BY <1>1, <1>2 DEF OptIInv, SettingsAreTheFiles, Unset
<1>8. StartsIffGood' /\ EnginesAsConfigured'
  BY <1>1 DEF OptIInv, StartsIffGood, EnginesAsConfigured
<1> QED
  BY <1>3, <1>4, <1>5, <1>6, <1>7, <1>8 DEF OptIInv

-----------------------------------------------------------------------------
(* The theorems.                                                           *)

\* The invariant is one.
LEMMA OptInvariant == OptSpec => []OptIInv
<1>1. OptInit => OptIInv
  BY OptInitIInv
<1>2. OptIInv /\ [OptNext]_optVars => OptIInv'
  <2> SUFFICES ASSUME OptIInv, [OptNext]_optVars PROVE OptIInv'
    OBVIOUS
  <2>1. CASE parse_option
    BY <2>1, OptionStep
  <2>2. CASE parse_cli_returns
    BY <2>2, CliStep
  <2>3. CASE ini_opens
    BY <2>3, OpenStep
  <2>4. CASE ini_cannot_open
    BY <2>4, CannotOpenStep
  <2>5. CASE ini_skips
    BY <2>5, SkipStep
  <2>6. CASE ini_continues
    BY <2>6, ContinueStep
  <2>7. CASE ini_section
    BY <2>7, SectionStep
  <2>8. CASE ini_pair
    BY <2>8, PairStep
  <2>9. CASE ini_error
    BY <2>9, ErrorStep
  <2>10. CASE parse_config_file
    BY <2>10, ConfigStep
  <2>11. CASE logfile_init \/ syslog_init \/ logsqlite_init
    BY <2>11, InitSteps
  <2>12. CASE file_edited
    BY <2>12, EditStep
  <2>13. CASE UNCHANGED optVars
    BY <2>13, OptStutter
  <2> QED
    BY <2>1, <2>2, <2>3, <2>4, <2>5, <2>6, <2>7, <2>8, <2>9, <2>10, <2>11,
       <2>12, <2>13, Zenon DEF OptNext
<1> QED
  BY <1>1, <1>2, PTL DEF OptSpec

\* The variables keep their types and a flag is 0 or 1, whatever the files and
\* the command line hold (the opt_handlers, pdns-logger-ini.c:20-50).
THEOREM OptTypes == OptSpec => []OptTypeOK
<1>1. OptIInv => OptTypeOK
  BY Zenon DEF OptIInv, Types, OptTypeOK, Values, Strings
<1> QED
  BY <1>1, OptInvariant, PTL

\* For every file and every replacement of it, each reader ends up with the
\* last value its own version gives to each option of its section, and with the
\* default where it gives none (inih/ini.c:105-167 and the opt_handlers).
THEOREM SettingsFollowFile == OptSpec => []SettingsAreTheFiles
<1>1. OptIInv => SettingsAreTheFiles
  BY DEF OptIInv
<1> QED
  BY <1>1, OptInvariant, PTL

\* main() goes on exactly if command line and file are right
\* (pdns-logger.c:183-195).
THEOREM StartIsJustified == OptSpec => []StartsIffGood
<1>1. OptIInv => StartsIffGood
  BY DEF OptIInv
<1> QED
  BY <1>1, OptInvariant, PTL

\* A back end that runs was configured by the version of the file it read
\* (file.c:52-79, syslog.c:96-118, sqlite.c:205-230).
THEOREM EnginesFollowFile == OptSpec => []EnginesAsConfigured
<1>1. OptIInv => EnginesAsConfigured
  BY DEF OptIInv
<1> QED
  BY <1>1, OptInvariant, PTL
=============================================================================
