------------------------------ MODULE MCOptions ------------------------------
(* Every file of up to MaxLines lines out of a few that get in each other's *)
(* way, and the same inside [sqlite3].                                      *)
EXTENDS Options

CONSTANT MaxLines

MCTexts == {"1", "2", "0", "path"}
MCAtoi == [x \in MCTexts |-> CASE x = "1" -> 1 [] x = "2" -> 2 [] OTHER -> 0]

Flat(kind, key, text) == Line(kind, FALSE, key, text)
Indented(kind, key, text) == Line(kind, TRUE, key, text)

MCLines ==
  {Flat("header", "globals", ""), Flat("header", "sqlite3", ""),
   Indented("header", "logfile", ""), Indented("comment", "", ""),
   Flat("pair", "disabled", "2"), Flat("pair", "disabled", ""),
   Flat("pair", "", "1"),
   Flat("pair", "dbfile", "path"), Indented("pair", "foreground", "0"),
   Indented("pair", "logfile", "path"),
   Flat("junk", "", "1"), Indented("junk", "", "1"),
   Flat("unclosed", "", "")}
Short == UNION {[1..n -> MCLines] : n \in 0..MaxLines}
MCFiles == Short \cup {<<Flat("header", "sqlite3", "")>> \o F : F \in Short}
MCEdits ==
  {<<>>, <<Flat("junk", "", "1")>>,
   <<Flat("header", "sqlite3", ""), Flat("pair", "disabled", "2")>>}
MCArgvs == {<<>>, <<"-f">>, <<"-c", "-h", "-f">>, <<"-f", "-x">>}
=============================================================================
