--------------------------- MODULE MCApplication ---------------------------
(***************************************************************************)
(* All lines of two characters, of three that start with a quote, and      *)
(* lines of three words.                                                   *)
(***************************************************************************)
EXTENDS Application, TLC

Characters == {Letter, Space, "quote"}

MCChars == Characters \cup {Newline}

MCBlock == <<"quote">>

Short ==
  UNION {[1 .. n -> Characters] : n \in 0 .. 2}
    \cup {<<"quote">> \o l : l \in [1 .. 2 -> Characters]}

SetLine(v) == <<Letter, Space, Letter, Space>> \o <<"quote">> \o v \o <<"quote">>

MCLines ==
  {l \o <<Newline>> : l \in
     Short \cup {<<Letter, Space, Letter, Space, Letter>>}
       \cup {SetLine(v) : v \in UNION {[1 .. n -> {Letter, Space}] : n \in 0 .. 2}}}
=============================================================================
