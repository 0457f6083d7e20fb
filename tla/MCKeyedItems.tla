----------------------------- MODULE MCKeyedItems -----------------------------
(***************************************************************************)
(* Two kinds of key.  A quoted string that fits: every valid word is what  *)
(* is printed.  A number: a word may be another way to write it ("0x1"),   *)
(* and a string that is cut to the length of the key is like that too.     *)
(***************************************************************************)
EXTENDS KeyedItems

StringWord  == {"'a'", "'b'", "'c'", "''", "bare"}
StringKey   == {"a", "b", "c", ""}
StringParse == [w \in StringWord |->
                  CASE w = "'a'" -> "a" [] w = "'b'" -> "b" [] w = "'c'" -> "c"
                    [] w = "''" -> "" [] w = "bare" -> "invalid"]
StringShow  == [k \in StringKey |->
                  CASE k = "a" -> "'a'" [] k = "b" -> "'b'" [] k = "c" -> "'c'"
                    [] k = "" -> "''"]

NumberWord  == {"0", "1", "0x1", "2"}
NumberKey   == {0, 1, 2}
NumberParse == [w \in NumberWord |->
                  CASE w = "0" -> 0 [] w \in {"1", "0x1"} -> 1 [] w = "2" -> 2]
NumberShow  == [k \in NumberKey |-> CASE k = 0 -> "0" [] k = 1 -> "1" [] k = 2 -> "2"]
===============================================================================
