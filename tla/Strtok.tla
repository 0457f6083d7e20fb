------------------------------- MODULE Strtok -------------------------------
(***************************************************************************)
(* The tokenizer of a command line, and the functions that put a quoted    *)
(* string in memory and print it.  A string is a sequence of characters    *)
(* that ends with NUL; a position that is not in its domain is memory that *)
(* is not the string's.  The terminator the tokenizer writes behind a word *)
(* is the end of the word here: it never looks back at it.                 *)
(***************************************************************************)
EXTENDS Integers, Sequences, SequencesExt, FiniteSetsExt, Functions

CONSTANTS
  Delimiters,  \* word_delimiters
  BlockStart,  \* block_start and block_end, sequences of characters
  BlockEnd,
  NUL

ASSUME BlockAssumption == BlockStart # <<>> /\ BlockEnd # <<>>

(* strncmp(block, m_str, strlen(block)) == 0 *)
Match(s, p, block) == IsPrefix(block, SubSeq(s, p, Len(s)))

(* Mutant: the end of a block is not skipped. *)
seek_block_end_at(s, c) ==
  IF s[c.m_str] = NUL THEN [c EXCEPT !.state = "FAIL"]
  ELSE IF Match(s, c.m_str, BlockEnd) THEN [c EXCEPT !.state = "FOUND"]
  ELSE c

seek_block_end(s, c) ==
  IF s[c.m_str] = NUL THEN [c EXCEPT !.state = "FAIL"]
  ELSE IF Match(s, c.m_str, BlockEnd)
       THEN [c EXCEPT !.state = "FOUND", !.m_str = @ + Len(BlockEnd)]
  ELSE c

seek_end(s, c) ==
  IF c.type = "BLOCK" THEN seek_block_end(s, c)
  ELSE IF s[c.m_str] \in Delimiters \cup {NUL} THEN [c EXCEPT !.state = "FOUND"]
  ELSE c

(* The position goes past the block start here and once more in the loop   *)
(* of seek_token, so the first character of a block is never looked at.    *)
seek_start(s, c) ==
  IF s[c.m_str] = NUL THEN [c EXCEPT !.state = "FAIL"]
  ELSE IF s[c.m_str] \in Delimiters THEN c
  ELSE LET block == Match(s, c.m_str, BlockStart)
       IN  [m_start |-> c.m_str, state |-> "TOKEN",
            type  |-> IF block THEN "BLOCK" ELSE "WORD",
            m_str |-> c.m_str + (IF block THEN Len(BlockStart) ELSE 0)]

(* The loop is not over yet. *)
Seeking(c) == c.state \in {"PREFIX", "TOKEN"}

(* One round of the loop, which looks at one character. *)
Look(s, c) ==
  IF ~Seeking(c) THEN c
  ELSE IF c.m_str \notin DOMAIN s THEN [c EXCEPT !.state = "BEYOND"]
  ELSE [(IF c.state = "PREFIX" THEN seek_start(s, c) ELSE seek_end(s, c))
          EXCEPT !.m_str = @ + 1]

From(p) == [m_str |-> p, m_start |-> p, type |-> "WORD", state |-> "PREFIX"]

(* The loop: after[n] is the tokenizer after at most n rounds. *)
seek_token(s, p) ==
  LET after[n \in 0 .. Len(s) + 1] == IF n = 0 THEN From(p) ELSE Look(s, after[n-1])
  IN  after[Len(s) + 1]

(* Stands for a read beyond the string; no word is empty. *)
Beyond == <<>>

(* Strtok::operator(), called until it gives no more words.                *)
Split(s) ==
  LET from[p \in 1 .. Len(s) + 1] ==
        LET c == seek_token(s, p)
        IN  IF c.state = "FOUND"
            THEN <<SubSeq(s, c.m_start, c.m_str - 2)>> \o from[c.m_str]
            ELSE IF c.state = "FAIL" THEN <<>> ELSE <<Beyond>>
  IN  from[1]

-----------------------------------------------------------------------------
(* cm_set_str: what is accepted, and what it leaves in an item of len      *)
(* bytes, terminator included: after a lone quote what was there.          *)
set_str_valid(w) == Head(w) = BlockStart[1] /\ Last(w) = BlockStart[1]

set_str(old, w, len) ==
  IF Len(w) = 1 THEN old ELSE SubSeq(w, 2, Min({len, Len(w) - 1}))

(* Mutant: the quotes are not printed. *)
prt_str_bare(v) == v

(* cm_prt_str *)
prt_str(v) == BlockStart \o v \o BlockEnd

-----------------------------------------------------------------------------
(* What a line means, for blocks that start and end with the same single   *)
(* character: words are the longest runs without a separator, which is a   *)
(* delimiter that is not inside a block.                                   *)
Quotes(l, i) == {j \in 1 .. i : j <= Len(l) /\ l[j] = BlockStart[1]}
Inside(l, i) == Cardinality(Quotes(l, i - 1)) % 2 = 1
Separates(l, i) ==
  i \notin DOMAIN l \/ (l[i] \in Delimiters /\ ~Inside(l, i))

(* Where the words are: the first and the last position of each. *)
Spans(l) ==
  {span \in (DOMAIN l) \X (DOMAIN l) :
     /\ span[1] <= span[2] /\ Separates(l, span[1] - 1) /\ Separates(l, span[2] + 1)
     /\ \A i \in span[1] .. span[2] : ~Separates(l, i)}

(* Those, and only those, are the words, in their order.                   *)
AreWordsOf(words, l) ==
  \E at \in [DOMAIN words -> Spans(l)] :
    /\ Range(at) = Spans(l)
    /\ \A m, n \in DOMAIN words : m < n => at[m][2] < at[n][1]
    /\ \A n \in DOMAIN words : words[n] = SubSeq(l, at[n][1], at[n][2])

(* The lines whose blocks all have something in them, are closed and are   *)
(* between separators ("blocks must be separated by whitespace").          *)
WellFormed(l) ==
  \A q \in Quotes(l, Len(l)) :
    IF Inside(l, q)
    THEN Separates(l, q + 1) /\ q - 1 \notin Quotes(l, q)
    ELSE Separates(l, q - 1) /\ \E e \in Quotes(l, Len(l)) : e > q
=============================================================================
