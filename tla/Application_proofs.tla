------------------------- MODULE Application_proofs -------------------------
(***************************************************************************)
(* Proofs about the example application: its two threads, and the words    *)
(* of the lines it reads.  First the tokenizer, for blocks that start and  *)
(* end with the same character: what is proved of it is about a line,      *)
(* which ends with a delimiter, and the terminator behind it.              *)
(***************************************************************************)
EXTENDS Application, SequencesExt, FiniteSetTheorems, SequenceTheorems, WellFoundedInduction, TLAPS

(* A set of numbers that is not empty has a smallest one. *)
LEMMA SmallestNumber ==
  ASSUME NEW M \in SUBSET Nat, M # {}
  PROVE  \E i \in M : \A j \in M : i <= j
<1> DEFINE R == OpToRel(<, Nat)
<1>1. PICK i \in M : \A j \in M : ~(<<j, i>> \in R)
  <2>1. IsWellFoundedOn(R, Nat)
    BY NatLessThanWellFounded
  <2> HIDE DEF R
  <2>2. QED BY <2>1, WFMin
<1>2. \A j \in M : ~(j < i)
  BY <1>1 DEF OpToRel
<1>3. QED BY <1>2

(* What is true of 0 and of every next number is true of all of them.      *)
LEMMA Upwards ==
  ASSUME NEW m \in Nat, NEW T, 0 \in T,
         \A n \in 0 .. m : n \in T /\ n # m => n + 1 \in T
  PROVE  \A n \in 0 .. m : n \in T
<1> SUFFICES ASSUME NEW n \in 0 .. m, n \notin T PROVE FALSE
  OBVIOUS
<1> DEFINE Missing == {i \in 0 .. m : i \notin T}
<1>1. Missing \in SUBSET Nat /\ Missing # {}
  OBVIOUS
<1>2. PICK i \in Missing : \A j \in Missing : i <= j
  BY <1>1, SmallestNumber
<1>3. i # 0 /\ i - 1 \in 0 .. m /\ i - 1 # m
  BY <1>2
<1>4. i - 1 \in T
  BY <1>2, <1>3
<1>5. i \in T
  BY <1>3, <1>4
<1> QED BY <1>2, <1>5

(* What is true of the last number and of every one before is true of all. *)
LEMMA Downwards ==
  ASSUME NEW m \in Nat, NEW T, m \in T,
         \A n \in 1 .. m : n # m /\ n + 1 \in T => n \in T
  PROVE  \A n \in 1 .. m : n \in T
<1> SUFFICES ASSUME NEW n \in 1 .. m, n \notin T PROVE FALSE
  OBVIOUS
<1> DEFINE Missing == {i \in 0 .. m : m - i \notin T /\ i # m}
<1>1. Missing \in SUBSET Nat /\ m - n \in Missing
  OBVIOUS
<1>2. PICK i \in Missing : \A j \in Missing : i <= j
  BY <1>1, SmallestNumber
<1>3. i # 0 /\ i - 1 \in 0 .. m /\ i - 1 # m
  BY <1>2
<1>4. m - (i - 1) \in T
  BY <1>2, <1>3
<1>5. m - i \in 1 .. m /\ m - i # m /\ (m - i) + 1 = m - (i - 1)
  BY <1>2, <1>3
<1>6. m - i \in T
  BY <1>4, <1>5
<1> QED BY <1>2, <1>6

-----------------------------------------------------------------------------
(* The tokenizer. *)

Quote == BlockStart[1]

(* A line of characters of C.                                              *)
Line(C, l) ==
  /\ BlockStart = <<Quote>> /\ BlockEnd = <<Quote>>
  /\ Quote \notin Delimiters /\ Quote # NUL /\ NUL \notin C
  /\ l \in Seq(C) /\ l # <<>> /\ l[Len(l)] \in Delimiters

(* The line in memory. *)
Text(l) == l \o <<NUL>>

LEMMA TextIs ==
  ASSUME NEW C, NEW l, Line(C, l)
  PROVE  /\ Len(l) \in Nat /\ Len(l) >= 1 /\ DOMAIN l = 1 .. Len(l)
         /\ Len(Text(l)) = Len(l) + 1 /\ DOMAIN Text(l) = 1 .. Len(l) + 1
         /\ Text(l) \in Seq(C \cup {NUL})
         /\ \A i \in 1 .. Len(l) : Text(l)[i] = l[i] /\ l[i] \in C /\ l[i] # NUL
         /\ Text(l)[Len(l) + 1] = NUL
<1>1. l \in Seq(C \cup {NUL}) /\ l \in Seq(C) /\ l # <<>>
  BY DEF Line
<1>2. <<NUL>> \in Seq(C \cup {NUL}) /\ Len(<<NUL>>) = 1 /\ <<NUL>>[1] = NUL
  OBVIOUS
<1>3. Len(l) \in Nat /\ Len(l) >= 1 /\ DOMAIN l = 1 .. Len(l)
  BY <1>1
<1>4. /\ Text(l) \in Seq(C \cup {NUL}) /\ Len(Text(l)) = Len(l) + 1
      /\ \A i \in 1 .. Len(l) + 1 : Text(l)[i] = IF i <= Len(l) THEN l[i] ELSE <<NUL>>[i - Len(l)]
  BY ONLY <1>1, <1>2, <1>3, ConcatProperties DEF Text
<1>5. DOMAIN Text(l) = 1 .. Len(l) + 1
  BY <1>3, <1>4
<1>6. Text(l)[Len(l) + 1] = NUL
  BY <1>2, <1>3, <1>4
<1>7. \A i \in 1 .. Len(l) : l[i] \in C /\ NUL \notin C
  BY <1>1 DEF Line
<1> QED BY <1>3, <1>4, <1>5, <1>6, <1>7

(* At a position in the text, a block starts or ends where the quote is.   *)
LEMMA MatchIs ==
  ASSUME NEW C, NEW l, Line(C, l), NEW p \in 1 .. Len(l) + 1
  PROVE  /\ Match(Text(l), p, BlockStart) <=> Text(l)[p] = Quote
         /\ Match(Text(l), p, BlockEnd) <=> Text(l)[p] = Quote
<1> DEFINE t == SubSeq(Text(l), p, Len(Text(l)))
           b == <<Quote>>
<1>1. BlockStart = b /\ BlockEnd = b
  BY DEF Line
<1>2. /\ Text(l) \in Seq(C \cup {NUL}) /\ Len(Text(l)) = Len(l) + 1
      /\ Len(l) \in Nat
  BY TextIs
<1>3. t \in Seq(C \cup {NUL}) /\ Len(t) >= 1 /\ t[1] = Text(l)[p]
  BY <1>2
<1> HIDE DEF t
<1>4. Len(b) = 1 /\ SubSeq(b, 1, 1) = b
  <2>1. b \in Seq({Quote}) /\ Len(b) = 1
    OBVIOUS
  <2> QED BY ONLY <2>1, SubSeqFull
<1>5. SubSeq(t, 1, 1) = <<t[1]>>
  <2>1. SubSeq(t, 1, 1) \in Seq(C \cup {NUL}) /\ Len(SubSeq(t, 1, 1)) = 1
        /\ SubSeq(t, 1, 1)[1] = t[1]
    BY <1>3
  <2>2. /\ <<t[1]>> \in Seq(C \cup {NUL}) /\ Len(<<t[1]>>) = 1
        /\ <<t[1]>>[1] = t[1]
    BY <1>3
  <2>3. \A i \in 1 .. 1 : SubSeq(t, 1, 1)[i] = <<t[1]>>[i]
    BY <2>1, <2>2
  <2> QED BY ONLY <2>1, <2>2, <2>3, SeqEqual
<1>6. IsPrefix(b, t) <=> b = <<t[1]>>
  BY <1>3, <1>4, <1>5 DEF IsPrefix
<1>7. b = <<t[1]>> <=> Quote = t[1]
  OBVIOUS
<1>8. IsPrefix(b, t) <=> Text(l)[p] = Quote
  BY <1>3, <1>6, <1>7
<1> QED BY <1>1, <1>8 DEF Match, t

-----------------------------------------------------------------------------
(* The loop of seek_token. *)

(* There are the rounds of the loop. *)
LEMMA Rounds ==
  ASSUME NEW s, Len(s) \in Nat, NEW p
  PROVE  \E after :
           /\ after[0] = From(p)
           /\ \A n \in 0 .. Len(s) : after[n + 1] = Look(s, after[n])
           /\ seek_token(s, p) = after[Len(s) + 1]
<1> DEFINE m == Len(s) + 1
           IsRun(f, k) ==
             f = [n \in 0 .. k |-> IF n = 0 THEN From(p) ELSE Look(s, f[n-1])]
           T == {k \in 0 .. m : \E f : IsRun(f, k)}
<1>1. m \in Nat
  OBVIOUS
<1>2. 0 \in T
  <2> DEFINE f == [n \in 0 .. 0 |-> From(p)]
  <2>1. IsRun(f, 0)
    OBVIOUS
  <2> HIDE DEF f, IsRun
  <2> QED BY <2>1, <1>1
<1>3. ASSUME NEW k \in 0 .. m, k \in T, k # m PROVE k + 1 \in T
  <2>1. PICK f : IsRun(f, k)
    BY <1>3
  <2> DEFINE g == [n \in 0 .. k + 1 |-> IF n = k + 1 THEN Look(s, f[k]) ELSE f[n]]
  <2>2. ASSUME NEW n \in 0 .. k + 1
        PROVE  g[n] = IF n = 0 THEN From(p) ELSE Look(s, g[n-1])
    <3>1. CASE n = k + 1
      BY <3>1
    <3>2. CASE n # k + 1
      <4>1. n \in 0 .. k /\ g[n] = f[n]
        BY <3>2
      <4>2. f[n] = IF n = 0 THEN From(p) ELSE Look(s, f[n-1])
        BY <2>1, <4>1
      <4>3. n # 0 => g[n-1] = f[n-1]
        BY <4>1
      <4> QED BY <4>1, <4>2, <4>3
    <3> QED BY <3>1, <3>2
  <2>3. IsRun(g, k + 1)
    BY <2>2
  <2> HIDE DEF g, IsRun
  <2> QED BY <2>3, <1>1, <1>3
<1>4. \A k \in 0 .. m : k \in T
  <2> HIDE DEF T
  <2> QED BY <1>1, <1>2, <1>3, Upwards
<1>5. \E f : IsRun(f, m)
  BY <1>1, <1>4
<1> DEFINE after == CHOOSE f : IsRun(f, m)
<1>6. IsRun(after, m)
  <2> HIDE DEF IsRun
  <2> QED BY <1>5
<1>7. seek_token(s, p) = after[m]
  BY DEF seek_token
<1> HIDE DEF after
<1>8. after[0] = From(p) /\ \A n \in 0 .. Len(s) : after[n + 1] = Look(s, after[n])
  BY <1>6
<1> QED BY <1>7, <1>8

(* What the tokenizer knows after some rounds from position p.             *)
Cursor(c) ==
  /\ c = [m_str |-> c.m_str, m_start |-> c.m_start, type |-> c.type, state |-> c.state]
  /\ c.m_str \in Int /\ c.m_start \in Int
  /\ c.type \in {"WORD", "BLOCK"}

Places(c, state, k) ==
  [m_str |-> k, m_start |-> c.m_start, type |-> c.type, state |-> state]

(* A token starts at i: before it are only delimiters.                     *)
StartsAt(l, p, i) ==
  /\ i \in p .. Len(l) /\ l[i] \notin Delimiters
  /\ \A j \in p .. i - 1 : l[j] \in Delimiters

(* No character of the word that starts at i is its last, before j.        *)
WordTo(l, i, j) == l[i] # Quote /\ \A k \in i .. j - 1 : l[k] \notin Delimiters

(* No character of the block that starts at i, but for the one that is     *)
(* never looked at, ends it before j.                                      *)
BlockTo(l, i, j) == l[i] = Quote /\ \A k \in i + 2 .. j - 1 : l[k] # Quote

(* The token from i to e is what comes first from p.                       *)
IsToken(l, p, i, e) ==
  /\ StartsAt(l, p, i) /\ e \in i .. Len(l) - 1
  /\ \/ WordTo(l, i, e + 1) /\ l[e + 1] \in Delimiters
     \/ BlockTo(l, i, e) /\ e >= i + 2 /\ l[e] = Quote

(* A token lies within the line, before its last position.                 *)
LEMMA TokenLies ==
  ASSUME NEW l, NEW p, NEW i, NEW e, IsToken(l, p, i, e)
  PROVE  i \in p .. Len(l) /\ e \in i .. Len(l) - 1
BY ONLY IsToken(l, p, i, e) DEF IsToken, StartsAt

(* There is no token from p on. *)
NoToken(l, p) ==
  \/ \A j \in p .. Len(l) : l[j] \in Delimiters
  \/ \E i \in p .. Len(l) : StartsAt(l, p, i) /\ BlockTo(l, i, Len(l) + 1)

SeekingIn(l, p, n, c) ==
  \/ /\ c.state = "PREFIX" /\ c.m_str = p + n /\ c.m_str <= Len(l) + 1
     /\ \A j \in p .. c.m_str - 1 : l[j] \in Delimiters
  \/ /\ c.state = "TOKEN" /\ StartsAt(l, p, c.m_start)
     /\ p + n <= c.m_str /\ c.m_str <= Len(l) + 1
     /\ \/ /\ c.type = "WORD" /\ WordTo(l, c.m_start, c.m_str)
           /\ c.m_str > c.m_start /\ c.m_str <= Len(l)
        \/ /\ c.type = "BLOCK" /\ BlockTo(l, c.m_start, c.m_str)
           /\ c.m_str >= c.m_start + 2

SeekInv(l, p, n, c) ==
  /\ Cursor(c)
  /\ \/ SeekingIn(l, p, n, c)
     \/ c.state = "FOUND" /\ IsToken(l, p, c.m_start, c.m_str - 2)
     \/ c.state = "FAIL" /\ NoToken(l, p)

(* A round of the loop keeps what is known: the position never goes past   *)
(* the terminator.                                                         *)
LEMMA LookKeeps ==
  ASSUME NEW C, NEW l, Line(C, l), NEW p \in 1 .. Len(l) + 1, NEW n \in Nat,
         NEW c, SeekInv(l, p, n, c)
  PROVE  SeekInv(l, p, n + 1, Look(Text(l), c))
<1> DEFINE d == Look(Text(l), c)
           N == Len(l)
           q == c.m_str
           x == Text(l)[q]
<1>1. /\ N \in Nat /\ N >= 1 /\ Len(Text(l)) = N + 1 /\ DOMAIN Text(l) = 1 .. N + 1
      /\ \A i \in 1 .. N : Text(l)[i] = l[i] /\ l[i] # NUL
      /\ Text(l)[N + 1] = NUL
  BY TextIs
<1>2. l[N] \in Delimiters /\ Quote \notin Delimiters /\ Quote # NUL
  BY DEF Line
<1>3. Len(BlockStart) = 1 /\ Len(BlockEnd) = 1
  BY DEF Line
<1>4. CASE ~Seeking(c)
  BY <1>4 DEF Look, SeekInv, Seeking, SeekingIn
<1>5. CASE Seeking(c)
  <2>1. Cursor(c) /\ SeekingIn(l, p, n, c) /\ q \in 1 .. N + 1
    BY <1>1, <1>5 DEF SeekInv, Seeking, SeekingIn, Cursor, StartsAt
  <2>2. q \in DOMAIN Text(l)
    BY <1>1, <2>1
  <2>3. x = NUL <=> q = N + 1
    BY <1>1, <2>1
  <2>4. x = IF q = N + 1 THEN NUL ELSE l[q]
    BY <1>1, <2>1
  <2>5. CASE c.state = "PREFIX"
    <3>1. d = [seek_start(Text(l), c) EXCEPT !.m_str = @ + 1]
      BY <1>5, <2>2, <2>5 DEF Look
    <3>2. q = p + n /\ \A j \in p .. q - 1 : l[j] \in Delimiters
      BY <2>1, <2>5 DEF SeekingIn
    <3>3. CASE q = N + 1
      <4>1. seek_start(Text(l), c) = [c EXCEPT !.state = "FAIL"]
        BY <2>3, <3>3 DEF seek_start
      <4>2. d.state = "FAIL" /\ Cursor(d)
        <5>1. d = Places(c, "FAIL", q + 1)
          BY <2>1, <3>1, <4>1 DEF Cursor, Places
        <5> QED BY <2>1, <5>1 DEF Cursor, Places
      <4>3. NoToken(l, p)
        BY <3>2, <3>3 DEF NoToken
      <4> QED BY <4>2, <4>3 DEF SeekInv
    <3>4. CASE q # N + 1 /\ x \in Delimiters
      <4>1. seek_start(Text(l), c) = c
        BY <2>3, <3>4 DEF seek_start
      <4>2. Cursor(d) /\ d.state = "PREFIX" /\ d.m_str = q + 1
        BY <2>1, <2>5, <3>1, <4>1 DEF Cursor
      <4>3. SeekingIn(l, p, n + 1, d)
        BY <2>1, <2>4, <3>2, <3>4, <4>2 DEF SeekingIn
      <4> QED BY <4>2, <4>3 DEF SeekInv
    <3>5. CASE q # N + 1 /\ x \notin Delimiters
      <4>1. l[q] = x /\ q \in p .. N /\ q # N
        BY <1>2, <2>1, <2>4, <3>2, <3>5
      <4>2. StartsAt(l, p, q)
        BY <3>2, <3>5, <4>1 DEF StartsAt
      <4>3. Match(Text(l), q, BlockStart) <=> l[q] = Quote
        BY <2>1, <4>1, MatchIs
      <4>4. CASE l[q] = Quote
        <5>1. seek_start(Text(l), c) =
                [m_start |-> q, state |-> "TOKEN", type |-> "BLOCK", m_str |-> q + 1]
          BY <1>3, <2>3, <3>5, <4>3, <4>4 DEF seek_start
        <5>2. d = [m_start |-> q, state |-> "TOKEN", type |-> "BLOCK", m_str |-> q + 2]
          BY <2>1, <3>1, <5>1
        <5>3. Cursor(d)
          BY <2>1, <5>2 DEF Cursor
        <5>4. BlockTo(l, q, q + 2)
          BY <2>1, <4>4 DEF BlockTo
        <5>5. SeekingIn(l, p, n + 1, d)
          BY <3>2, <4>1, <4>2, <5>2, <5>4 DEF SeekingIn
        <5> QED BY <5>3, <5>5 DEF SeekInv
      <4>5. CASE l[q] # Quote
        <5>1. seek_start(Text(l), c) =
                [m_start |-> q, state |-> "TOKEN", type |-> "WORD", m_str |-> q]
          BY <2>1, <2>3, <3>5, <4>3, <4>5 DEF seek_start
        <5>2. d = [m_start |-> q, state |-> "TOKEN", type |-> "WORD", m_str |-> q + 1]
          BY <2>1, <3>1, <5>1
        <5>3. Cursor(d)
          BY <2>1, <5>2 DEF Cursor
        <5>4. WordTo(l, q, q + 1)
          BY <2>1, <3>5, <4>1, <4>5 DEF WordTo
        <5>5. SeekingIn(l, p, n + 1, d)
          BY <3>2, <4>1, <4>2, <5>2, <5>4 DEF SeekingIn
        <5> QED BY <5>3, <5>5 DEF SeekInv
      <4> QED BY <4>4, <4>5
    <3> QED BY <3>3, <3>4, <3>5
  <2>6. CASE c.state = "TOKEN" /\ c.type = "WORD"
    <3> DEFINE i == c.m_start
    <3>1. d = [seek_end(Text(l), c) EXCEPT !.m_str = @ + 1]
      BY <1>5, <2>2, <2>6 DEF Look
    <3>2. /\ StartsAt(l, p, i) /\ p + n <= q /\ WordTo(l, i, q) /\ q > i /\ q <= N
          /\ i \in p .. N
      BY <2>1, <2>6 DEF SeekingIn, StartsAt
    <3>3. x = l[q] /\ x # NUL
      BY <1>1, <2>1, <2>4, <3>2
    <3>4. CASE x \in Delimiters
      <4>1. d = [c EXCEPT !.state = "FOUND", !.m_str = q + 1]
        BY <2>1, <2>6, <3>1, <3>4 DEF seek_end, Cursor
      <4>2. Cursor(d) /\ d.state = "FOUND" /\ d.m_start = i /\ d.m_str = q + 1
        <5>1. d = Places(c, "FOUND", q + 1)
          BY <2>1, <4>1 DEF Cursor, Places
        <5> QED BY <2>1, <5>1 DEF Cursor, Places
      <4>3. IsToken(l, p, i, q - 1)
        BY <1>1, <2>1, <3>2, <3>3, <3>4 DEF IsToken
      <4>4. d.m_str - 2 = q - 1
        BY <2>1, <4>2
      <4> QED BY <4>2, <4>3, <4>4 DEF SeekInv
    <3>5. CASE x \notin Delimiters
      <4>1. seek_end(Text(l), c) = c
        BY <2>6, <3>3, <3>5 DEF seek_end
      <4>2. Cursor(d) /\ d.state = "TOKEN" /\ d.type = "WORD" /\ d.m_start = i /\ d.m_str = q + 1
        BY <2>1, <2>6, <3>1, <4>1 DEF Cursor
      <4>3. q # N
        BY <1>2, <3>3, <3>5
      <4>4. WordTo(l, i, q + 1)
        BY <2>1, <3>2, <3>3, <3>5 DEF WordTo
      <4>5. SeekingIn(l, p, n + 1, d)
        BY <1>1, <2>1, <3>2, <4>2, <4>3, <4>4 DEF SeekingIn
      <4> QED BY <4>2, <4>5 DEF SeekInv
    <3> QED BY <3>4, <3>5
  <2>7. CASE c.state = "TOKEN" /\ c.type = "BLOCK"
    <3> DEFINE i == c.m_start
    <3>1. d = [seek_block_end(Text(l), c) EXCEPT !.m_str = @ + 1]
      BY <1>5, <2>2, <2>7 DEF Look, seek_end
    <3>2. /\ StartsAt(l, p, i) /\ p + n <= q /\ BlockTo(l, i, q) /\ q >= i + 2
          /\ i \in p .. N
      BY <2>1, <2>7 DEF SeekingIn, StartsAt
    <3>3. CASE q = N + 1
      <4>1. seek_block_end(Text(l), c) = [c EXCEPT !.state = "FAIL"]
        BY <2>3, <3>3 DEF seek_block_end
      <4>2. Cursor(d) /\ d.state = "FAIL"
        <5>1. d = Places(c, "FAIL", q + 1)
          BY <2>1, <3>1, <4>1 DEF Cursor, Places
        <5> QED BY <2>1, <5>1 DEF Cursor, Places
      <4>3. NoToken(l, p)
        BY <3>2, <3>3 DEF NoToken
      <4> QED BY <4>2, <4>3 DEF SeekInv
    <3>4. CASE q # N + 1 /\ x = Quote
      <4>1. Match(Text(l), q, BlockEnd)
        BY <2>1, <3>4, MatchIs
      <4>2. seek_block_end(Text(l), c) = [c EXCEPT !.state = "FOUND", !.m_str = q + 1]
        BY <1>3, <2>1, <2>3, <3>4, <4>1 DEF seek_block_end, Cursor
      <4>3. Cursor(d) /\ d.state = "FOUND" /\ d.m_start = i /\ d.m_str = q + 2
        <5>1. d = Places(c, "FOUND", q + 2)
          <6>1. seek_block_end(Text(l), c) = Places(c, "FOUND", q + 1)
            BY <2>1, <4>2 DEF Cursor, Places
          <6>2. d = [Places(c, "FOUND", q + 1) EXCEPT !.m_str = @ + 1]
            BY <3>1, <6>1
          <6> QED BY <2>1, <6>2 DEF Places
        <5> QED BY <2>1, <5>1 DEF Cursor, Places
      <4>4. q # N /\ l[q] = Quote
        BY <1>2, <2>4, <3>4
      <4>5. IsToken(l, p, i, q)
        BY <1>1, <2>1, <3>2, <3>4, <4>4 DEF IsToken
      <4>6. d.m_str - 2 = q
        BY <2>1, <4>3
      <4> QED BY <4>3, <4>5, <4>6 DEF SeekInv
    <3>5. CASE q # N + 1 /\ x # Quote
      <4>1. ~Match(Text(l), q, BlockEnd)
        BY <2>1, <3>5, MatchIs
      <4>2. seek_block_end(Text(l), c) = c
        BY <2>3, <3>5, <4>1 DEF seek_block_end
      <4>3. Cursor(d) /\ d.state = "TOKEN" /\ d.type = "BLOCK" /\ d.m_start = i /\ d.m_str = q + 1
        BY <2>1, <2>7, <3>1, <4>2 DEF Cursor
      <4>4. BlockTo(l, i, q + 1)
        BY <2>1, <2>4, <3>2, <3>5 DEF BlockTo
      <4>5. SeekingIn(l, p, n + 1, d)
        BY <1>1, <2>1, <3>2, <3>5, <4>3, <4>4 DEF SeekingIn
      <4> QED BY <4>3, <4>5 DEF SeekInv
    <3> QED BY <3>3, <3>4, <3>5
  <2> QED BY <2>1, <2>5, <2>6, <2>7 DEF SeekingIn
<1> QED BY <1>4, <1>5

(* What seek_token returns: the token that comes first, or that there is   *)
(* none.                                                                   *)
LEMMA SeekToken ==
  ASSUME NEW C, NEW l, Line(C, l), NEW p \in 1 .. Len(l) + 1
  PROVE  LET c == seek_token(Text(l), p)
         IN  \/ c.state = "FOUND" /\ c.m_str \in Int /\ IsToken(l, p, c.m_start, c.m_str - 2)
             \/ c.state = "FAIL" /\ NoToken(l, p)
<1> DEFINE N == Len(l)
           m == N + 2
<1>0. N \in Nat /\ Len(Text(l)) = N + 1
  BY TextIs
<1>1. N \in Nat /\ Len(Text(l)) = N + 1 /\ m \in Nat
  BY <1>0
<1>2. PICK after :
        /\ after[0] = From(p)
        /\ \A n \in 0 .. N + 1 : after[n + 1] = Look(Text(l), after[n])
        /\ seek_token(Text(l), p) = after[m]
  <2>1. Len(Text(l)) \in Nat /\ Len(Text(l)) + 1 = m /\ Len(Text(l)) = N + 1
    BY <1>1
  <2>2. \E after :
           /\ after[0] = From(p)
           /\ \A n \in 0 .. Len(Text(l)) : after[n + 1] = Look(Text(l), after[n])
           /\ seek_token(Text(l), p) = after[Len(Text(l)) + 1]
    BY <2>1, Rounds
  <2> QED BY <2>1, <2>2
<1> DEFINE T == {n \in Nat : SeekInv(l, p, n, after[n])}
<1>3. 0 \in T
  <2>1. Cursor(From(p))
    BY DEF Cursor, From
  <2>2. SeekingIn(l, p, 0, From(p))
    BY <1>1 DEF SeekingIn, From
  <2> QED BY <1>2, <2>1, <2>2 DEF SeekInv
<1>4. ASSUME NEW n \in 0 .. m, n \in T, n # m PROVE n + 1 \in T
  <2>1. SeekInv(l, p, n + 1, Look(Text(l), after[n]))
    BY <1>4, LookKeeps
  <2>2. n \in 0 .. N + 1
    BY <1>1, <1>4
  <2> QED BY <1>2, <2>1, <2>2
<1>5. m \in T
  <2> HIDE DEF T, m
  <2>1. \A n \in 0 .. m : n \in T
    BY <1>1, <1>3, <1>4, Upwards
  <2> QED BY <1>1, <2>1
<1>6. SeekInv(l, p, m, after[m])
  BY <1>5
<1>7. ~SeekingIn(l, p, m, after[m])
  <2>1. p + m > N + 1
    BY <1>1
  <2> HIDE DEF m
  <2> QED BY <1>1, <1>6, <2>1 DEF SeekingIn, SeekInv, Cursor
<1> HIDE DEF m
<1> QED BY <1>2, <1>6, <1>7 DEF SeekInv, Cursor

(* Behind the terminator there is nothing to seek. *)
LEMMA SeekBeyond ==
  ASSUME NEW C, NEW l, Line(C, l)
  PROVE  seek_token(Text(l), Len(l) + 2).state = "BEYOND"
<1> DEFINE N == Len(l)
           m == N + 1
<1>0. N \in Nat /\ Len(Text(l)) = N + 1 /\ DOMAIN Text(l) = 1 .. N + 1
  BY TextIs
<1>1. m \in Nat /\ Len(Text(l)) \in Nat
  BY <1>0
<1>2. PICK after :
        /\ after[0] = From(N + 2)
        /\ \A n \in 0 .. m : after[n + 1] = Look(Text(l), after[n])
        /\ seek_token(Text(l), N + 2) = after[m + 1]
  BY <1>0, <1>1, Rounds
<1> DEFINE T == {n \in Nat : after[n + 1].state = "BEYOND"}
<1>3. 0 \in T
  <2>1. after[1] = Look(Text(l), From(N + 2))
    BY <1>1, <1>2
  <2>2. N + 2 \notin DOMAIN Text(l)
    BY <1>0
  <2> QED BY <2>1, <2>2 DEF Look, From, Seeking
<1>4. ASSUME NEW n \in 0 .. m, n \in T, n # m PROVE n + 1 \in T
  <2>1. after[n + 2] = Look(Text(l), after[n + 1])
    BY <1>1, <1>2, <1>4
  <2> QED BY <1>4, <2>1 DEF Look, Seeking
<1>5. \A n \in 0 .. m : n \in T
  <2> HIDE DEF T, m
  <2> QED BY <1>1, <1>3, <1>4, Upwards
<1>6. m \in T
  BY <1>1, <1>5
<1> QED BY <1>2, <1>6

-----------------------------------------------------------------------------
(* The words of a line. *)

(* The text is cut where the tokens are: each is the first behind the one  *)
(* before, and behind the character after it.                              *)
Start(p, at, n) == IF n = 1 THEN p ELSE at[n - 1][2] + 2

Cuts(l, p, at) ==
  /\ at \in Seq(Int \X Int)
  /\ \A n \in 1 .. Len(at) : IsToken(l, Start(p, at, n), at[n][1], at[n][2])
  /\ NoToken(l, Start(p, at, Len(at) + 1))

WordsAt(l, at) == [n \in 1 .. Len(at) |-> SubSeq(l, at[n][1], at[n][2])]

(* Strtok::operator(), called from position p on, once the function that   *)
(* stands for the calls is known.                                          *)
Calls(s, from, p) ==
  LET c == seek_token(s, p)
  IN  IF c.state = "FOUND"
      THEN <<SubSeq(s, c.m_start, c.m_str - 2)>> \o from[c.m_str]
      ELSE IF c.state = "FAIL" THEN <<>> ELSE <<Beyond>>

(* The calls go forward, so there is that function. *)
LEMMA Callable ==
  ASSUME NEW C, NEW l, Line(C, l)
  PROVE  \E from : /\ Split(Text(l)) = from[1]
                   /\ \A p \in 1 .. Len(l) + 1 : from[p] = Calls(Text(l), from, p)
<1> DEFINE N == Len(l)
           s == Text(l)
           m == N + 2
           IsSplit(f, k) == f = [p \in k .. m |-> Calls(s, f, p)]
           T == {k \in 1 .. m : \E f : IsSplit(f, k)}
<1>0. N \in Nat /\ Len(s) = N + 1
  BY TextIs
<1>1. N \in Nat /\ Len(s) = N + 1 /\ m \in Nat
  BY <1>0
<1>2. m \in T
  <2> DEFINE f == [p \in m .. m |-> <<Beyond>>]
  <2>1. Calls(s, f, m) = <<Beyond>>
    <3> HIDE DEF f
    <3> QED BY SeekBeyond DEF Calls
  <2>2. IsSplit(f, m)
    <3>1. \A p \in m .. m : p = m
      BY <1>1
    <3> QED BY <2>1, <3>1
  <2> HIDE DEF f, IsSplit
  <2>3. m \in 1 .. m
    BY <1>1
  <2> QED BY <2>2, <2>3
<1>3. ASSUME NEW k \in 1 .. m, k # m, k + 1 \in T PROVE k \in T
  <2>1. PICK f : IsSplit(f, k + 1)
    BY <1>3
  <2> DEFINE g == [p \in k .. m |-> IF p = k THEN Calls(s, f, k) ELSE f[p]]
  <2>2. ASSUME NEW p \in k .. m PROVE Calls(s, g, p) = Calls(s, f, p)
    <3>1. CASE p = m
      BY <3>1, SeekBeyond DEF Calls
    <3>2. CASE p # m
      <4>1. p \in 1 .. N + 1
        BY <1>1, <3>2
      <4> DEFINE c == seek_token(s, p)
      <4>2. c.state = "FOUND" => c.m_str \in k + 1 .. m
        <5>1. c.state = "FOUND" => c.m_str \in Int /\ IsToken(l, p, c.m_start, c.m_str - 2)
          BY <4>1, SeekToken
        <5> HIDE DEF c
        <5>2. SUFFICES ASSUME c.state = "FOUND" PROVE c.m_str \in k + 1 .. m
          OBVIOUS
        <5> DEFINE i == c.m_start
                   e == c.m_str - 2
        <5>3. i \in p .. N /\ e \in i .. N - 1
          <6> HIDE DEF i, e
          <6>1. IsToken(l, p, i, e)
            BY <5>1, <5>2 DEF i, e
          <6> QED BY <6>1, TokenLies
        <5> QED BY <1>1, <4>1, <5>1, <5>2, <5>3
      <4>3. c.state = "FOUND" => g[c.m_str] = f[c.m_str]
        BY <1>1, <4>2
      <4> HIDE DEF g
      <4> QED BY <4>3 DEF Calls
    <3> QED BY <3>1, <3>2
  <2>3. ASSUME NEW p \in k .. m PROVE g[p] = Calls(s, f, p)
    <3>1. CASE p = k
      BY <3>1
    <3>2. CASE p # k
      <4>1. p \in k + 1 .. m
        BY <1>1, <3>2
      <4> QED BY <2>1, <3>2, <4>1
    <3> QED BY <3>1, <3>2
  <2>4. IsSplit(g, k)
    BY <2>2, <2>3
  <2> HIDE DEF g, IsSplit
  <2> QED BY <2>4
<1>4. \A k \in 1 .. m : k \in T
  <2> HIDE DEF T, m
  <2> QED BY <1>1, <1>2, <1>3, Downwards
<1>5. \E f : IsSplit(f, 1)
  <2>1. 1 \in 1 .. m
    BY <1>1
  <2> QED BY <1>4, <2>1
<1> DEFINE from == CHOOSE f : IsSplit(f, 1)
<1>6. IsSplit(from, 1)
  <2> HIDE DEF IsSplit
  <2> QED BY <1>5
<1>7. Split(s) = from[1]
  <2>1. m = Len(s) + 1
    BY <1>1
  <2> QED BY <2>1 DEF Split, Calls
<1> HIDE DEF from
<1>8. \A p \in 1 .. N + 1 : from[p] = Calls(s, from, p)
  BY <1>1, <1>6
<1> QED BY <1>7, <1>8

(* A word of the text is a word of the line. *)
LEMMA SameWord ==
  ASSUME NEW C, NEW l, Line(C, l), NEW i \in 1 .. Len(l), NEW e \in i .. Len(l)
  PROVE  /\ SubSeq(Text(l), i, e) = SubSeq(l, i, e)
         /\ SubSeq(l, i, e) \in Seq(C) /\ Len(SubSeq(l, i, e)) = e - i + 1
         /\ \A j \in 1 .. e - i + 1 : SubSeq(l, i, e)[j] = l[i + j - 1]
<1>1. Len(l) \in Nat /\ \A j \in 1 .. Len(l) : Text(l)[j] = l[j] /\ l[j] \in C
  BY TextIs
<1>2. i \in Int /\ e \in Int /\ i <= e /\ \A j \in i .. e : Text(l)[j] = l[j] /\ l[j] \in C
  BY <1>1
<1> DEFINE v == SubSeq(Text(l), i, e)
           w == SubSeq(l, i, e)
<1>3. /\ v \in Seq(C) /\ Len(v) = e - i + 1
      /\ \A j \in 1 .. e - i + 1 : v[j] = Text(l)[i + j - 1]
  <2>1. \A j \in i .. e : Text(l)[j] \in C
    BY <1>2
  <2>2. /\ v \in Seq(C) /\ Len(v) = IF i <= e THEN e - i + 1 ELSE 0
        /\ \A j \in 1 .. e - i + 1 : v[j] = Text(l)[i + j - 1]
    BY ONLY <1>2, <2>1, SubSeqProperties
  <2> QED BY <1>2, <2>2
<1>4. /\ w \in Seq(C) /\ Len(w) = e - i + 1
      /\ \A j \in 1 .. e - i + 1 : w[j] = l[i + j - 1]
  <2>1. \A j \in i .. e : l[j] \in C
    BY <1>2
  <2>2. /\ w \in Seq(C) /\ Len(w) = IF i <= e THEN e - i + 1 ELSE 0
        /\ \A j \in 1 .. e - i + 1 : w[j] = l[i + j - 1]
    BY ONLY <1>2, <2>1, SubSeqProperties
  <2> QED BY <1>2, <2>2
<1>5. v = w
  <2>1. \A j \in 1 .. e - i + 1 : i + j - 1 \in i .. e
    BY <1>2
  <2>2. \A j \in 1 .. Len(v) : v[j] = w[j]
    BY <1>2, <1>3, <1>4, <2>1
  <2> HIDE DEF v, w
  <2> QED BY ONLY <1>3, <1>4, <2>2, SeqEqual
<1> QED BY <1>4, <1>5

(* A list starts with the pair of i and e, and goes on with the rest. *)
Prepends(at, i, e, rest) ==
  /\ Len(rest) \in Nat /\ Len(at) = Len(rest) + 1
  /\ at[1] = <<i, e>> /\ \A n \in 1 .. Len(rest) : at[n + 1] = rest[n]

(* A cut before the others of the rest of the line. *)
LEMMA CutBefore ==
  ASSUME NEW l, Len(l) \in Nat, NEW p \in Int, NEW i, NEW e, IsToken(l, p, i, e),
         NEW rest, Cuts(l, e + 2, rest)
  PROVE  LET at == <<<<i, e>>>> \o rest
         IN  Cuts(l, p, at) /\ Prepends(at, i, e, rest)
<1> DEFINE first == <<<<i, e>>>>
           at == first \o rest
<1>1. i \in Int /\ e \in Int
  BY DEF IsToken, StartsAt
<1>2. rest \in Seq(Int \X Int) /\ Len(rest) \in Nat
  BY DEF Cuts
<1>3. first \in Seq(Int \X Int) /\ Len(first) = 1 /\ first[1] = <<i, e>>
  BY <1>1
<1>4. /\ at \in Seq(Int \X Int) /\ Len(at) = Len(rest) + 1
      /\ \A n \in 1 .. Len(rest) + 1 : at[n] = IF n <= 1 THEN first[n] ELSE rest[n - 1]
  <2>1. /\ at \in Seq(Int \X Int) /\ Len(at) = Len(first) + Len(rest)
        /\ \A n \in 1 .. Len(first) + Len(rest) :
             at[n] = IF n <= Len(first) THEN first[n] ELSE rest[n - Len(first)]
    BY ONLY <1>2, <1>3, ConcatProperties
  <2> QED BY <1>2, <1>3, <2>1
<1>5. at[1] = <<i, e>> /\ \A n \in 1 .. Len(rest) : at[n + 1] = rest[n]
  BY <1>2, <1>3, <1>4
<1> HIDE DEF at
<1>6. Start(p, at, 1) = p /\ \A n \in 1 .. Len(rest) + 1 : Start(p, at, n + 1) = Start(e + 2, rest, n)
  <2>1. Start(p, at, 1) = p
    BY DEF Start
  <2>2. ASSUME NEW n \in 1 .. Len(rest) + 1
        PROVE  Start(p, at, n + 1) = Start(e + 2, rest, n)
    <3>1. Start(p, at, n + 1) = at[n][2] + 2
      <4>1. n + 1 # 1 /\ n + 1 - 1 = n
        BY <1>2
      <4> QED BY <4>1 DEF Start
    <3>2. CASE n = 1
      BY <1>1, <1>5, <3>1, <3>2 DEF Start
    <3>3. CASE n # 1
      <4>1. n - 1 \in 1 .. Len(rest) /\ at[n - 1 + 1] = rest[n - 1] /\ n - 1 + 1 = n
        BY <1>2, <1>5, <3>3
      <4> QED BY <3>1, <3>3, <4>1 DEF Start
    <3> QED BY <3>2, <3>3
  <2> QED BY <2>1, <2>2
<1>7. ASSUME NEW n \in 1 .. Len(at) PROVE IsToken(l, Start(p, at, n), at[n][1], at[n][2])
  <2>1. CASE n = 1
    BY <1>5, <1>6, <2>1
  <2>2. CASE n # 1
    <3>1. n - 1 \in 1 .. Len(rest) /\ n - 1 \in 1 .. Len(rest) + 1 /\ n - 1 + 1 = n
      BY <1>2, <1>4, <2>2
    <3>2. at[n] = rest[n - 1] /\ Start(p, at, n) = Start(e + 2, rest, n - 1)
      BY <1>5, <1>6, <3>1
    <3> QED BY <3>1, <3>2 DEF Cuts
  <2> QED BY <2>1, <2>2
<1>8. NoToken(l, Start(p, at, Len(at) + 1))
  <2>1. Len(rest) + 1 \in 1 .. Len(rest) + 1
    BY <1>2
  <2>2. Start(p, at, Len(rest) + 1 + 1) = Start(e + 2, rest, Len(rest) + 1)
    BY <1>6, <2>1
  <2> QED BY <1>4, <2>2 DEF Cuts
<1>9. Cuts(l, p, at)
  BY <1>4, <1>7, <1>8 DEF Cuts
<1> QED BY <1>2, <1>4, <1>5, <1>9 DEF at, Prepends

LEMMA Consed ==
  ASSUME NEW S, NEW n \in Nat, NEW f \in [1 .. n + 1 -> S], NEW g \in [1 .. n -> S],
         \A k \in 1 .. n : g[k] = f[k + 1]
  PROVE  f = <<f[1]>> \o g
<1> DEFINE a == <<f[1]>>
<1>1. f \in Seq(S) /\ Len(f) = n + 1
  <2>1. f = [k \in 1 .. n + 1 |-> f[k]] /\ \A k \in 1 .. n + 1 : f[k] \in S
    OBVIOUS
  <2>2. n + 1 \in Nat
    OBVIOUS
  <2>3. f \in Seq(S)
    BY <2>1, <2>2, IsASeq
  <2> QED BY <2>2, <2>3, LenProperties
<1>2. g \in Seq(S) /\ Len(g) = n
  <2>1. g = [k \in 1 .. n |-> g[k]] /\ \A k \in 1 .. n : g[k] \in S
    OBVIOUS
  <2>2. g \in Seq(S)
    BY <2>1, IsASeq
  <2> QED BY <2>2, LenProperties
<1>3. a \in Seq(S) /\ Len(a) = 1 /\ a[1] = f[1]
  BY f[1] \in S
<1> HIDE DEF a
<1>4. /\ a \o g \in Seq(S) /\ Len(a \o g) = Len(a) + Len(g)
      /\ \A k \in 1 .. Len(a) + Len(g) :
           (a \o g)[k] = IF k <= Len(a) THEN a[k] ELSE g[k - Len(a)]
  BY ONLY <1>2, <1>3, ConcatProperties
<1>5. ASSUME NEW k \in 1 .. n + 1 PROVE f[k] = (a \o g)[k]
  <2>1. (a \o g)[k] = IF k <= 1 THEN a[k] ELSE g[k - 1]
    BY <1>2, <1>3, <1>4
  <2>2. CASE k > 1
    <3>1. k - 1 \in 1 .. n /\ k - 1 + 1 = k
      BY <2>2
    <3>2. g[k - 1] = f[k]
      BY <3>1
    <3> QED BY <2>1, <2>2, <3>2
  <2>3. CASE ~(k > 1)
    BY <1>3, <2>1, <2>3
  <2> QED BY <2>2, <2>3
<1>6. f = a \o g
  <2>1. Len(a \o g) = Len(f) /\ \A k \in 1 .. Len(f) : f[k] = (a \o g)[k]
    BY <1>1, <1>2, <1>3, <1>4, <1>5
  <2> QED BY ONLY <1>1, <1>4, <2>1, SeqEqual
<1> QED BY <1>6 DEF a

LEMMA WordsBefore ==
  ASSUME NEW l, NEW at, NEW i, NEW e, NEW rest, Prepends(at, i, e, rest)
  PROVE  WordsAt(l, at) = <<SubSeq(l, i, e)>> \o WordsAt(l, rest)
<1>0. /\ Len(rest) \in Nat /\ Len(at) = Len(rest) + 1
      /\ at[1] = <<i, e>> /\ \A n \in 1 .. Len(rest) : at[n + 1] = rest[n]
  BY DEF Prepends
<1> DEFINE f == WordsAt(l, at)
           g == WordsAt(l, rest)
           S == {f[k] : k \in 1 .. Len(rest) + 1}
<1>1. f \in [1 .. Len(rest) + 1 -> S]
  <2>1. f = [k \in 1 .. Len(rest) + 1 |-> f[k]]
    BY <1>0 DEF WordsAt
  <2> HIDE DEF f
  <2> QED BY <2>1
<1>2. ASSUME NEW k \in 1 .. Len(rest) PROVE g[k] = f[k + 1]
  <2>1. at[k + 1] = rest[k] /\ k + 1 \in 1 .. Len(at)
    BY <1>0
  <2>2. f[k + 1] = SubSeq(l, at[k + 1][1], at[k + 1][2])
    BY <2>1 DEF WordsAt
  <2> QED BY <2>1, <2>2 DEF WordsAt
<1>3. g \in [1 .. Len(rest) -> S]
  <2>1. g = [k \in 1 .. Len(rest) |-> g[k]]
    BY DEF WordsAt
  <2>2. \A k \in 1 .. Len(rest) : g[k] \in S
    <3> HIDE DEF f, g
    <3> QED BY <1>2
  <2> HIDE DEF g, S
  <2> QED BY <2>1, <2>2
<1>4. f[1] = SubSeq(l, i, e)
  <2>1. 1 \in 1 .. Len(at) /\ at[1][1] = i /\ at[1][2] = e
    BY <1>0
  <2> QED BY <2>1 DEF WordsAt
<1> HIDE DEF f, g, S
<1>5. f = <<f[1]>> \o g
  BY ONLY <1>0, <1>1, <1>2, <1>3, Consed
<1> QED BY <1>4, <1>5 DEF f, g

(* The words of a line are where it is cut: the tokenizer reads nothing    *)
(* that is not the line's.                                                 *)
LEMMA Splitting ==
  ASSUME NEW C, NEW l, Line(C, l)
  PROVE  \E at : Cuts(l, 1, at) /\ Split(Text(l)) = WordsAt(l, at)
<1> DEFINE N == Len(l)
           s == Text(l)
           m == N + 1
<1>1. N \in Nat /\ N >= 1
  BY TextIs
<1>2. PICK from : /\ Split(s) = from[1]
                  /\ \A p \in 1 .. N + 1 : from[p] = Calls(s, from, p)
  BY Callable
<1> DEFINE IsCut(p, at) == Cuts(l, p, at) /\ from[p] = WordsAt(l, at)
           T == {k \in 1 .. m : \A p \in k .. m : \E at : IsCut(p, at)}
<1>3. ASSUME NEW p \in 1 .. m, \A r \in p + 1 .. m : \E at : IsCut(r, at)
      PROVE  \E at : IsCut(p, at)
  <2> DEFINE c == seek_token(s, p)
  <2>1. from[p] = Calls(s, from, p)
    BY <1>2
  <2>2. \/ c.state = "FOUND" /\ c.m_str \in Int /\ IsToken(l, p, c.m_start, c.m_str - 2)
        \/ c.state = "FAIL" /\ NoToken(l, p)
    BY SeekToken
  <2>3. CASE c.state = "FAIL" /\ NoToken(l, p)
    <3>1. from[p] = <<>>
      BY <2>1, <2>3 DEF Calls
    <3>2. WordsAt(l, <<>>) = <<>>
      BY DEF WordsAt
    <3>3. Cuts(l, p, <<>>)
      BY <2>3 DEF Cuts, Start
    <3> QED BY <3>1, <3>2, <3>3
  <2>4. CASE c.state = "FOUND" /\ c.m_str \in Int /\ IsToken(l, p, c.m_start, c.m_str - 2)
    <3>1. \E i, e : /\ i \in 1 .. N /\ e \in i .. N /\ e + 2 \in p + 1 .. m
                    /\ IsToken(l, p, i, e)
                    /\ from[p] = <<SubSeq(s, i, e)>> \o from[e + 2]
      <4> HIDE DEF c
      <4> DEFINE i == c.m_start
                 e == c.m_str - 2
      <4>1. i \in p .. N /\ e \in i .. N - 1 /\ c.m_str \in Int
        BY <2>4 DEF IsToken, StartsAt
      <4>2. i \in 1 .. N /\ e \in i .. N /\ e + 2 \in p + 1 .. m /\ e + 2 = c.m_str
        BY <1>1, <4>1
      <4>3. from[p] = <<SubSeq(s, i, c.m_str - 2)>> \o from[c.m_str]
        BY <2>1, <2>4 DEF Calls, c
      <4> QED BY <2>4, <4>2, <4>3
    <3>2. PICK i, e : /\ i \in 1 .. N /\ e \in i .. N /\ e + 2 \in p + 1 .. m
                      /\ IsToken(l, p, i, e)
                      /\ from[p] = <<SubSeq(s, i, e)>> \o from[e + 2]
      BY <3>1
    <3>3. PICK rest : Cuts(l, e + 2, rest) /\ from[e + 2] = WordsAt(l, rest)
      BY <1>3, <3>2
    <3> DEFINE at == <<<<i, e>>>> \o rest
    <3>4. Cuts(l, p, at) /\ Prepends(at, i, e, rest)
      BY <1>1, <3>2, <3>3, CutBefore
    <3> HIDE DEF at
    <3>6. WordsAt(l, at) = <<SubSeq(l, i, e)>> \o WordsAt(l, rest)
      BY <3>4, WordsBefore
    <3>7. SubSeq(s, i, e) = SubSeq(l, i, e)
      BY <3>2, SameWord
    <3>8. from[p] = WordsAt(l, at)
      BY <3>2, <3>3, <3>6, <3>7
    <3> QED BY <3>4, <3>8
  <2> QED BY <2>2, <2>3, <2>4
<1>4. m \in T
  <2>1. \A r \in m + 1 .. m : FALSE
    BY <1>1
  <2>2. \E at : IsCut(m, at)
    <3> HIDE DEF IsCut
    <3> QED BY <1>1, <1>3, <2>1
  <2> HIDE DEF IsCut
  <2>3. \A p \in m .. m : p = m
    BY <1>1
  <2> QED BY <1>1, <2>2, <2>3
<1>5. ASSUME NEW k \in 1 .. m, k # m, k + 1 \in T PROVE k \in T
  <2> HIDE DEF IsCut
  <2>1. \E at : IsCut(k, at)
    BY <1>3, <1>5
  <2>2. \A p \in k .. m : p = k \/ p \in k + 1 .. m
    BY <1>1
  <2> QED BY <1>5, <2>1, <2>2
<1>6. \A k \in 1 .. m : k \in T
  <2>1. m \in Nat
    BY <1>1
  <2> HIDE DEF T, m
  <2> QED BY <2>1, <1>4, <1>5, Downwards
<1>7. \E at : IsCut(1, at)
  <2>1. 1 \in 1 .. m
    BY <1>1
  <2> HIDE DEF IsCut
  <2> QED BY <1>6, <2>1
<1> QED BY <1>2, <1>7
(* Every cut starts within the line, or right behind it.                   *)
LEMMA Forward ==
  ASSUME NEW C, NEW l, Line(C, l), NEW at, Cuts(l, 1, at)
  PROVE  /\ Len(at) \in Nat
         /\ \A n \in 1 .. Len(at) + 1 : Start(1, at, n) \in 1 .. Len(l) + 1
         /\ \A n \in 1 .. Len(at) :
              /\ IsToken(l, Start(1, at, n), at[n][1], at[n][2])
              /\ at[n] = <<at[n][1], at[n][2]>>
              /\ at[n][1] \in 1 .. Len(l) /\ at[n][2] \in at[n][1] .. Len(l) - 1
              /\ Start(1, at, n + 1) = at[n][2] + 2
<1> DEFINE T == {n \in Nat : Start(1, at, n + 1) \in 1 .. Len(l) + 1}
<1>1. Len(l) \in Nat
  BY TextIs
<1>2. at \in Seq(Int \X Int) /\ Len(at) \in Nat
  BY DEF Cuts
<1>3. ASSUME NEW n \in 1 .. Len(at)
      PROVE  /\ IsToken(l, Start(1, at, n), at[n][1], at[n][2])
             /\ at[n] = <<at[n][1], at[n][2]>> /\ at[n][1] \in Int /\ at[n][2] \in Int
             /\ Start(1, at, n + 1) = at[n][2] + 2
  <2>1. at[n] \in Int \X Int
    BY <1>2
  <2>2. n + 1 # 1 /\ n + 1 - 1 = n
    BY <1>2
  <2>3. at[n] = <<at[n][1], at[n][2]>> /\ at[n][1] \in Int /\ at[n][2] \in Int
    BY ONLY <2>1
  <2>4. Start(1, at, n + 1) = at[n][2] + 2
    BY <2>2 DEF Start
  <2>5. IsToken(l, Start(1, at, n), at[n][1], at[n][2])
    BY DEF Cuts
  <2> QED BY <2>3, <2>4, <2>5
<1>4. 0 \in T
  BY <1>1 DEF Start
<1>5. ASSUME NEW n \in 0 .. Len(at), n \in T, n # Len(at) PROVE n + 1 \in T
  <2> DEFINE k == n + 1
  <2>1. k \in 1 .. Len(at) /\ Start(1, at, k) \in 1 .. Len(l) + 1
    BY <1>2, <1>5
  <2>2. /\ IsToken(l, Start(1, at, k), at[k][1], at[k][2])
        /\ at[k][1] \in Int /\ at[k][2] \in Int /\ Start(1, at, k + 1) = at[k][2] + 2
    BY <1>3, <2>1
  <2> HIDE DEF k
  <2>4. at[k][1] \in Start(1, at, k) .. Len(l) /\ at[k][2] \in at[k][1] .. Len(l) - 1
    BY <2>2, TokenLies
  <2>3. Start(1, at, k + 1) \in 1 .. Len(l) + 1
    BY <1>1, <2>1, <2>2, <2>4
  <2>5. k \in T
    BY <1>2, <2>1, <2>3
  <2> HIDE DEF T
  <2> QED BY <2>5 DEF k
<1>6. \A n \in 0 .. Len(at) : n \in T
  <2> HIDE DEF T
  <2> QED BY <1>2, <1>4, <1>5, Upwards
<1>7. \A n \in 1 .. Len(at) + 1 : Start(1, at, n) \in 1 .. Len(l) + 1
  <2> TAKE n \in 1 .. Len(at) + 1
  <2>1. n - 1 \in 0 .. Len(at) /\ (n - 1) + 1 = n
    BY <1>2
  <2>2. n - 1 \in T
    BY <1>6, <2>1
  <2> QED BY <2>1, <2>2
<1>8. ASSUME NEW n \in 1 .. Len(at)
      PROVE  at[n][1] \in 1 .. Len(l) /\ at[n][2] \in at[n][1] .. Len(l) - 1
  <2>1. n \in 1 .. Len(at) + 1
    BY <1>2
  <2>2. Start(1, at, n) \in 1 .. Len(l) + 1
    BY <1>7, <2>1
  <2>3. at[n][1] \in Start(1, at, n) .. Len(l) /\ at[n][2] \in at[n][1] .. Len(l) - 1
    BY <1>3, TokenLies
  <2> QED BY <1>1, <2>2, <2>3
<1> QED BY <1>2, <1>3, <1>7, <1>8

(* The words do not overlap, and come in the order of the line.            *)
LEMMA InOrder ==
  ASSUME NEW C, NEW l, Line(C, l), NEW at, Cuts(l, 1, at),
         NEW m \in 1 .. Len(at), NEW n \in 1 .. Len(at), m < n
  PROVE  at[m][2] < at[n][1]
<1>1. Len(l) \in Nat
  BY TextIs
<1>2. /\ Len(at) \in Nat
      /\ \A k \in 1 .. Len(at) :
           /\ IsToken(l, Start(1, at, k), at[k][1], at[k][2])
           /\ at[k][1] \in 1 .. Len(l) /\ at[k][2] \in at[k][1] .. Len(l) - 1
           /\ Start(1, at, k + 1) = at[k][2] + 2
  BY Forward
<1>3. ASSUME NEW k \in 1 .. Len(at), k + 1 \in 1 .. Len(at)
      PROVE  at[k][2] < at[k + 1][1]
  <2>1. IsToken(l, at[k][2] + 2, at[k + 1][1], at[k + 1][2])
    <3>1. Start(1, at, k + 1) = at[k][2] + 2
      BY <1>2
    <3>2. IsToken(l, Start(1, at, k + 1), at[k + 1][1], at[k + 1][2])
      BY <1>2, <1>3
    <3> QED BY ONLY <3>1, <3>2
  <2>2. at[k][2] \in Int /\ at[k + 1][1] \in Int
    BY <1>1, <1>2, <1>3
  <2>3. at[k + 1][1] \in at[k][2] + 2 .. Len(l)
    BY <2>1, TokenLies
  <2> QED BY <1>1, <2>2, <2>3
<1> DEFINE T == {k \in Nat : m + k + 1 \in 1 .. Len(at) => at[m][2] < at[m + k + 1][1]}
<1>4. 0 \in T
  BY <1>2, <1>3
<1>5. ASSUME NEW k \in 0 .. Len(at), k \in T, k # Len(at) PROVE k + 1 \in T
  <2> SUFFICES ASSUME m + (k + 1) + 1 \in 1 .. Len(at)
               PROVE  at[m][2] < at[m + (k + 1) + 1][1]
    BY <1>2
  <2> DEFINE r == m + k + 1
  <2>1. r \in 1 .. Len(at) /\ r + 1 \in 1 .. Len(at) /\ r + 1 = m + (k + 1) + 1
    BY <1>2
  <2>2. at[m][2] < at[r][1]
    BY <1>5, <2>1
  <2> HIDE DEF r
  <2>3. at[r][2] < at[r + 1][1]
    BY <1>3, <2>1
  <2>4. at[r][1] <= at[r][2] /\ at[r][1] \in Int /\ at[r][2] \in Int /\ at[m][2] \in Int
        /\ at[r + 1][1] \in Int
    <3>1. \A j \in 1 .. Len(at) :
            at[j][1] \in Int /\ at[j][2] \in Int /\ at[j][1] <= at[j][2]
      <4> TAKE j \in 1 .. Len(at)
      <4>1. at[j][1] \in 1 .. Len(l) /\ at[j][2] \in at[j][1] .. Len(l) - 1
        BY ONLY <1>2, j \in 1 .. Len(at)
      <4> QED BY ONLY <1>1, <4>1
    <3> QED BY ONLY <2>1, <3>1, m \in 1 .. Len(at)
  <2>5. at[m][2] < at[r + 1][1]
    BY ONLY <2>2, <2>3, <2>4
  <2> QED BY <2>1, <2>5
<1>6. \A k \in 0 .. Len(at) : k \in T
  <2> HIDE DEF T
  <2> QED BY <1>2, <1>4, <1>5, Upwards
<1>7. n - m - 1 \in 0 .. Len(at) /\ m + (n - m - 1) + 1 = n
  BY <1>2
<1>8. n - m - 1 \in T
  BY <1>6, <1>7
<1> QED BY <1>7, <1>8

(* A word has characters; one that starts with a quote ends with one, and  *)
(* between them, but for the first character, there is none.               *)
WordShape(C, w) ==
  /\ w \in Seq(C) /\ Len(w) >= 1
  /\ w[1] = Quote =>
       /\ Len(w) >= 3 /\ w[Len(w)] = Quote
       /\ \A j \in 3 .. Len(w) - 1 : w[j] # Quote

LEMMA Shapes ==
  ASSUME NEW C, NEW l, Line(C, l), NEW n \in DOMAIN Split(Text(l))
  PROVE  WordShape(C, Split(Text(l))[n])
<1>1. Len(l) \in Nat
  BY TextIs
<1>2. PICK at : Cuts(l, 1, at) /\ Split(Text(l)) = WordsAt(l, at)
  BY Splitting
<1>3. n \in 1 .. Len(at) /\ Split(Text(l))[n] = SubSeq(l, at[n][1], at[n][2])
  BY <1>2 DEF WordsAt
<1> DEFINE i == at[n][1]
           e == at[n][2]
           w == SubSeq(l, i, e)
<1>4. IsToken(l, Start(1, at, n), i, e) /\ i \in 1 .. Len(l) /\ e \in i .. Len(l) - 1
  BY <1>2, <1>3, Forward
<1> HIDE DEF i, e
<1>5. /\ w \in Seq(C) /\ Len(w) = e - i + 1
      /\ \A j \in 1 .. e - i + 1 : w[j] = l[i + j - 1]
  <2>1. e \in i .. Len(l)
    BY <1>1, <1>4
  <2> QED BY <1>4, <2>1, SameWord
<1> HIDE DEF w
<1>6. ASSUME w[1] = Quote
      PROVE  /\ Len(w) >= 3 /\ w[Len(w)] = Quote
             /\ \A j \in 3 .. Len(w) - 1 : w[j] # Quote
  <2>1. w[1] = l[i]
    BY <1>1, <1>4, <1>5
  <2>2. BlockTo(l, i, e) /\ e >= i + 2 /\ l[e] = Quote
    BY <1>4, <1>6, <2>1 DEF IsToken, WordTo
  <2>3. w[Len(w)] = l[e]
    <3>1. Len(w) \in 1 .. e - i + 1 /\ i + Len(w) - 1 = e
      BY <1>1, <1>4, <1>5
    <3> QED BY <1>5, <3>1
  <2>4. ASSUME NEW j \in 3 .. Len(w) - 1 PROVE w[j] # Quote
    <3>1. j \in 1 .. e - i + 1 /\ i + j - 1 \in i + 2 .. e - 1
      BY <1>1, <1>4, <1>5
    <3>2. w[j] = l[i + j - 1]
      BY <1>5, <3>1
    <3> QED BY <2>2, <3>1, <3>2 DEF BlockTo
  <2>5. Len(w) >= 3
    BY <1>1, <1>4, <1>5, <2>2
  <2> QED BY <2>2, <2>3, <2>4, <2>5
<1>7. Len(w) >= 1
  BY <1>1, <1>4, <1>5
<1>8. WordShape(C, w)
  BY <1>5, <1>6, <1>7 DEF WordShape
<1> QED BY <1>3, <1>8 DEF w, i, e

(* The tokenizer reads nothing behind a line.                              *)
LEMMA NeverBeyond ==
  ASSUME NEW C, NEW l, Line(C, l)
  PROVE  Beyond \notin ToSet(Split(Text(l)))
<1>1. \A n \in DOMAIN Split(Text(l)) : Len(Split(Text(l))[n]) >= 1
  BY Shapes DEF WordShape
<1>2. Len(Beyond) = 0
  BY DEF Beyond
<1> QED BY <1>1, <1>2 DEF ToSet
(* What comes first is one token, or none.                                 *)
LEMMA OneToken ==
  ASSUME NEW l, Len(l) \in Nat, NEW p \in Int, NEW i, NEW e, IsToken(l, p, i, e)
  PROVE  /\ \A j, f : IsToken(l, p, j, f) => j = i /\ f = e
         /\ ~NoToken(l, p)
<1>1. i \in p .. Len(l) /\ e \in i .. Len(l) - 1
  BY DEF IsToken, StartsAt
<1>2. ASSUME NEW j, StartsAt(l, p, j) PROVE j = i
  BY <1>1, <1>2 DEF IsToken, StartsAt
<1>3. ASSUME NEW j, NEW f, IsToken(l, p, j, f) PROVE j = i /\ f = e
  <2>1. j = i
    BY <1>2, <1>3 DEF IsToken
  <2>2. f \in i .. Len(l) - 1
    BY <1>3, <2>1 DEF IsToken
  <2>3. CASE l[i] = Quote
    <3>1. BlockTo(l, i, e) /\ e >= i + 2 /\ l[e] = Quote
      BY <2>3 DEF IsToken, WordTo
    <3>2. BlockTo(l, i, f) /\ f >= i + 2 /\ l[f] = Quote
      BY <1>3, <2>1, <2>3 DEF IsToken, WordTo
    <3> QED BY <1>1, <2>1, <2>2, <3>1, <3>2 DEF BlockTo
  <2>4. CASE l[i] # Quote
    <3>1. WordTo(l, i, e + 1) /\ l[e + 1] \in Delimiters
      BY <2>4 DEF IsToken, BlockTo
    <3>2. WordTo(l, i, f + 1) /\ l[f + 1] \in Delimiters
      BY <1>3, <2>1, <2>4 DEF IsToken, BlockTo
    <3>3. ~(f < e)
      <4>1. \A k \in i .. e : l[k] \notin Delimiters
        BY <1>1, <3>1 DEF WordTo
      <4> QED BY <1>1, <2>2, <3>2, <4>1
    <3>4. ~(e < f)
      <4>1. \A k \in i .. f : l[k] \notin Delimiters
        BY <2>2, <3>2 DEF WordTo
      <4> QED BY <1>1, <2>2, <3>1, <4>1
    <3> QED BY <1>1, <2>1, <2>2, <3>3, <3>4
  <2> QED BY <2>3, <2>4
<1>4. ASSUME NoToken(l, p) PROVE FALSE
  <2>1. l[i] \notin Delimiters
    BY DEF IsToken, StartsAt
  <2>2. PICK j \in p .. Len(l) : StartsAt(l, p, j) /\ BlockTo(l, j, Len(l) + 1)
    BY <1>1, <1>4, <2>1 DEF NoToken
  <2>3. BlockTo(l, i, Len(l) + 1)
    BY <1>2, <2>2
  <2>4. e >= i + 2 /\ l[e] = Quote
    BY <2>3 DEF IsToken, WordTo, BlockTo
  <2>5. e \in i + 2 .. Len(l) + 1 - 1
    BY <1>1, <2>4
  <2> QED BY <2>3, <2>4, <2>5 DEF BlockTo
<1> QED BY <1>3, <1>4

-----------------------------------------------------------------------------
(* What a line means. *)

LEMMA QuotesIs ==
  ASSUME NEW C, NEW l, Line(C, l)
  PROVE  /\ \A i \in Nat : IsFiniteSet(Quotes(l, i)) /\ Cardinality(Quotes(l, i)) \in Nat
         /\ \A i, j \in Nat :
              i <= j /\ (\A k \in i + 1 .. j : k <= Len(l) => l[k] # Quote) =>
                Quotes(l, j) = Quotes(l, i)
         /\ \A i \in 1 .. Len(l) :
              Quotes(l, i) = Quotes(l, i - 1) \cup (IF l[i] = Quote THEN {i} ELSE {})
<1>1. Len(l) \in Nat
  BY TextIs
<1>2. ASSUME NEW i \in Nat
      PROVE  IsFiniteSet(Quotes(l, i)) /\ Cardinality(Quotes(l, i)) \in Nat
  <2>1. IsFiniteSet(1 .. i)
    BY FS_Interval
  <2>2. Quotes(l, i) \subseteq 1 .. i
    BY DEF Quotes
  <2>3. IsFiniteSet(Quotes(l, i))
    BY <2>1, <2>2, FS_Subset
  <2> QED BY <2>3, FS_CardinalityType
<1>3. ASSUME NEW i \in Nat, NEW j \in Nat, i <= j,
             \A k \in i + 1 .. j : k <= Len(l) => l[k] # Quote
      PROVE  Quotes(l, j) = Quotes(l, i)
  BY <1>1, <1>3 DEF Quotes, Quote
<1>4. ASSUME NEW i \in 1 .. Len(l)
      PROVE  Quotes(l, i) = Quotes(l, i - 1) \cup (IF l[i] = Quote THEN {i} ELSE {})
  <2>1. \A j : j \in 1 .. i <=> j \in 1 .. i - 1 \/ j = i
    BY <1>1
  <2> QED BY <1>1, <2>1 DEF Quotes, Quote
<1> QED BY <1>2, <1>3, <1>4

(* Within a line a quote, and nothing else, goes into a block or out of it. *)
LEMMA InsideIs ==
  ASSUME NEW C, NEW l, Line(C, l)
  PROVE  /\ ~Inside(l, 1)
         /\ \A i \in 1 .. Len(l) + 1 : \A j \in i .. Len(l) + 1 :
              (\A k \in i .. j - 1 : l[k] # Quote) => (Inside(l, j) <=> Inside(l, i))
         /\ \A i \in 1 .. Len(l) :
              l[i] = Quote => (Inside(l, i + 1) <=> ~Inside(l, i))
<1>1. Len(l) \in Nat
  BY TextIs
<1>2. ~Inside(l, 1)
  <2>1. Quotes(l, 0) = {}
    BY DEF Quotes
  <2>2. Cardinality({}) = 0
    BY FS_EmptySet
  <2> QED BY <2>1, <2>2 DEF Inside
<1>3. ASSUME NEW i \in 1 .. Len(l) + 1, NEW j \in i .. Len(l) + 1,
             \A k \in i .. j - 1 : l[k] # Quote
      PROVE  Inside(l, j) <=> Inside(l, i)
  <2>1. i - 1 \in Nat /\ j - 1 \in Nat /\ i - 1 <= j - 1 /\ i - 1 + 1 = i
    BY <1>1
  <2>2. Quotes(l, j - 1) = Quotes(l, i - 1)
    BY <1>3, <2>1, QuotesIs
  <2> QED BY <2>2 DEF Inside
<1>4. ASSUME NEW i \in 1 .. Len(l), l[i] = Quote
      PROVE  Inside(l, i + 1) <=> ~Inside(l, i)
  <2> DEFINE n == Cardinality(Quotes(l, i - 1))
  <2>1. i - 1 \in Nat /\ i + 1 - 1 = i
    BY <1>1
  <2>2. IsFiniteSet(Quotes(l, i - 1)) /\ n \in Nat
    BY <2>1, QuotesIs
  <2>3. Quotes(l, i) = Quotes(l, i - 1) \cup {i}
    BY <1>4, QuotesIs
  <2>4. i \notin Quotes(l, i - 1)
    BY <1>1 DEF Quotes
  <2>5. Cardinality(Quotes(l, i)) = n + 1
    BY <2>2, <2>3, <2>4, FS_AddElement
  <2> HIDE DEF n
  <2>6. (n + 1) % 2 = 1 <=> ~(n % 2 = 1)
    BY <2>2
  <2> QED BY <2>1, <2>5, <2>6 DEF Inside, n
<1> QED BY <1>2, <1>3, <1>4

(* Position p is behind a separator and not in a block. *)
Outside(l, p) == ~Inside(l, p) /\ Separates(l, p - 1)

(* The token from i to e is the next word from p on, and is followed by a  *)
(* separator.                                                              *)
NextWord(l, p, i, e) ==
  /\ \A j \in p .. i - 1 : Separates(l, j)
  /\ \A j \in i .. e : ~Separates(l, j)
  /\ Separates(l, i - 1) /\ Separates(l, e + 1)

(* In a well-formed line the tokenizer gives the next word, from wherever  *)
(* it is called.                                                           *)
LEMMA TokenIsWord ==
  ASSUME NEW C, NEW l, Line(C, l), WellFormed(l), NEW p \in 1 .. Len(l) + 1,
         Outside(l, p), NEW i, NEW e, IsToken(l, p, i, e)
  PROVE  NextWord(l, p, i, e) /\ Outside(l, e + 2)
<1> DEFINE N == Len(l)
<1>1. N \in Nat /\ DOMAIN l = 1 .. N /\ Quote \notin Delimiters
  BY TextIs DEF Line
<1>2. /\ i \in p .. N /\ e \in i .. N - 1 /\ l[i] \notin Delimiters
      /\ \A j \in p .. i - 1 : l[j] \in Delimiters
  BY DEF IsToken, StartsAt
<1>3. \A a \in 1 .. N + 1 : \A b \in a .. N + 1 :
        (\A k \in a .. b - 1 : l[k] # Quote) => (Inside(l, b) <=> Inside(l, a))
  BY InsideIs
<1>4. \A j \in p .. i : ~Inside(l, j)
  <2> TAKE j \in p .. i
  <2>1. j \in p .. N + 1 /\ \A k \in p .. j - 1 : l[k] # Quote
    BY <1>1, <1>2
  <2> QED BY <1>3, <2>1 DEF Outside
<1>5. \A j \in p .. i - 1 : Separates(l, j)
  <2> TAKE j \in p .. i - 1
  <2>1. l[j] \in Delimiters /\ j \in p .. i
    BY <1>1, <1>2
  <2> QED BY <1>4, <2>1 DEF Separates
<1>6. Separates(l, i - 1)
  <2>1. CASE i = p
    BY <2>1 DEF Outside
  <2>2. CASE i # p
    <3>1. i - 1 \in p .. i - 1
      BY <1>1, <1>2, <2>2
    <3> QED BY <1>5, <3>1
  <2> QED BY <2>1, <2>2
<1>7. i \in 1 .. N + 1 /\ e + 1 \in 1 .. N + 1 /\ i \in Int /\ e \in Int /\ i <= e /\ e + 1 <= N
  BY <1>1, <1>2
<1>8. ~Inside(l, i)
  BY <1>2, <1>4
<1>9. ASSUME NEW q \in 1 .. N, l[q] = Quote
      PROVE  /\ q \in Quotes(l, N)
             /\ Inside(l, q) => Separates(l, q + 1) /\ q - 1 \notin Quotes(l, q)
             /\ ~Inside(l, q) => Separates(l, q - 1)
  <2>1. q \in Quotes(l, N)
    BY <1>1, <1>9 DEF Quotes, Quote
  <2> QED BY <2>1 DEF WellFormed
<1>10. CASE l[i] # Quote
  <2>1. WordTo(l, i, e + 1) /\ l[e + 1] \in Delimiters
    BY <1>10 DEF IsToken, BlockTo
  <2>2. \A j \in i .. e : l[j] # Quote
    <3> DEFINE M == {j \in i .. e : l[j] = Quote}
    <3> SUFFICES ASSUME M # {} PROVE FALSE
      OBVIOUS
    <3>1. M \in SUBSET Nat
      BY <1>1, <1>2
    <3>2. PICK q \in M : \A j \in M : q <= j
      BY <3>1, SmallestNumber
    <3>3. q \in 1 .. N /\ l[q] = Quote /\ q # i /\ q - 1 \in i .. e /\ q - 1 \in 1 .. N
      BY <1>1, <1>2, <1>10, <3>2
    <3>4. ~Inside(l, q)
      <4>1. \A k \in i .. q - 1 : l[k] # Quote
        BY <1>7, <3>2, <3>3
      <4>2. q \in i .. N + 1
        BY <1>7, <3>3
      <4> QED BY <1>3, <1>7, <1>8, <4>1, <4>2
    <3>5. l[q - 1] \in Delimiters
      BY <1>1, <1>9, <3>3, <3>4 DEF Separates
    <3>6. l[q - 1] \notin Delimiters
      BY <1>7, <2>1, <3>3 DEF WordTo
    <3> QED BY <3>5, <3>6
  <2>3. \A j \in i .. e : ~Separates(l, j)
    BY <1>1, <1>2, <1>7, <2>1 DEF Separates, WordTo
  <2>4. ~Inside(l, e + 1) /\ ~Inside(l, e + 2)
    <3>1. \A k \in i .. e + 1 : l[k] # Quote
      BY <1>1, <1>7, <2>1, <2>2
    <3>2. e + 1 \in i .. N + 1 /\ e + 2 \in i .. N + 1
      BY <1>1, <1>7
    <3>3. (\A k \in i .. e + 1 - 1 : l[k] # Quote) /\ (\A k \in i .. e + 2 - 1 : l[k] # Quote)
      BY <1>7, <3>1
    <3> QED BY <1>3, <1>7, <1>8, <3>2, <3>3
  <2>5. Separates(l, e + 1)
    BY <2>1, <2>4 DEF Separates
  <2>6. NextWord(l, p, i, e)
    BY <1>5, <1>6, <2>3, <2>5 DEF NextWord
  <2> DEFINE k == e + 2
  <2>7. k - 1 = e + 1 /\ ~Inside(l, k)
    BY <1>7, <2>4
  <2> HIDE DEF k
  <2>8. Outside(l, k)
    BY <2>5, <2>7 DEF Outside
  <2> QED BY <2>6, <2>8 DEF k
<1>11. CASE l[i] = Quote
  <2>1. /\ e >= i + 2 /\ l[e] = Quote
        /\ \A k \in i + 2 .. e - 1 : l[k] # Quote
    BY <1>11 DEF IsToken, WordTo, BlockTo
  <2>2. Inside(l, i + 1)
    BY <1>1, <1>2, <1>7, <1>8, <1>11, InsideIs
  <2>3. l[i + 1] # Quote
    <3> SUFFICES ASSUME l[i + 1] = Quote PROVE FALSE
      OBVIOUS
    <3>1. i + 1 \in 1 .. N /\ i + 1 - 1 = i
      BY <1>1, <1>2, <2>1
    <3> DEFINE q == i + 1
    <3>2. q - 1 \notin Quotes(l, q)
      <4>1. q \in 1 .. N /\ l[q] = Quote /\ Inside(l, q)
        BY <2>2, <3>1
      <4> HIDE DEF q
      <4> QED BY <1>9, <4>1
    <3>3. i \notin Quotes(l, i + 1)
      <4>1. q - 1 = i
        BY <1>7
      <4> QED BY <3>2, <4>1
    <3> QED BY <1>1, <1>2, <1>7, <1>11, <3>3 DEF Quotes, Quote
  <2>4. \A j \in i + 1 .. e : Inside(l, j)
    <3> TAKE j \in i + 1 .. e
    <3>1. \A k \in i + 1 .. j - 1 : l[k] # Quote
      BY <1>7, <2>1, <2>3
    <3>2. i + 1 \in 1 .. N + 1 /\ j \in i + 1 .. N + 1
      BY <1>7, <2>1
    <3> QED BY <1>3, <2>2, <3>1, <3>2
  <2>5. e \in 1 .. N /\ Inside(l, e)
    BY <1>1, <1>2, <2>1, <2>4
  <2>6. ~Inside(l, e + 1)
    BY <2>1, <2>5, InsideIs
  <2>7. Separates(l, e + 1)
    BY <1>9, <2>1, <2>5
  <2>8. \A j \in i .. e : ~Separates(l, j)
    <3> TAKE j \in i .. e
    <3>1. j \in DOMAIN l
      BY <1>1, <1>2
    <3>2. j = i \/ j \in i + 1 .. e
      BY <1>7
    <3> QED BY <1>1, <1>11, <2>4, <3>1, <3>2 DEF Separates
  <2>9. l[e + 1] \in Delimiters
    BY <1>1, <1>7, <2>7 DEF Separates
  <2>10. ~Inside(l, e + 2)
    <3>1. e + 2 \in e + 1 .. N + 1 /\ \A k \in e + 1 .. e + 2 - 1 : l[k] # Quote
      BY <1>1, <1>7, <2>9
    <3> QED BY <1>3, <1>7, <2>6, <3>1
  <2>11. NextWord(l, p, i, e)
    BY <1>5, <1>6, <2>7, <2>8 DEF NextWord
  <2> DEFINE k == e + 2
  <2>12. k - 1 = e + 1 /\ ~Inside(l, k)
    BY <1>7, <2>10
  <2> HIDE DEF k
  <2>13. Outside(l, k)
    BY <2>7, <2>12 DEF Outside
  <2> QED BY <2>11, <2>13 DEF k
<1> QED BY <1>10, <1>11
(* Where the tokenizer finds none, no word is left.                        *)
LEMMA NoTokenNoWord ==
  ASSUME NEW C, NEW l, Line(C, l), WellFormed(l), NEW p \in 1 .. Len(l) + 1,
         Outside(l, p), NoToken(l, p)
  PROVE  \A j \in p .. Len(l) : Separates(l, j)
<1> DEFINE N == Len(l)
<1>1. N \in Nat /\ DOMAIN l = 1 .. N /\ Quote \notin Delimiters
  BY TextIs DEF Line
<1>2. \A a \in 1 .. N + 1 : \A b \in a .. N + 1 :
        (\A k \in a .. b - 1 : l[k] # Quote) => (Inside(l, b) <=> Inside(l, a))
  BY InsideIs
<1>3. ASSUME NEW i \in p .. N, StartsAt(l, p, i), BlockTo(l, i, N + 1)
      PROVE  FALSE
  <2>1. /\ i \in 1 .. N /\ l[i] = Quote /\ \A k \in i + 2 .. N : l[k] # Quote
        /\ \A k \in p .. i - 1 : l[k] # Quote
    BY <1>1, <1>3 DEF StartsAt, BlockTo
  <2>2. ~Inside(l, i)
    <3>1. i \in p .. N + 1
      BY <1>1
    <3> QED BY <1>2, <2>1, <3>1 DEF Outside
  <2>3. i \in Quotes(l, N)
    BY <1>1, <2>1 DEF Quotes, Quote
  <2>4. PICK q \in Quotes(l, N) : q > i
    BY <2>2, <2>3 DEF WellFormed
  <2>5. q \in 1 .. N /\ l[q] = Quote
    BY <1>1, <2>4 DEF Quotes, Quote
  <2>6. q = i + 1
    BY <2>1, <2>4, <2>5
  <2>7. Inside(l, q)
    BY <2>1, <2>2, <2>6, InsideIs
  <2>8. q - 1 \notin Quotes(l, q)
    BY <2>4, <2>7 DEF WellFormed
  <2>9. q - 1 = i
    BY <2>1, <2>6
  <2>10. i \notin Quotes(l, q)
    BY <2>8, <2>9
  <2> QED BY <1>1, <2>1, <2>6, <2>10 DEF Quotes, Quote
<1>4. \A j \in p .. N : l[j] \in Delimiters
  BY <1>3 DEF NoToken
<1>5. ASSUME NEW j \in p .. N PROVE Separates(l, j)
  <2>1. j \in p .. N + 1 /\ \A k \in p .. j - 1 : l[k] # Quote
    BY <1>1, <1>4
  <2>2. ~Inside(l, j)
    BY <1>2, <2>1 DEF Outside
  <2> QED BY <1>4, <2>2 DEF Separates
<1> QED BY <1>5

(* The tokenizer is called only where no block is open.                    *)
LEMMA AlwaysOutside ==
  ASSUME NEW C, NEW l, Line(C, l), WellFormed(l), NEW at, Cuts(l, 1, at)
  PROVE  \A n \in 1 .. Len(at) + 1 : Outside(l, Start(1, at, n))
<1> DEFINE T == {n \in Nat : Outside(l, Start(1, at, n + 1))}
<1>1. /\ Len(at) \in Nat
      /\ \A n \in 1 .. Len(at) + 1 : Start(1, at, n) \in 1 .. Len(l) + 1
      /\ \A n \in 1 .. Len(at) :
           /\ IsToken(l, Start(1, at, n), at[n][1], at[n][2])
           /\ Start(1, at, n + 1) = at[n][2] + 2
  BY Forward
<1>2. 0 \in T
  <2>1. Start(1, at, 0 + 1) = 1
    BY DEF Start
  <2>2. Outside(l, 1)
    <3>1. DOMAIN l = 1 .. Len(l) /\ Len(l) \in Nat
      BY TextIs
    <3>2. Separates(l, 1 - 1)
      BY <3>1 DEF Separates
    <3> QED BY <3>2, InsideIs DEF Outside
  <2> QED BY <2>1, <2>2
<1>3. ASSUME NEW n \in 0 .. Len(at), n \in T, n # Len(at) PROVE n + 1 \in T
  <2> DEFINE k == n + 1
  <2>1. k \in 1 .. Len(at) /\ k \in 1 .. Len(at) + 1 /\ Outside(l, Start(1, at, k))
    BY <1>1, <1>3
  <2> HIDE DEF k
  <2>2. /\ IsToken(l, Start(1, at, k), at[k][1], at[k][2])
        /\ Start(1, at, k + 1) = at[k][2] + 2 /\ Start(1, at, k) \in 1 .. Len(l) + 1
    BY <1>1, <2>1
  <2>3. Outside(l, Start(1, at, k + 1))
    BY <2>1, <2>2, TokenIsWord
  <2> QED BY <2>3 DEF k
<1>4. \A n \in 0 .. Len(at) : n \in T
  <2> HIDE DEF T
  <2> QED BY <1>1, <1>2, <1>3, Upwards
<1>5. ASSUME NEW n \in 1 .. Len(at) + 1 PROVE Outside(l, Start(1, at, n))
  <2>1. n - 1 \in 0 .. Len(at) /\ (n - 1) + 1 = n
    BY <1>1
  <2>2. n - 1 \in T
    BY <1>4, <2>1
  <2> QED BY <2>1, <2>2
<1> QED BY <1>5

(* Behind the start of a word that is not cut off, there is none before    *)
(* the next cut.                                                           *)
LEMMA OnlyWord ==
  ASSUME NEW C, NEW l, Line(C, l), NEW p \in 1 .. Len(l) + 1, NEW i, NEW e,
         IsToken(l, p, i, e), NextWord(l, p, i, e),
         NEW a, NEW b, <<a, b>> \in Spans(l), a >= p
  PROVE  (a = i /\ b = e) \/ a >= e + 2
<1>1. /\ Len(l) \in Nat /\ i \in p .. Len(l) /\ e \in i .. Len(l) - 1
      /\ DOMAIN l = 1 .. Len(l)
  BY TextIs DEF IsToken, StartsAt
<1>2. /\ a \in 1 .. Len(l) /\ b \in a .. Len(l) /\ Separates(l, a - 1) /\ Separates(l, b + 1)
      /\ \A j \in a .. b : ~Separates(l, j)
  BY <1>1 DEF Spans
<1>3. a >= i
  <2>1. a \in a .. b
    BY <1>1, <1>2
  <2>2. ~Separates(l, a)
    BY <1>2, <2>1
  <2> QED BY <1>1, <1>2, <2>2 DEF NextWord
<1>4. CASE a = i
  <2>1. ~(b > e)
    <3>1. b > e => e + 1 \in a .. b
      BY <1>1, <1>2, <1>4
    <3> QED BY <1>2, <3>1 DEF NextWord
  <2>2. ~(b < e)
    <3>1. b < e => b + 1 \in i .. e
      BY <1>1, <1>2, <1>4
    <3> QED BY <1>2, <3>1 DEF NextWord
  <2> QED BY <1>1, <1>2, <1>4, <2>1, <2>2
<1>5. CASE a > i
  <2>1. ~(a <= e + 1)
    <3>1. a <= e + 1 => a - 1 \in i .. e
      BY <1>1, <1>2, <1>5
    <3> QED BY <1>2, <3>1 DEF NextWord
  <2> QED BY <1>1, <1>2, <2>1
<1> QED BY <1>1, <1>2, <1>3, <1>4, <1>5

(* The words of a well-formed line are those it means.                     *)
LEMMA WordsAreRight ==
  ASSUME NEW C, NEW l, Line(C, l), WellFormed(l)
  PROVE  AreWordsOf(Split(Text(l)), l)
<1>1. PICK at : Cuts(l, 1, at) /\ Split(Text(l)) = WordsAt(l, at)
  BY Splitting
<1>2. /\ Len(at) \in Nat
      /\ \A n \in 1 .. Len(at) + 1 : Start(1, at, n) \in 1 .. Len(l) + 1
      /\ \A n \in 1 .. Len(at) :
           /\ IsToken(l, Start(1, at, n), at[n][1], at[n][2])
           /\ at[n] = <<at[n][1], at[n][2]>>
           /\ at[n][1] \in 1 .. Len(l) /\ at[n][2] \in at[n][1] .. Len(l) - 1
           /\ Start(1, at, n + 1) = at[n][2] + 2
  BY <1>1, Forward
<1>3. Len(l) \in Nat /\ DOMAIN l = 1 .. Len(l)
  BY TextIs
<1>4. \A n \in 1 .. Len(at) + 1 : Outside(l, Start(1, at, n))
  BY <1>1, AlwaysOutside
<1>5. ASSUME NEW n \in 1 .. Len(at)
      PROVE  NextWord(l, Start(1, at, n), at[n][1], at[n][2])
  <2>1. n \in 1 .. Len(at) + 1
    BY <1>2
  <2>2. /\ Start(1, at, n) \in 1 .. Len(l) + 1 /\ Outside(l, Start(1, at, n))
        /\ IsToken(l, Start(1, at, n), at[n][1], at[n][2])
    BY <1>2, <1>4, <2>1
  <2> QED BY <2>2, TokenIsWord
<1>6. ASSUME NEW n \in 1 .. Len(at) PROVE at[n] \in Spans(l)
  <2> DEFINE i == at[n][1]
             e == at[n][2]
  <2>1. /\ i \in 1 .. Len(l) /\ e \in i .. Len(l) - 1 /\ at[n] = <<i, e>>
        /\ NextWord(l, Start(1, at, n), i, e)
    BY <1>2, <1>5
  <2> HIDE DEF i, e
  <2>2. <<i, e>> \in (DOMAIN l) \X (DOMAIN l) /\ i <= e
    BY <1>3, <2>1
  <2>3. <<i, e>> \in Spans(l)
    BY <2>1, <2>2 DEF Spans, NextWord
  <2> QED BY <2>1, <2>3
<1>7. ASSUME NEW span \in Spans(l), \A n \in 1 .. Len(at) : at[n] # span
      PROVE  FALSE
  <2>1. PICK a, b : span = <<a, b>> /\ a \in 1 .. Len(l) /\ b \in a .. Len(l)
                    /\ ~Separates(l, a)
    <3>1. PICK a, b : span = <<a, b>> /\ a \in 1 .. Len(l) /\ b \in 1 .. Len(l)
      BY <1>3 DEF Spans
    <3>2. a <= b /\ \A i \in a .. b : ~Separates(l, i)
      BY <3>1 DEF Spans
    <3>3. a \in a .. b
      BY <3>1, <3>2
    <3> QED BY <3>1, <3>2, <3>3
  <2> DEFINE T == {n \in Nat : a >= Start(1, at, n + 1)}
  <2>2. 0 \in T
    BY <2>1 DEF Start
  <2>3. ASSUME NEW n \in 0 .. Len(at), n \in T, n # Len(at) PROVE n + 1 \in T
    <3> DEFINE k == n + 1
    <3>1. k \in 1 .. Len(at) /\ k \in 1 .. Len(at) + 1 /\ a >= Start(1, at, k)
      BY <1>2, <2>3
    <3> HIDE DEF k
    <3>2. /\ IsToken(l, Start(1, at, k), at[k][1], at[k][2])
          /\ NextWord(l, Start(1, at, k), at[k][1], at[k][2])
          /\ at[k] = <<at[k][1], at[k][2]>>
          /\ Start(1, at, k + 1) = at[k][2] + 2 /\ Start(1, at, k) \in 1 .. Len(l) + 1
      BY <1>2, <1>5, <3>1
    <3>3. <<a, b>> \in Spans(l)
      BY <2>1
    <3>4. (a = at[k][1] /\ b = at[k][2]) \/ a >= at[k][2] + 2
      BY <3>1, <3>2, <3>3, OnlyWord
    <3>5. ~(a = at[k][1] /\ b = at[k][2])
      BY <1>7, <2>1, <3>1, <3>2
    <3>6. a >= Start(1, at, k + 1)
      BY <3>2, <3>4, <3>5
    <3> QED BY <3>6 DEF k
  <2>4. \A n \in 0 .. Len(at) : n \in T
    <3> HIDE DEF T
    <3> QED BY <1>2, <2>2, <2>3, Upwards
  <2> DEFINE z == Start(1, at, Len(at) + 1)
  <2>5. Len(at) \in T /\ Len(at) + 1 \in 1 .. Len(at) + 1
    BY <1>2, <2>4
  <2>6. a >= z /\ z \in 1 .. Len(l) + 1 /\ Outside(l, z) /\ NoToken(l, z)
    BY <1>1, <1>2, <1>4, <2>5 DEF Cuts
  <2> HIDE DEF z
  <2>7. \A j \in z .. Len(l) : Separates(l, j)
    BY <2>6, NoTokenNoWord
  <2> QED BY <1>3, <2>1, <2>6, <2>7
<1>8. /\ DOMAIN WordsAt(l, at) = 1 .. Len(at)
      /\ \A n \in 1 .. Len(at) : WordsAt(l, at)[n] = SubSeq(l, at[n][1], at[n][2])
  BY DEF WordsAt
<1>9. at \in [1 .. Len(at) -> Spans(l)]
  <2>1. at \in Seq(Int \X Int)
    BY <1>1 DEF Cuts
  <2>2. at = [n \in 1 .. Len(at) |-> at[n]]
    BY <2>1
  <2> QED BY <1>6, <2>2
<1>10. Range(at) = Spans(l)
  <2>1. DOMAIN at = 1 .. Len(at)
    BY <1>9
  <2> QED BY <1>6, <1>7, <2>1 DEF Range
<1>11. \A m, n \in 1 .. Len(at) : m < n => at[m][2] < at[n][1]
  BY <1>1, InOrder
<1> QED BY <1>1, <1>8, <1>9, <1>10, <1>11 DEF AreWordsOf

-----------------------------------------------------------------------------
(* The two threads. *)

(* A pointer and a counter that agree about the block there is.            *)
Holds(b, n) == IF n = 0 THEN b = NULL ELSE b \in DOMAIN heap /\ heap[b] = n

(* No change of the array is under way. *)
Settled == pc \in {"prompt", "command", "loading"}

(* The array, before, within and after a change.                           *)
ArrayInv ==
  /\ Settled => Holds(users, userCount)
  /\ pc \in {"resized", "published"} => Holds(ppNew, newCount)
  /\ pc = "published" => users = ppNew

(* What stats_thread knows, as long as the array has not changed.          *)
ThreadInv ==
  tpc # "asleep" /\ ~raced =>
    /\ Settled /\ userCount > 0 /\ seen = userCount
    /\ tpc = "chosen" => userIdx < userCount

MemoryTyped ==
  /\ pc \in {"prompt", "command", "resized", "published", "loading", "undefined"}
  /\ users \in Addr \cup {NULL} /\ ppNew \in Addr \cup {NULL}
  /\ userCount \in 0 .. MaxUsers /\ newCount \in 0 .. MaxUsers
  /\ DOMAIN heap \subseteq Addr /\ \A a \in DOMAIN heap : heap[a] \in 1 .. MaxUsers
  /\ tpc \in {"asleep", "awake", "chosen"}
  /\ userIdx \in 0 .. IndexBound /\ seen \in 0 .. MaxUsers
  /\ loading \in BOOLEAN /\ raced \in BOOLEAN

MInv == MemoryTyped /\ ArrayInv /\ ThreadInv

LEMMA MInvInit == Init => MInv
<1>1. ASSUME Init PROVE MInv
  <2>1. DOMAIN heap = {}
    BY <1>1 DEF Init, NoBlock
  <2>2. 0 \in 0 .. MaxUsers /\ 0 \in 0 .. IndexBound
    BY SizeAssumption, BoundAssumption
  <2>3. MemoryTyped
    <3>1. DOMAIN heap \subseteq Addr /\ \A a \in DOMAIN heap : heap[a] \in 1 .. MaxUsers
      BY <2>1
    <3> QED BY <1>1, <2>2, <3>1 DEF Init, MemoryTyped
  <2>4. ArrayInv /\ ThreadInv
    BY <1>1 DEF Init, ArrayInv, ThreadInv, Holds, Settled
  <2> QED BY <2>3, <2>4 DEF MInv
<1> QED BY <1>1

(* Whatever a command asks for, the block that realloc leaves has the      *)
(* length that is about to be the count.                                   *)
LEMMA Resized ==
  ASSUME MInv, Settled, NEW n \in 0 .. MaxUsers, Resize(n), loading' \in BOOLEAN
  PROVE  MInv'
<1>1. /\ pc' = "resized" /\ newCount' = n
      /\ raced' = (raced \/ tpc # "asleep")
      /\ UNCHANGED <<users, userCount, tpc, userIdx, seen>>
  BY DEF Resize, Racing, thread
<1>2. CASE n = 0
  <2>1. ppNew' = NULL /\ heap' = [a \in DOMAIN heap \ {users} |-> heap[a]]
    BY <1>2 DEF Resize
  <2>2. MemoryTyped'
    BY <1>1, <1>2, <2>1, SizeAssumption DEF MInv, MemoryTyped
  <2>3. ArrayInv'
    BY <1>1, <1>2, <2>1 DEF ArrayInv, Holds, Settled
  <2> QED BY <1>1, <2>2, <2>3 DEF MInv, ThreadInv, MemoryTyped
<1>3. CASE n # 0
  <2>1. /\ ppNew' \in (Addr \ DOMAIN heap) \cup ({users} \ {NULL})
        /\ heap' = [a \in (DOMAIN heap \ {users}) \cup {ppNew'} |->
                      IF a = ppNew' THEN n ELSE heap[a]]
    BY <1>3 DEF Resize
  <2>2. ppNew' \in Addr
    BY <2>1 DEF MInv, MemoryTyped
  <2>3. MemoryTyped'
    BY <1>1, <1>3, <2>1, <2>2, SizeAssumption DEF MInv, MemoryTyped
  <2>4. ArrayInv'
    BY <1>1, <1>3, <2>1 DEF ArrayInv, Holds, Settled
  <2> QED BY <1>1, <2>3, <2>4 DEF MInv, ThreadInv, MemoryTyped
<1> QED BY <1>2, <1>3

LEMMA MInvNext == MInv /\ [Next]_vars => MInv'
<1> SUFFICES ASSUME MInv, [Next]_vars PROVE MInv'
  OBVIOUS
<1>1. ASSUME UNCHANGED <<conf, thread, raced>>, Settled, Settled' PROVE MInv'
  BY <1>1 DEF MInv, MemoryTyped, ArrayInv, ThreadInv, Holds, Settled, conf, thread
<1>2. CASE ReadLine
  BY <1>1, <1>2 DEF ReadLine, Settled
<1>3. CASE NoChange \/ PrintConfig \/ SetName \/ DefaultName
  BY <1>1, <1>3 DEF NoChange, PrintConfig, SetName, DefaultName, Done, Settled
<1>4. CASE LoadFirst
  BY <1>4 DEF LoadFirst, MInv, MemoryTyped, ArrayInv, ThreadInv, Holds, Settled, thread
<1>5. CASE LoadEnd
  BY <1>5 DEF LoadEnd, Done, MInv, MemoryTyped, ArrayInv, ThreadInv, Holds, Settled, thread
<1>6. CASE Add
  <2>1. userCount + 1 \in 0 .. MaxUsers
    BY <1>6, SizeAssumption DEF Add, MInv, MemoryTyped
  <2> QED BY <1>6, <2>1, Resized DEF Add, Settled, MInv, MemoryTyped
<1>7. CASE Del
  <2>1. userCount - 1 \in 0 .. MaxUsers
    BY <1>7, SizeAssumption DEF Del, MInv, MemoryTyped
  <2> QED BY <1>7, <2>1, Resized DEF Del, Settled, MInv, MemoryTyped
<1>8. CASE Clear \/ LoadFail
  <2>1. 0 \in 0 .. MaxUsers
    BY SizeAssumption
  <2> QED BY <1>8, <2>1, Resized DEF Clear, LoadFail, Settled, MInv, MemoryTyped
<1>9. CASE LoadUser
  <2>1. userCount + 1 \in 0 .. MaxUsers
    BY <1>9, SizeAssumption DEF LoadUser, MInv, MemoryTyped
  <2> QED BY <1>9, <2>1, Resized DEF LoadUser, Settled, MInv, MemoryTyped
<1>10. CASE Publish
  BY <1>10 DEF Publish, Racing, MInv, MemoryTyped, ArrayInv, ThreadInv, Holds, Settled, thread
<1>11. CASE SetCount
  <2>1. /\ pc = "published" /\ pc' \in {"prompt", "loading"}
        /\ userCount' = newCount /\ newCount' = 0 /\ ppNew' = NULL
        /\ raced' = (raced \/ tpc # "asleep")
        /\ UNCHANGED <<users, heap, loading, tpc, userIdx, seen>>
    BY <1>11 DEF SetCount, Done, Racing, thread
  <2>2. MemoryTyped'
    BY <2>1, SizeAssumption DEF MInv, MemoryTyped
  <2>3. ArrayInv' /\ ThreadInv'
    BY <2>1 DEF MInv, MemoryTyped, ArrayInv, ThreadInv, Holds, Settled
  <2> QED BY <2>2, <2>3 DEF MInv
<1>12. CASE Wake
  <2>1. /\ tpc' = "awake" /\ seen' = userCount /\ userCount > 0 /\ pc # "undefined"
        /\ raced' = (pc \in {"resized", "published"})
        /\ UNCHANGED <<pc, users, userCount, heap, ppNew, newCount, loading, userIdx>>
    BY <1>12 DEF Wake, main, conf
  <2>2. MemoryTyped'
    BY <2>1 DEF MInv, MemoryTyped
  <2>3. ThreadInv'
    BY <2>1 DEF MInv, MemoryTyped, ThreadInv, Settled
  <2> QED BY <2>1, <2>2, <2>3 DEF MInv, ArrayInv, Holds, Settled
<1>13. CASE Choose
  <2>1. PICK count \in {seen, userCount} : userIdx' = NextUserIdx(count)
    BY <1>13 DEF Choose
  <2>2. /\ tpc = "awake" /\ tpc' = "chosen" /\ userIdx' <= IndexBound
        /\ UNCHANGED <<pc, users, userCount, heap, ppNew, newCount, loading, seen, raced>>
    BY <1>13 DEF Choose, main, conf
  <2>3. userIdx \in Nat /\ count \in Nat /\ MaxUsers \in Nat
    BY <2>1, SizeAssumption DEF MInv, MemoryTyped
  <2>4. userIdx' \in Nat /\ (count > 0 => userIdx' < count)
    BY <2>1, <2>3 DEF NextUserIdx
  <2>5. MemoryTyped'
    BY <2>2, <2>4, BoundAssumption DEF MInv, MemoryTyped
  <2>6. ArrayInv' /\ ThreadInv'
    BY <2>1, <2>2, <2>4 DEF MInv, ArrayInv, ThreadInv, Holds, Settled
  <2> QED BY <2>5, <2>6 DEF MInv
<1>14. CASE Count
  <2>1. /\ tpc' = "asleep" /\ seen' = 0 /\ raced' = FALSE /\ pc' \in {pc, "undefined"}
        /\ UNCHANGED <<users, userCount, heap, ppNew, newCount, loading, userIdx>>
    BY <1>14 DEF Count, main, conf
  <2>2. 0 \in 0 .. MaxUsers
    BY SizeAssumption
  <2>3. MemoryTyped'
    BY <2>1, <2>2 DEF MInv, MemoryTyped
  <2> QED BY <2>1, <2>3 DEF MInv, ArrayInv, ThreadInv, Holds, Settled
<1>15. CASE Restart
  <2>1. DOMAIN heap' = {}
    BY <1>15 DEF Restart, NoBlock
  <2>2. MemoryTyped'
    <3>1. DOMAIN heap' \subseteq Addr /\ \A a \in DOMAIN heap' : heap'[a] \in 1 .. MaxUsers
      BY <2>1
    <3>2. 0 \in 0 .. MaxUsers /\ 0 \in 0 .. IndexBound
      BY SizeAssumption, BoundAssumption
    <3> QED BY <1>15, <3>1, <3>2 DEF Restart, MemoryTyped
  <2> QED BY <1>15, <2>2 DEF Restart, MInv, ArrayInv, ThreadInv, Holds, Settled
<1>16. CASE UNCHANGED vars
  BY <1>16 DEF vars, conf, thread, MInv, MemoryTyped, ArrayInv, ThreadInv, Holds, Settled
<1> QED
  BY <1>2, <1>3, <1>4, <1>5, <1>6, <1>7, <1>8, <1>9, <1>10, <1>11, <1>12, <1>13,
     <1>14, <1>15, <1>16
  DEF Next, Command, Change, Stats

(* If the array does not change between waking up and counting, the user   *)
(* that stats_thread counts for exists, for every maximum, allocator and   *)
(* sequence of commands and loads before.                                  *)
THEOREM CountsForAUser == Spec => []StatsSafe
<1>1. MInv => StatsSafe
  BY DEF MInv, ThreadInv, ArrayInv, Holds, StatsSafe, Live, MemoryTyped
<1>2. QED BY <1>1, MInvInit, MInvNext, PTL DEF Spec

-----------------------------------------------------------------------------
(* The lines and the string. *)

(* What the string can be: what was between the quotes of a word, which    *)
(* has no quote behind its first character, or what a store had.           *)
ShortString(v) ==
  /\ v \in Seq(Chars) /\ Len(v) < NameLen
  /\ \A j \in 2 .. Len(v) : v[j] # Quote

NameInv ==
  /\ ShortString(name) /\ ShortString(printed)
  /\ pc = "command" => Line(Chars, typed)

LEMMA CharsAre ==
  /\ Letter \in Chars /\ Space \in Chars /\ Newline \in Chars /\ NUL \notin Chars
  /\ Space \in Delimiters /\ Newline \in Delimiters /\ Letter \notin Delimiters
  /\ BlockStart = <<Quote>> /\ BlockEnd = <<Quote>> /\ Quote \in Chars
  /\ Quote \notin Delimiters /\ Quote # NUL /\ Quote # Letter /\ Quote # Space
<1>1. PICK quote \in Chars \ {Letter, Space, Newline} :
        BlockStart = <<quote>> /\ BlockEnd = <<quote>>
  BY CharAssumption
<1>2. Quote = quote
  BY <1>1 DEF Quote
<1> QED BY <1>1, <1>2, CharAssumption

LEMMA LinesAre == \A l \in Lines : Line(Chars, l)
<1> TAKE l \in Lines
<1>1. l \in Seq(Chars) /\ l # <<>> /\ Last(l) = Newline
  BY NewlineAssumption
<1> QED BY <1>1, CharsAre DEF Line, Last

(* The line a string v was printed as, and the tokens in it.               *)
LineOf(v) == <<Letter, Space, Letter, Space>> \o prt_str(v) \o <<Newline>>

LEMMA PrintedLine ==
  ASSUME NEW v, ShortString(v)
  PROVE  /\ Line(Chars, LineOf(v)) /\ Len(LineOf(v)) = Len(v) + 7 /\ Len(v) \in Nat
         /\ LineOf(v)[1] = Letter /\ LineOf(v)[2] = Space /\ LineOf(v)[3] = Letter
         /\ LineOf(v)[4] = Space /\ LineOf(v)[5] = Quote
         /\ \A j \in 1 .. Len(v) : LineOf(v)[j + 5] = v[j]
         /\ LineOf(v)[Len(v) + 6] = Quote /\ LineOf(v)[Len(v) + 7] = Newline
<1> DEFINE b == <<Quote>>
           h == <<Letter, Space, Letter, Space>>
           e == <<Newline>>
           x == b \o v
           y == x \o b
           z == h \o y
           l == z \o e
           n == Len(v)
<1>1. LineOf(v) = l
  BY CharsAre DEF LineOf, prt_str
<1>2. v \in Seq(Chars) /\ n \in Nat /\ Len(v) = n
  BY DEF ShortString
<1>3. /\ b \in Seq(Chars) /\ Len(b) = 1
      /\ h \in Seq(Chars) /\ Len(h) = 4
      /\ e \in Seq(Chars) /\ Len(e) = 1
  BY CharsAre
<1>4. /\ b[1] = Quote /\ e[1] = Newline
      /\ h[1] = Letter /\ h[2] = Space /\ h[3] = Letter /\ h[4] = Space
  OBVIOUS
<1> HIDE DEF n, b, h, e
<1>5. /\ x \in Seq(Chars) /\ Len(x) = n + 1
      /\ x[1] = Quote /\ \A j \in 1 .. n : x[j + 1] = v[j]
  <2>1. /\ x \in Seq(Chars) /\ Len(x) = Len(b) + Len(v)
        /\ \A i \in 1 .. Len(b) + Len(v) : x[i] = IF i <= Len(b) THEN b[i] ELSE v[i - Len(b)]
    BY ONLY <1>2, <1>3, ConcatProperties
  <2>2. \A i \in 1 .. n + 1 : x[i] = IF i <= 1 THEN b[i] ELSE v[i - 1]
    BY <1>2, <1>3, <2>1
  <2>3. \A j \in 1 .. n : j + 1 \in 1 .. n + 1 /\ ~(j + 1 <= 1) /\ (j + 1) - 1 = j
    BY <1>2
  <2>4. 1 \in 1 .. n + 1
    BY <1>2
  <2> HIDE DEF x
  <2> QED BY <1>2, <1>3, <1>4, <2>1, <2>2, <2>3, <2>4
<1> HIDE DEF x
<1>6. /\ y \in Seq(Chars) /\ Len(y) = n + 2
      /\ y[n + 2] = Quote /\ \A i \in 1 .. n + 1 : y[i] = x[i]
  <2>1. /\ y \in Seq(Chars) /\ Len(y) = Len(x) + Len(b)
        /\ \A i \in 1 .. Len(x) + Len(b) : y[i] = IF i <= Len(x) THEN x[i] ELSE b[i - Len(x)]
    BY ONLY <1>3, <1>5, ConcatProperties
  <2>2. \A i \in 1 .. n + 2 : y[i] = IF i <= n + 1 THEN x[i] ELSE b[i - (n + 1)]
    BY <1>2, <1>3, <1>5, <2>1
  <2>3. n + 2 \in 1 .. n + 2 /\ ~(n + 2 <= n + 1) /\ (n + 2) - (n + 1) = 1
    BY <1>2
  <2>4. \A i \in 1 .. n + 1 : i \in 1 .. n + 2 /\ i <= n + 1
    BY <1>2
  <2> HIDE DEF y
  <2> QED BY <1>2, <1>3, <1>4, <1>5, <2>1, <2>2, <2>3, <2>4
<1> HIDE DEF y
<1>7. /\ z \in Seq(Chars) /\ Len(z) = n + 6
      /\ \A i \in 1 .. 4 : z[i] = h[i]
      /\ \A i \in 1 .. n + 2 : z[i + 4] = y[i]
  <2>1. /\ z \in Seq(Chars) /\ Len(z) = Len(h) + Len(y)
        /\ \A i \in 1 .. Len(h) + Len(y) : z[i] = IF i <= Len(h) THEN h[i] ELSE y[i - Len(h)]
    BY ONLY <1>3, <1>6, ConcatProperties
  <2>2. \A i \in 1 .. n + 6 : z[i] = IF i <= 4 THEN h[i] ELSE y[i - 4]
    BY <1>2, <1>3, <1>6, <2>1
  <2>3. \A i \in 1 .. n + 2 : i + 4 \in 1 .. n + 6 /\ ~(i + 4 <= 4) /\ (i + 4) - 4 = i
    BY <1>2
  <2>4. \A i \in 1 .. 4 : i \in 1 .. n + 6 /\ i <= 4
    BY <1>2
  <2> HIDE DEF z
  <2> QED BY <1>2, <1>3, <1>6, <2>1, <2>2, <2>3, <2>4
<1> HIDE DEF z
<1>8. /\ l \in Seq(Chars) /\ Len(l) = n + 7
      /\ l[n + 7] = Newline /\ \A i \in 1 .. n + 6 : l[i] = z[i]
  <2>1. /\ l \in Seq(Chars) /\ Len(l) = Len(z) + Len(e)
        /\ \A i \in 1 .. Len(z) + Len(e) : l[i] = IF i <= Len(z) THEN z[i] ELSE e[i - Len(z)]
    BY ONLY <1>3, <1>7, ConcatProperties
  <2>2. \A i \in 1 .. n + 7 : l[i] = IF i <= n + 6 THEN z[i] ELSE e[i - (n + 6)]
    BY <1>2, <1>3, <1>7, <2>1
  <2>3. n + 7 \in 1 .. n + 7 /\ ~(n + 7 <= n + 6) /\ (n + 7) - (n + 6) = 1
    BY <1>2
  <2>4. \A i \in 1 .. n + 6 : i \in 1 .. n + 7 /\ i <= n + 6
    BY <1>2
  <2> HIDE DEF l
  <2> QED BY <1>2, <1>3, <1>4, <1>7, <2>1, <2>2, <2>3, <2>4
<1> HIDE DEF l
<1>9. l[1] = Letter /\ l[2] = Space /\ l[3] = Letter /\ l[4] = Space
  <2>1. \A i \in 1 .. 4 : i \in 1 .. n + 6
    BY <1>2
  <2>2. \A i \in 1 .. 4 : l[i] = h[i]
    BY <1>7, <1>8, <2>1
  <2> QED BY <1>4, <2>2
<1>10. \A i \in 1 .. n + 2 : l[i + 4] = y[i]
  <2>1. \A i \in 1 .. n + 2 : i + 4 \in 1 .. n + 6
    BY <1>2
  <2> QED BY <1>7, <1>8, <2>1
<1>11. l[5] = Quote /\ l[n + 6] = Quote
  <2>1. l[1 + 4] = y[1] /\ l[(n + 2) + 4] = y[n + 2] /\ y[1] = x[1] /\ (n + 2) + 4 = n + 6
    BY <1>2, <1>6, <1>10
  <2> QED BY <1>5, <1>6, <2>1
<1>12. \A j \in 1 .. n : l[j + 5] = v[j]
  <2> TAKE j \in 1 .. n
  <2>1. j + 1 \in 1 .. n + 1 /\ j + 1 \in 1 .. n + 2 /\ (j + 1) + 4 = j + 5
    BY <1>2
  <2>2. l[(j + 1) + 4] = y[j + 1] /\ y[j + 1] = x[j + 1] /\ x[j + 1] = v[j]
    BY <1>5, <1>6, <1>10, <2>1
  <2> QED BY <2>1, <2>2
<1>13. Line(Chars, l)
  <2>1. l # <<>>
    BY <1>2, <1>8
  <2> QED BY <1>2, <1>8, <2>1, CharsAre DEF Line
<1> QED BY <1>1, <1>2, <1>8, <1>9, <1>11, <1>12, <1>13

(* What a quoted word leaves in the string. *)
LEMMA SetShort ==
  ASSUME NEW w, WordShape(Chars, w), set_str_valid(w), NEW old
  PROVE  ShortString(set_str(old, w, NameLen))
<1> DEFINE m == Len(w) - 1
           k == Min({NameLen, m})
           v == SubSeq(w, 2, k)
<1>1. w \in Seq(Chars) /\ Len(w) \in Nat /\ Len(w) >= 1
  BY DEF WordShape
<1>2. w[1] = Quote
  <2>1. Head(w) = w[1]
    BY <1>1, w # <<>>
  <2> QED BY <2>1 DEF set_str_valid, Quote
<1>3. Len(w) >= 3 /\ \A j \in 3 .. Len(w) - 1 : w[j] # Quote
  BY <1>2 DEF WordShape
<1>4. k \in Nat /\ k >= 1 /\ k <= NameLen /\ k <= m
  <2>1. NameLen \in Nat \ {0} /\ m \in Nat /\ m >= 1
    BY <1>1, <1>3, SizeAssumption
  <2>2. \E x \in {NameLen, m} : \A y \in {NameLen, m} : x <= y
    BY <2>1
  <2>3. k \in {NameLen, m} /\ \A y \in {NameLen, m} : k <= y
    <3> HIDE DEF m
    <3> QED BY <2>2 DEF Min
  <2> QED BY <2>1, <2>3
<1> HIDE DEF k
<1>5. /\ v \in Seq(Chars) /\ Len(v) = IF 2 <= k THEN k - 2 + 1 ELSE 0
      /\ \A i \in 1 .. k - 2 + 1 : v[i] = w[2 + i - 1]
  <2>1. \A i \in 2 .. k : w[i] \in Chars
    BY <1>1, <1>4
  <2> QED BY ONLY <1>4, <2>1, SubSeqProperties
<1>6. Len(v) = k - 1 /\ \A i \in 1 .. k - 1 : v[i] = w[i + 1]
  BY <1>4, <1>5
<1> HIDE DEF v
<1>7. Len(v) < NameLen
  BY <1>4, <1>6, SizeAssumption
<1>8. ASSUME NEW j \in 2 .. Len(v) PROVE v[j] # Quote
  <2>1. j \in 1 .. k - 1 /\ j + 1 \in 3 .. Len(w) - 1
    BY <1>1, <1>4, <1>6
  <2>2. v[j] = w[j + 1]
    BY <1>6, <2>1
  <2> QED BY <1>3, <2>1, <2>2
<1>9. ShortString(v)
  BY <1>5, <1>7, <1>8 DEF ShortString
<1> QED BY <1>3, <1>9 DEF set_str, v, k

LEMMA NameInvInit == Init => NameInv
<1>1. <<>> \in Seq(Chars) /\ Len(<<>>) = 0
  OBVIOUS
<1>2. ShortString(<<>>)
  BY <1>1, SizeAssumption DEF ShortString
<1> QED BY <1>2 DEF Init, NameInv

LEMMA NameInvNext == NameInv /\ [Next]_vars => NameInv'
<1> SUFFICES ASSUME NameInv, [Next]_vars PROVE NameInv'
  OBVIOUS
<1>0. ShortString(<<>>)
  <2>1. <<>> \in Seq(Chars) /\ Len(<<>>) = 0
    OBVIOUS
  <2> QED BY <2>1, SizeAssumption DEF ShortString
<1>1. ASSUME name' \in {name, <<>>}, printed' \in {printed, name},
             pc' = "command" => pc = "command" /\ typed' = typed
      PROVE  NameInv'
  <2>1. ShortString(name') /\ ShortString(printed')
    BY <1>0, <1>1 DEF NameInv
  <2>2. pc' = "command" => Line(Chars, typed')
    BY <1>1 DEF NameInv
  <2> QED BY <2>1, <2>2 DEF NameInv, ShortString, Line, Quote
<1>2. CASE ReadLine
  <2>1. Line(Chars, typed')
    <3>1. Line(Chars, Printed)
      BY PrintedLine DEF NameInv, LineOf, Printed
    <3> QED BY <1>2, <3>1, LinesAre DEF ReadLine
  <2> QED BY <1>2, <2>1 DEF ReadLine, NameInv, ShortString, Line, Quote
<1>3. CASE SetName
  <2>1. /\ pc = "command" /\ Len(Words) = 3 /\ set_str_valid(Words[3])
        /\ name' = set_str(name, Words[3], NameLen)
        /\ printed' = printed /\ pc' = "prompt"
    BY <1>3 DEF SetName, Done
  <2>2. Line(Chars, typed)
    BY <2>1 DEF NameInv
  <2>3. 3 \in DOMAIN Words
    <3>1. PICK at : Cuts(typed, 1, at) /\ Words = WordsAt(typed, at)
      BY <2>2, Splitting DEF Words, Text
    <3>2. Len(at) \in Nat /\ DOMAIN Words = 1 .. Len(at)
      BY <3>1 DEF Cuts, WordsAt
    <3>3. Len(WordsAt(typed, at)) = Len(at)
      BY <3>2 DEF WordsAt
    <3> QED BY <2>1, <3>1, <3>2, <3>3
  <2>4. WordShape(Chars, Words[3])
    BY <2>2, <2>3, Shapes DEF Words, Text
  <2>5. ShortString(name')
    BY <2>1, <2>4, SetShort
  <2> QED BY <2>1, <2>5 DEF NameInv, ShortString, Line, Quote
<1>4. CASE LoadEnd
  <2>1. ShortString(name')
    <3>1. PICK n \in 0 .. NameLen - 1 : name' \in [1 .. n -> {Letter, Space}]
      BY <1>4 DEF LoadEnd, Names
    <3>2. n \in Nat /\ n < NameLen
      BY <3>1, SizeAssumption
    <3>3. /\ name' = [j \in 1 .. n |-> name'[j]]
          /\ \A j \in 1 .. n : name'[j] \in Chars /\ name'[j] # Quote
      BY <3>1, CharsAre
    <3>4. name' \in Seq(Chars)
      BY <3>2, <3>3, IsASeq
    <3>5. Len(name') = n
      BY <3>2, <3>3, <3>4, LenProperties
    <3> QED BY <3>2, <3>3, <3>4, <3>5 DEF ShortString
  <2> QED BY <1>4, <2>1 DEF LoadEnd, Done, NameInv, ShortString, Line, Quote
<1>5. CASE NoChange \/ PrintConfig \/ DefaultName
  BY <1>1, <1>5 DEF NoChange, PrintConfig, DefaultName, Done
<1>6. CASE Add \/ Del \/ Clear \/ LoadFirst
  BY <1>1, <1>6 DEF Add, Del, Clear, LoadFirst, Resize
<1>7. CASE LoadUser \/ LoadFail \/ Publish \/ SetCount
  BY <1>1, <1>7 DEF LoadUser, LoadFail, Publish, SetCount, Done, Resize
<1>8. CASE Wake \/ Choose \/ Count
  BY <1>1, <1>8 DEF Wake, Choose, Count, main
<1>9. CASE Restart
  BY <1>1, <1>9 DEF Restart
<1>10. CASE UNCHANGED vars
  BY <1>1, <1>10 DEF vars
<1> QED BY <1>2, <1>3, <1>4, <1>5, <1>6, <1>7, <1>8, <1>9, <1>10
        DEF Next, Command, Change, Stats

(* Every variable has its type: no command, and no store, makes the string *)
(* longer than the memory it has.                                          *)
THEOREM ApplicationTyped == Spec => []TypeOK
<1>1. MInv /\ NameInv => TypeOK
  BY DEF MInv, MemoryTyped, NameInv, ShortString, TypeOK
<1> QED BY <1>1, MInvInit, MInvNext, NameInvInit, NameInvNext, PTL DEF Spec

(* For every line that ends with a newline the tokenizer reads nothing     *)
(* behind it; and when blocks are not empty, closed and set apart, its     *)
(* words are those the line means.                                         *)
THEOREM Tokenizes == Spec => []WordsRight
<1>1. NameInv => WordsRight
  <2> SUFFICES ASSUME Line(Chars, typed)
               PROVE  /\ Beyond \notin ToSet(Words)
                      /\ WellFormed(typed) => AreWordsOf(Words, typed)
    BY DEF NameInv, WordsRight
  <2>1. Words = Split(Text(typed))
    BY DEF Words, Text
  <2> QED BY <2>1, NeverBeyond, WordsAreRight
<1> QED BY <1>1, NameInvInit, NameInvNext, PTL DEF Spec

(* The words of a printed line, and what the third of them gives back.     *)
LEMMA Replayed ==
  ASSUME NEW v, ShortString(v), v # <<>>, NEW old
  PROVE  LET words == Split(Text(LineOf(v)))
         IN  /\ Len(words) = 3 /\ set_str_valid(words[3])
             /\ set_str(old, words[3], NameLen) = v
<1> DEFINE l == LineOf(v)
           n == Len(v)
<1>1. /\ Line(Chars, l) /\ Len(l) = n + 7 /\ n \in Nat
      /\ l[1] = Letter /\ l[2] = Space /\ l[3] = Letter /\ l[4] = Space
      /\ l[5] = Quote /\ \A j \in 1 .. n : l[j + 5] = v[j]
      /\ l[n + 6] = Quote /\ l[n + 7] = Newline
  BY PrintedLine
<1>2. v \in Seq(Chars) /\ n >= 1 /\ n < NameLen /\ \A j \in 2 .. n : v[j] # Quote
  BY DEF ShortString
<1> HIDE DEF l
<1>3. IsToken(l, 1, 1, 1) /\ IsToken(l, 3, 3, 3)
  BY <1>1, CharsAre DEF IsToken, StartsAt, WordTo
<1>4. IsToken(l, 5, 5, n + 6)
  <2>1. StartsAt(l, 5, 5)
    BY <1>1, CharsAre DEF StartsAt
  <2>2. BlockTo(l, 5, n + 6)
    <3> SUFFICES ASSUME NEW k \in 7 .. n + 5 PROVE l[k] # Quote
      BY <1>1 DEF BlockTo
    <3>1. k - 5 \in 2 .. n /\ k - 5 \in 1 .. n /\ (k - 5) + 5 = k
      BY <1>1
    <3>2. l[k] = v[k - 5]
      BY <1>1, <3>1
    <3> QED BY <1>2, <3>1, <3>2
  <2>3. n + 6 \in 5 .. Len(l) - 1 /\ n + 6 >= 5 + 2
    BY <1>1, <1>2
  <2> QED BY <1>1, <2>1, <2>2, <2>3 DEF IsToken
<1>5. NoToken(l, n + 8)
  BY <1>1 DEF NoToken
<1>6. PICK at : Cuts(l, 1, at) /\ Split(Text(l)) = WordsAt(l, at)
  BY <1>1, Splitting
<1>18. Len(at) \in Nat
  BY <1>6 DEF Cuts
<1>7. /\ \A k \in 1 .. Len(at) :
           /\ IsToken(l, Start(1, at, k), at[k][1], at[k][2])
           /\ Start(1, at, k + 1) = at[k][2] + 2
      /\ NoToken(l, Start(1, at, Len(at) + 1))
      /\ Start(1, at, 1) = 1
  <2>1. \A k \in 1 .. Len(at) :
           /\ IsToken(l, Start(1, at, k), at[k][1], at[k][2])
           /\ Start(1, at, k + 1) = at[k][2] + 2
    BY <1>1, <1>6, Forward
  <2>2. NoToken(l, Start(1, at, Len(at) + 1))
    BY <1>6 DEF Cuts
  <2>3. Start(1, at, 1) = 1
    BY DEF Start
  <2> QED BY <2>1, <2>2, <2>3
<1>8. \A p \in Int : \A i, e : IsToken(l, p, i, e) =>
        /\ \A j, f : IsToken(l, p, j, f) => j = i /\ f = e
        /\ ~NoToken(l, p)
  BY <1>1, OneToken
<1>9. Len(at) # 0
  <2>1. ~NoToken(l, 1)
    BY <1>3, <1>8
  <2>2. Len(at) = 0 => Start(1, at, Len(at) + 1) = 1
    BY <1>7
  <2> QED BY <1>7, <2>1, <2>2
<1>10. Start(1, at, 2) = 3
  <2>1. 1 \in 1 .. Len(at)
    BY <1>9, <1>18
  <2>3. IsToken(l, 1, at[1][1], at[1][2]) /\ Start(1, at, 1 + 1) = at[1][2] + 2
    BY <1>7, <2>1
  <2>2. at[1][2] = 1 /\ Start(1, at, 1 + 1) = at[1][2] + 2
    BY <1>3, <1>8, <2>3
  <2> QED BY <2>2
<1>11. Len(at) # 1
  <2>1. ~NoToken(l, 3)
    BY <1>3, <1>8
  <2>2. Len(at) = 1 => Start(1, at, Len(at) + 1) = 3
    BY <1>10
  <2> QED BY <1>7, <2>1, <2>2
<1>12. Start(1, at, 3) = 5
  <2>1. 2 \in 1 .. Len(at)
    <3>1. \A k \in Nat : k # 0 /\ k # 1 => 2 \in 1 .. k
      OBVIOUS
    <3> QED BY <1>9, <1>11, <1>18, <3>1
  <2>3. IsToken(l, 3, at[2][1], at[2][2]) /\ Start(1, at, 2 + 1) = at[2][2] + 2
    BY <1>7, <1>10, <2>1
  <2>2. at[2][2] = 3 /\ Start(1, at, 2 + 1) = at[2][2] + 2
    BY <1>3, <1>8, <2>3
  <2> QED BY <2>2
<1>13. Len(at) # 2
  <2>1. ~NoToken(l, 5)
    BY <1>4, <1>8
  <2>2. Len(at) = 2 => Start(1, at, Len(at) + 1) = 5
    BY <1>12
  <2> QED BY <1>7, <2>1, <2>2
<1>14. 3 \in 1 .. Len(at)
  <2>1. \A k \in Nat : k # 0 /\ k # 1 /\ k # 2 => 3 \in 1 .. k
    OBVIOUS
  <2> QED BY <1>9, <1>11, <1>13, <1>18, <2>1
<1>15. at[3][1] = 5 /\ at[3][2] = n + 6 /\ Start(1, at, 4) = n + 8
  <2>2. IsToken(l, 5, at[3][1], at[3][2]) /\ Start(1, at, 3 + 1) = at[3][2] + 2
    BY <1>7, <1>12, <1>14
  <2>1. at[3][1] = 5 /\ at[3][2] = n + 6 /\ Start(1, at, 3 + 1) = at[3][2] + 2
    BY <1>4, <1>8, <2>2
  <2> QED BY <1>1, <2>1
<1>16. Len(at) = 3
  <2> SUFFICES ASSUME Len(at) # 3 PROVE FALSE
    OBVIOUS
  <2>1. 4 \in 1 .. Len(at)
    <3>1. \A k \in Nat : 3 \in 1 .. k /\ k # 3 => 4 \in 1 .. k
      OBVIOUS
    <3> QED BY <1>14, <1>18, <3>1
  <2>2. IsToken(l, n + 8, at[4][1], at[4][2])
    BY <1>7, <1>15, <2>1
  <2>3. n + 8 \in Int
    BY <1>1
  <2> QED BY <1>5, <1>8, <2>2, <2>3
<1> DEFINE words == Split(Text(l))
           w == SubSeq(l, 5, n + 6)
<1>17. Len(words) = 3 /\ words[3] = w
  <2>1. Len(WordsAt(l, at)) = Len(at)
    BY <1>18 DEF WordsAt
  <2>2. Len(WordsAt(l, at)) = 3 /\ WordsAt(l, at)[3] = SubSeq(l, at[3][1], at[3][2])
    <3>1. 3 \in 1 .. Len(at)
      BY <1>14
    <3> QED BY <1>16, <2>1, <3>1 DEF WordsAt
  <2> QED BY <1>6, <1>15, <2>2
<1>19. /\ w \in Seq(Chars) /\ Len(w) = n + 2
       /\ \A j \in 1 .. n + 2 : w[j] = l[j + 4]
  <2>1. 5 \in 1 .. Len(l) /\ n + 6 \in 5 .. Len(l)
    BY <1>1
  <2>2. /\ w \in Seq(Chars) /\ Len(w) = n + 6 - 5 + 1
        /\ \A j \in 1 .. n + 6 - 5 + 1 : w[j] = l[5 + j - 1]
    BY <1>1, <2>1, SameWord
  <2> QED BY <1>1, <2>2
<1> HIDE DEF w
<1>20. w[1] = Quote /\ w[n + 2] = Quote /\ \A j \in 1 .. n : w[j + 1] = v[j]
  <2>1. w[1] = l[1 + 4] /\ w[n + 2] = l[(n + 2) + 4] /\ \A j \in 1 .. n : w[j + 1] = l[(j + 1) + 4]
    BY <1>1, <1>19
  <2> QED BY <1>1, <2>1
<1>21. set_str_valid(w)
  <2>1. w # <<>> /\ Len(w) = n + 2
    BY <1>1, <1>19
  <2>2. Head(w) = Quote /\ Last(w) = Quote
    BY <1>19, <1>20, <2>1 DEF Last
  <2> QED BY <2>2 DEF set_str_valid, Quote
<1>22. set_str(old, w, NameLen) = v
  <2>1. Min({NameLen, Len(w) - 1}) = n + 1
    <3>1. NameLen \in Nat /\ Len(w) - 1 = n + 1 /\ n + 1 <= NameLen
      BY <1>1, <1>2, <1>19, SizeAssumption
    <3>2. \A x \in {NameLen, n + 1} : (\A y \in {NameLen, n + 1} : x <= y) => x = n + 1
      BY <1>1, <3>1
    <3>3. \A y \in {NameLen, n + 1} : n + 1 <= y
      BY <1>1, <3>1
    <3> HIDE DEF n
    <3> QED BY <3>1, <3>2, <3>3 DEF Min
  <2>2. set_str(old, w, NameLen) = SubSeq(w, 2, n + 1)
    <3>1. Len(w) # 1
      BY <1>1, <1>2, <1>19
    <3> QED BY <2>1, <3>1 DEF set_str
  <2> DEFINE u == SubSeq(w, 2, n + 1)
  <2>3. u \in Seq(Chars) /\ Len(u) = n /\ \A j \in 1 .. n : u[j] = w[j + 1]
    BY <1>1, <1>2, <1>19
  <2>4. Len(u) = Len(v) /\ \A j \in 1 .. Len(u) : u[j] = v[j]
    BY <1>20, <2>3
  <2> HIDE DEF u
  <2>5. u = v
    BY ONLY <1>2, <2>3, <2>4, SeqEqual
  <2> QED BY <2>2, <2>5 DEF u
<1> QED BY <1>17, <1>21, <1>22 DEF l

(* Whatever string was printed, if it is not empty, the line typed back is *)
(* a command of three words that sets it.                                  *)
THEOREM PrintedReplays == Spec => []Replays
<1>1. NameInv => Replays
  <2> SUFFICES ASSUME ShortString(printed), typed = Printed, printed # <<>>
               PROVE  /\ Len(Words) = 3 /\ set_str_valid(Words[3])
                      /\ set_str(name, Words[3], NameLen) = printed
    BY DEF NameInv, Replays
  <2>1. Words = Split(Text(LineOf(printed)))
    BY DEF Words, Text, LineOf, Printed
  <2> QED BY <2>1, Replayed
<1> QED BY <1>1, NameInvInit, NameInvNext, PTL DEF Spec
=============================================================================
