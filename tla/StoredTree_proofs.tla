-------------------------- MODULE StoredTree_proofs --------------------------
(***************************************************************************)
(* Proofs about the walk that saves and loads a configuration, whatever    *)
(* the store: the tasks that are left belong to the composites that are    *)
(* open, and a save goes through what is stored in the schema's order.     *)
(***************************************************************************)
EXTENDS StoredTree, SequencesExt, FiniteSetTheorems, SequenceTheorems, WellFoundedInduction, TLAPS

(* A set of numbers that is not empty has a smallest one. *)
LEMMA SmallestNumber ==
  ASSUME NEW M \in SUBSET Nat, M # {}
  PROVE  \E i \in M : \A j \in M : i <= j
<1> DEFINE R == OpToRel(<, Nat)
<1>1. PICK i \in M : \A j \in M : ~(<<j, i>> \in R)
  <2>1. IsWellFoundedOn(R, Nat)
    BY NatLessThanWellFounded
  <2> HIDE DEF R
  <2>2. QED BY <2>1, WFMin
<1>2. \A j \in M : ~(j < i)
  BY <1>1 DEF OpToRel
<1>3. QED BY <1>2

(* What is true of 0 and of every next number is true of all of them.      *)
LEMMA Upwards ==
  ASSUME NEW m \in Nat, NEW T, 0 \in T,
         \A n \in 0 .. m : n \in T /\ n # m => n + 1 \in T
  PROVE  \A n \in 0 .. m : n \in T
<1> SUFFICES ASSUME NEW n \in 0 .. m, n \notin T PROVE FALSE
  OBVIOUS
<1> DEFINE Missing == {i \in 0 .. m : i \notin T}
<1>1. Missing \in SUBSET Nat /\ Missing # {}
  OBVIOUS
<1>2. PICK i \in Missing : \A j \in Missing : i <= j
  BY <1>1, SmallestNumber
<1>3. i # 0 /\ i - 1 \in 0 .. m /\ i - 1 # m
  BY <1>2
<1>4. i - 1 \in T
  BY <1>2, <1>3
<1>5. i \in T
  BY <1>3, <1>4
<1> QED BY <1>2, <1>5

(* What is true of the last number and of every one before is true of all. *)
LEMMA Downwards ==
  ASSUME NEW m \in Nat, NEW T, m \in T,
         \A n \in 1 .. m : n # m /\ n + 1 \in T => n \in T
  PROVE  \A n \in 1 .. m : n \in T
<1> SUFFICES ASSUME NEW n \in 1 .. m, n \notin T PROVE FALSE
  OBVIOUS
<1> DEFINE Missing == {i \in 0 .. m : m - i \notin T /\ i # m}
<1>1. Missing \in SUBSET Nat /\ m - n \in Missing
  OBVIOUS
<1>2. PICK i \in Missing : \A j \in Missing : i <= j
  BY <1>1, SmallestNumber
<1>3. i # 0 /\ i - 1 \in 0 .. m /\ i - 1 # m
  BY <1>2
<1>4. m - (i - 1) \in T
  BY <1>2, <1>3
<1>5. m - i \in 1 .. m /\ m - i # m /\ (m - i) + 1 = m - (i - 1)
  BY <1>2, <1>3
<1>6. m - i \in T
  BY <1>4, <1>5
<1> QED BY <1>2, <1>6

-----------------------------------------------------------------------------
(* Components and paths. *)

LEMMA JoinedIs ==
  ASSUME NEW S, NEW s \in Seq(S), NEW t \in Seq(S)
  PROVE  /\ s \o t \in Seq(S) /\ Len(s \o t) = Len(s) + Len(t)
         /\ Len(s) \in Nat /\ Len(t) \in Nat
         /\ \A i \in 1 .. Len(s) + Len(t) :
              (s \o t)[i] = IF i <= Len(s) THEN s[i] ELSE t[i - Len(s)]
BY ONLY s \in Seq(S), t \in Seq(S), ConcatProperties, LenProperties

LEMMA FrontIs ==
  ASSUME NEW S, NEW s \in Seq(S), s # <<>>
  PROVE  /\ Front(s) \in Seq(S) /\ Len(Front(s)) = Len(s) - 1
         /\ \A i \in 1 .. Len(s) - 1 : Front(s)[i] = s[i]
         /\ Last(s) \in S /\ Last(s) = s[Len(s)]
<1> DEFINE n == Len(s)
           m == n - 1
<1>1. n \in Nat /\ n >= 1 /\ n \in 1 .. n /\ \A i \in 1 .. n : s[i] \in S
  OBVIOUS
<1>2. Front(s) = SubSeq(s, 1, m)
  BY DEF Front
<1> HIDE DEF n
<1>3. m \in Nat /\ \A i \in 1 .. m : s[i] \in S /\ 1 + i - 1 = i
  BY <1>1
<1>4. (IF 1 <= m THEN m - 1 + 1 ELSE 0) = m /\ m - 1 + 1 = m
  BY <1>3
<1> HIDE DEF m
<1>5. /\ SubSeq(s, 1, m) \in Seq(S) /\ Len(SubSeq(s, 1, m)) = m
      /\ \A i \in 1 .. m : SubSeq(s, 1, m)[i] = s[1 + i - 1]
  BY <1>3, <1>4, SubSeqProperties
<1>6. \A i \in 1 .. m : Front(s)[i] = s[i]
  BY <1>2, <1>3, <1>5
<1>7. Last(s) \in S /\ Last(s) = s[n]
  BY <1>1 DEF Last, n
<1> QED BY <1>2, <1>5, <1>6, <1>7 DEF m, n

(* A path, and the item that it is of.                                     *)
LEMMA BelowIs ==
  ASSUME NEW p \in Seq(Steps), NEW c \in Known, NEW k \in Nat
  PROVE  /\ Below(p, c, k) \in Seq(Steps) /\ Len(Below(p, c, k)) = Len(p) + 1
         /\ Below(p, c, k) # <<>> /\ Last(Below(p, c, k)) = <<c.name, k>>
         /\ Front(Below(p, c, k)) = p /\ CompOf(Below(p, c, k)) = c
<1> DEFINE q == Below(p, c, k)
<1>1. <<c.name, k>> \in Steps
  BY DEF Steps
<1>2. q \in Seq(Steps) /\ Len(q) = Len(p) + 1 /\ Len(p) \in Nat /\ q[Len(p) + 1] = <<c.name, k>>
  BY <1>1 DEF Below
<1>3. \A i \in 1 .. Len(p) : q[i] = p[i]
  BY <1>1 DEF Below
<1>4. q # <<>> /\ Last(q) = <<c.name, k>>
  BY <1>2 DEF Last
<1>5. Front(q) = p
  <2>1. Front(q) \in Seq(Steps) /\ Len(Front(q)) = Len(p) /\ \A i \in 1 .. Len(p) : Front(q)[i] = q[i]
    BY <1>2 DEF Front
  <2> QED BY <1>3, <2>1
<1>6. CompOf(q) = c
  <2>1. \A e \in Known : e.name = Last(q)[1] => e = c
    BY <1>4, NamesAssumption
  <2> HIDE DEF q
  <2> QED BY <1>4, <2>1 DEF CompOf
<1> QED BY <1>2, <1>4, <1>5, <1>6

(* The schema of the software that runs is one of the two.                 *)
LEMMA RunningIs ==
  ASSUME NEW newer \in BOOLEAN
  PROVE  Running(newer) \in {Schema, NewSchema}
BY DEF Running

LEMMA PartsAre ==
  ASSUME NEW schema \in {Schema, NewSchema}, NEW d \in DOMAIN schema
  PROVE  /\ schema[d] \in Seq(All(schema)) /\ Len(schema[d]) \in Nat
         /\ \A i \in 1 .. Len(schema[d]) : schema[d][i] \in ToSet(schema[d])
         /\ ToSet(schema[d]) \subseteq All(schema) /\ All(schema) \subseteq Known
         /\ \A c \in ToSet(schema[d]) :
              /\ c \in Known /\ c # Base /\ c.desc \in DOMAIN schema \cup {Simple}
              /\ c.max \in Nat \ {0}
<1>1. schema[d] \in Seq(All(schema)) /\ Len(schema[d]) \in Nat
      /\ DOMAIN schema[d] = 1 .. Len(schema[d])
  BY SchemaAssumption
<1>2. ToSet(schema[d]) \subseteq All(schema) /\ All(schema) \subseteq Known
  BY <1>1 DEF ToSet, All, Known
<1>3. \A i \in 1 .. Len(schema[d]) : schema[d][i] \in ToSet(schema[d])
  BY <1>1 DEF ToSet
<1>4. \A c \in ToSet(schema[d]) : c \in All(schema) /\ c # Base
  BY <1>2, NamesAssumption
<1> QED BY <1>1, <1>2, <1>3, <1>4, SchemaAssumption

LEMMA BaseIs ==
  /\ Base \in Known /\ Base.desc = "Root" /\ Base.max = 1 /\ Base.desc # Simple
  /\ CompOf(<<>>) = Base /\ Base = Component(Base.name, Base.desc, Base.max, Base.owned)
  /\ \A schema \in {Schema, NewSchema} : Base.desc \in DOMAIN schema
<1>1. Base \in Known /\ CompOf(<<>>) = Base
  BY DEF Known, CompOf
<1>2. Base.desc = "Root" /\ Base.max = 1
      /\ Base = Component(Base.name, Base.desc, Base.max, Base.owned)
  BY DEF Base, Component
<1> QED BY <1>1, <1>2, SchemaAssumption

-----------------------------------------------------------------------------
(* What is still to be done. *)

Tasks == [do : {"aggr", "item", "OBJECT"}, comp : Known, path : Seq(Steps), idx : Nat]

(* How many composites are open when it is the turn of a task, and after.  *)
LevelOf(t) ==
  IF t.comp = Base THEN (IF t.do = "OBJECT" THEN 1 ELSE 0)
  ELSE Len(t.path) + (IF t.do = "OBJECT" THEN 2 ELSE 1)
After(t) == IF t.do = "OBJECT" THEN LevelOf(t) - 1 ELSE LevelOf(t)

(* From n open composites on, the tasks leave m.                           *)
Leveled(s, n, m) ==
  /\ \A i \in 1 .. Len(s) : LevelOf(s[i]) = IF i = 1 THEN n ELSE After(s[i - 1])
  /\ m = IF s = <<>> THEN n ELSE After(s[Len(s)])

LEMMA TaskIs ==
  ASSUME NEW do \in {"aggr", "item", "OBJECT"}, NEW c \in Known, NEW p \in Seq(Steps), NEW k \in Nat
  PROVE  /\ Task(do, c, p, k) \in Tasks
         /\ Task(do, c, p, k).do = do /\ Task(do, c, p, k).comp = c
         /\ Task(do, c, p, k).path = p /\ Task(do, c, p, k).idx = k
BY DEF Task, Tasks

LEMMA LevelIs ==
  ASSUME NEW t \in Tasks
  PROVE  LevelOf(t) \in Nat /\ After(t) \in Nat
BY DEF Tasks, LevelOf, After

LEMMA LeveledJoin ==
  ASSUME NEW s \in Seq(Tasks), NEW t \in Seq(Tasks), NEW n, NEW m, NEW r,
         Leveled(s, n, m), Leveled(t, m, r)
  PROVE  Leveled(s \o t, n, r)
<1> DEFINE u == s \o t
           k == Len(s)
           h == Len(t)
<1>1. /\ Len(u) = k + h /\ k \in Nat /\ h \in Nat
      /\ \A i \in 1 .. k + h : u[i] = IF i <= k THEN s[i] ELSE t[i - k]
  BY JoinedIs
<1>2. (s = <<>> <=> k = 0) /\ (t = <<>> <=> h = 0) /\ (u = <<>> <=> k + h = 0)
  BY <1>1
<1> HIDE DEF u
<1>3. ASSUME NEW i \in 1 .. k + h PROVE LevelOf(u[i]) = IF i = 1 THEN n ELSE After(u[i - 1])
  <2>1. CASE i <= k
    <3>1. u[i] = s[i] /\ i \in 1 .. k /\ (i # 1 => u[i - 1] = s[i - 1])
      BY <1>1, <2>1
    <3> QED BY <3>1 DEF Leveled
  <2>2. CASE i = k + 1 /\ k = 0
    <3>1. i = 1 /\ u[i] = t[1] /\ 1 \in 1 .. h /\ m = n
      BY <1>1, <1>2, <2>2 DEF Leveled
    <3> QED BY <3>1 DEF Leveled
  <2>3. CASE i = k + 1 /\ k # 0
    <3>1. i # 1 /\ u[i] = t[1] /\ 1 \in 1 .. h /\ u[i - 1] = s[k] /\ m = After(s[k])
      BY <1>1, <1>2, <2>3 DEF Leveled
    <3> QED BY <3>1 DEF Leveled
  <2>4. CASE i > k + 1
    <3> DEFINE j == i - k
    <3>2. i # 1 /\ ~(i <= k) /\ i - 1 \in 1 .. k + h /\ ~(i - 1 <= k) /\ (i - 1) - k = j - 1
          /\ j \in 1 .. h /\ j # 1
      BY <1>1, <2>4
    <3>3. u[i] = t[j] /\ u[i - 1] = t[(i - 1) - k]
      BY <1>1, <3>2
    <3>1. i # 1 /\ u[i] = t[j] /\ j \in 1 .. h /\ j # 1 /\ u[i - 1] = t[j - 1]
      BY <3>2, <3>3
    <3> HIDE DEF j
    <3> QED BY <3>1 DEF Leveled
  <2> QED BY <1>1, <2>1, <2>2, <2>3, <2>4
<1>4. r = IF u = <<>> THEN n ELSE After(u[Len(u)])
  <2>1. CASE h = 0
    <3>1. r = m /\ (k # 0 => u[k + h] = s[k])
      BY <1>1, <1>2, <2>1 DEF Leveled
    <3> QED BY <1>1, <1>2, <2>1, <3>1 DEF Leveled
  <2>2. CASE h # 0
    <3>1. r = After(t[h]) /\ u[k + h] = t[h]
      BY <1>1, <1>2, <2>2 DEF Leveled
    <3> QED BY <1>1, <1>2, <2>2, <3>1
  <2> QED BY <2>1, <2>2
<1>5. Leveled(u, n, r)
  BY <1>1, <1>3, <1>4 DEF Leveled
<1> QED BY <1>5 DEF u

LEMMA LeveledTail ==
  ASSUME NEW s \in Seq(Tasks), s # <<>>, NEW n, NEW m, Leveled(s, n, m)
  PROVE  /\ Head(s) = s[1] /\ Head(s) \in Tasks /\ LevelOf(Head(s)) = n
         /\ Tail(s) \in Seq(Tasks) /\ Leveled(Tail(s), After(Head(s)), m)
<1> DEFINE u == Tail(s)
           k == Len(s)
<1>1. /\ k \in Nat /\ k >= 1 /\ Len(u) = k - 1 /\ u \in Seq(Tasks)
      /\ \A i \in 1 .. k - 1 : u[i] = s[i + 1]
      /\ Head(s) = s[1] /\ s[1] \in Tasks
  OBVIOUS
<1>2. u = <<>> <=> k = 1
  <2>1. u = <<>> <=> Len(u) = 0
    BY ONLY <1>1
  <2> QED BY <1>1, <2>1
<1> HIDE DEF u
<1>3. ASSUME NEW i \in 1 .. k - 1
      PROVE  LevelOf(u[i]) = IF i = 1 THEN After(s[1]) ELSE After(u[i - 1])
  <2> DEFINE j == i + 1
  <2>1. u[i] = s[j] /\ j \in 1 .. k /\ j # 1 /\ j - 1 = i /\ (i # 1 => u[i - 1] = s[i])
    BY <1>1
  <2> HIDE DEF j
  <2> QED BY <2>1 DEF Leveled
<1>4. m = IF u = <<>> THEN After(s[1]) ELSE After(u[Len(u)])
  <2>1. m = After(s[k])
    BY <1>1 DEF Leveled
  <2>2. k # 1 => u[k - 1] = s[k]
    BY <1>1
  <2> QED BY <1>1, <1>2, <2>1, <2>2
<1>5. LevelOf(s[1]) = n
  BY <1>1 DEF Leveled
<1>6. Leveled(u, After(s[1]), m)
  BY <1>1, <1>3, <1>4 DEF Leveled
<1> QED BY <1>1, <1>5, <1>6 DEF u

LEMMA LeveledFlat ==
  ASSUME NEW s \in Seq(Tasks), NEW n,
         \A i \in 1 .. Len(s) : LevelOf(s[i]) = n /\ s[i].do # "OBJECT"
  PROVE  Leveled(s, n, n)
<1>1. Len(s) \in Nat /\ (s # <<>> => Len(s) >= 1)
  OBVIOUS
<1>2. \A i \in 1 .. Len(s) : After(s[i]) = n
  BY DEF After
<1>3. \A i \in 1 .. Len(s) : i # 1 => i - 1 \in 1 .. Len(s)
  BY <1>1
<1>4. s # <<>> => Len(s) \in 1 .. Len(s)
  BY <1>1
<1> QED BY <1>2, <1>3, <1>4 DEF Leveled

LEMMA LeveledClose ==
  ASSUME NEW t \in Tasks, t.do = "OBJECT"
  PROVE  <<t>> \in Seq(Tasks) /\ Leveled(<<t>>, LevelOf(t), LevelOf(t) - 1)
<1>1. <<t>> \in Seq(Tasks) /\ Len(<<t>>) = 1 /\ <<t>>[1] = t /\ <<t>> # <<>>
  OBVIOUS
<1> QED BY <1>1 DEF Leveled, After

-----------------------------------------------------------------------------
(* The composites that are open, and how the tasks belong to them.         *)

Chain(schema, ch) ==
  /\ ch \in Seq(Seq(Steps)) /\ ch # <<>> /\ ch[1] = <<>>
  /\ \A j \in 1 .. Len(ch) : Len(ch[j]) = j - 1 /\ CompOf(ch[j]).desc \in DOMAIN schema
  /\ \A j \in 2 .. Len(ch) : \E c \in Parts(schema, ch[j - 1]), k \in Nat :
       ch[j] = Below(ch[j - 1], c, k)

Fits(schema, ch, t) ==
  /\ LevelOf(t) \in 1 .. Len(ch)
  /\ IF t.do = "OBJECT" THEN t.comp = CompOf(ch[LevelOf(t)])
     ELSE /\ t.path = ch[LevelOf(t)] /\ t.comp \in Parts(schema, t.path)
          /\ t.idx \in 0 .. t.comp.max - 1

Walk(schema, ch, s) ==
  /\ Chain(schema, ch)
  /\ s \in Seq(Tasks) /\ s # <<>> /\ Leveled(s, Len(ch), 0)
  /\ \A i \in 1 .. Len(s) : Fits(schema, ch, s[i])

LEMMA ChainIs ==
  ASSUME NEW schema, NEW ch, Chain(schema, ch)
  PROVE  /\ ch \in Seq(Seq(Steps)) /\ ch # <<>> /\ ch[1] = <<>>
         /\ Len(ch) \in Nat \ {0} /\ Len(ch) >= 1 /\ Len(ch) \in 1 .. Len(ch)
         /\ \A j \in 1 .. Len(ch) :
              ch[j] \in Seq(Steps) /\ Len(ch[j]) = j - 1 /\ CompOf(ch[j]).desc \in DOMAIN schema
         /\ \A j \in 2 .. Len(ch) : \E e \in Parts(schema, ch[j - 1]), i \in Nat :
              ch[j] = Below(ch[j - 1], e, i)
<1>1. ch \in Seq(Seq(Steps)) /\ ch # <<>>
  BY DEF Chain
<1>2. Len(ch) \in Nat \ {0} /\ Len(ch) >= 1 /\ Len(ch) \in 1 .. Len(ch)
      /\ \A j \in 1 .. Len(ch) : ch[j] \in Seq(Steps)
  BY ONLY <1>1
<1> QED BY <1>1, <1>2 DEF Chain

LEMMA WalkHead ==
  ASSUME NEW schema \in {Schema, NewSchema}, NEW ch, NEW s, Walk(schema, ch, s)
  PROVE  /\ Len(ch) \in Nat \ {0} /\ Head(s) \in Tasks /\ LevelOf(Head(s)) = Len(ch)
         /\ Tail(s) \in Seq(Tasks) /\ Leveled(Tail(s), After(Head(s)), 0)
         /\ ch[Len(ch)] \in Seq(Steps) /\ CompOf(ch[Len(ch)]).desc \in DOMAIN schema
         /\ CompOf(ch[Len(ch)]) \in Known
         /\ Head(s).do = "OBJECT" => Head(s).comp = CompOf(ch[Len(ch)])
         /\ Head(s).do # "OBJECT" =>
              /\ Head(s).path = ch[Len(ch)] /\ Head(s).comp \in Parts(schema, ch[Len(ch)])
              /\ Head(s).comp # Base /\ Head(s).comp.desc \in DOMAIN schema \cup {Simple}
              /\ Head(s).comp.max \in Nat \ {0} /\ Head(s).idx \in 0 .. Head(s).comp.max - 1
         /\ \A i \in 1 .. Len(Tail(s)) : Fits(schema, ch, Tail(s)[i])
<1>1. /\ s \in Seq(Tasks) /\ s # <<>> /\ Leveled(s, Len(ch), 0)
      /\ ch \in Seq(Seq(Steps)) /\ ch # <<>> /\ ch[1] = <<>>
      /\ \A j \in 1 .. Len(ch) : Len(ch[j]) = j - 1 /\ CompOf(ch[j]).desc \in DOMAIN schema
      /\ \A j \in 2 .. Len(ch) : \E c \in Parts(schema, ch[j - 1]), k \in Nat :
           ch[j] = Below(ch[j - 1], c, k)
      /\ \A i \in 1 .. Len(s) : Fits(schema, ch, s[i])
  BY DEF Walk, Chain
<1>2. Len(ch) \in Nat \ {0} /\ Len(ch) \in 1 .. Len(ch) /\ ch[Len(ch)] \in Seq(Steps)
  BY <1>1
<1>3. /\ Head(s) = s[1] /\ Head(s) \in Tasks /\ LevelOf(Head(s)) = Len(ch)
      /\ Tail(s) \in Seq(Tasks) /\ Leveled(Tail(s), After(Head(s)), 0)
  BY <1>1, LeveledTail
<1>4. 1 \in 1 .. Len(s) /\ \A i \in 1 .. Len(Tail(s)) : i + 1 \in 1 .. Len(s) /\ Tail(s)[i] = s[i + 1]
  BY <1>1
<1>5. CompOf(ch[Len(ch)]).desc \in DOMAIN schema
  BY <1>1, <1>2
<1>6. CompOf(ch[Len(ch)]) \in Known
  <2>1. CASE Len(ch) = 1
    BY <1>1, <2>1, BaseIs
  <2>2. CASE Len(ch) # 1
    <3> DEFINE j == Len(ch)
    <3>1. j \in 2 .. Len(ch) /\ j - 1 \in 1 .. Len(ch)
      <4>1. \A k \in Nat \ {0} : k # 1 => k \in 2 .. k /\ k - 1 \in 1 .. k
        OBVIOUS
      <4> QED BY <1>2, <2>2, <4>1
    <3>2. PICK c \in Parts(schema, ch[j - 1]), k \in Nat : ch[j] = Below(ch[j - 1], c, k)
      BY <1>1, <3>1
    <3>3. CompOf(ch[j - 1]).desc \in DOMAIN schema /\ ch[j - 1] \in Seq(Steps)
      BY <1>1, <3>1
    <3>4. c \in Known
      BY <3>3, PartsAre DEF Parts
    <3> QED BY <3>2, <3>3, <3>4, BelowIs
  <2> QED BY <2>1, <2>2
<1>7. Fits(schema, ch, Head(s))
  BY <1>1, <1>3, <1>4
<1>8. ASSUME Head(s).do # "OBJECT"
      PROVE  /\ Head(s).path = ch[Len(ch)] /\ Head(s).comp \in Parts(schema, ch[Len(ch)])
             /\ Head(s).comp # Base /\ Head(s).comp.desc \in DOMAIN schema \cup {Simple}
             /\ Head(s).comp.max \in Nat \ {0} /\ Head(s).idx \in 0 .. Head(s).comp.max - 1
  <2>1. /\ Head(s).path = ch[Len(ch)] /\ Head(s).comp \in Parts(schema, ch[Len(ch)])
        /\ Head(s).idx \in 0 .. Head(s).comp.max - 1
    BY <1>3, <1>7, <1>8 DEF Fits
  <2> QED BY <1>5, <2>1, PartsAre DEF Parts
<1>9. Head(s).do = "OBJECT" => Head(s).comp = CompOf(ch[Len(ch)])
  BY <1>3, <1>7 DEF Fits
<1> QED BY <1>1, <1>2, <1>3, <1>4, <1>5, <1>6, <1>8, <1>9

(* Tasks at the level of the innermost composite.                          *)
Flat(schema, ch, new) ==
  /\ new \in Seq(Tasks)
  /\ \A i \in 1 .. Len(new) :
       new[i].do # "OBJECT" /\ LevelOf(new[i]) = Len(ch) /\ Fits(schema, ch, new[i])

LEMMA FitsTask ==
  ASSUME NEW schema \in {Schema, NewSchema}, NEW ch, Chain(schema, ch),
         NEW do \in {"aggr", "item"}, NEW c \in Parts(schema, ch[Len(ch)]),
         NEW k \in 0 .. c.max - 1
  PROVE  LET t == Task(do, c, ch[Len(ch)], k)
         IN  t \in Tasks /\ t.do # "OBJECT" /\ LevelOf(t) = Len(ch) /\ Fits(schema, ch, t)
<1> DEFINE n == Len(ch)
           t == Task(do, c, ch[n], k)
<1>1. /\ n \in Nat /\ n \in 1 .. n /\ ch[n] \in Seq(Steps) /\ Len(ch[n]) = n - 1
      /\ CompOf(ch[n]).desc \in DOMAIN schema
  BY ChainIs
<1>2. c \in Known /\ c # Base /\ c.max \in Nat
  BY <1>1, PartsAre DEF Parts
<1>3. k \in Nat
  BY <1>2
<1>4. t \in Tasks /\ t.do = do /\ t.comp = c /\ t.path = ch[n] /\ t.idx = k
  BY <1>1, <1>2, <1>3, TaskIs
<1>5. LevelOf(t) = n /\ t.do # "OBJECT"
  <2>1. do # "OBJECT"
    OBVIOUS
  <2> HIDE DEF t
  <2> QED BY <1>1, <1>2, <1>4, <2>1 DEF LevelOf
<1> HIDE DEF t
<1>6. Fits(schema, ch, t)
  BY <1>1, <1>4, <1>5 DEF Fits
<1> QED BY <1>4, <1>5, <1>6 DEF t

(* A task is done, or is replaced by others of its level.                  *)
LEMMA WalkReplaces ==
  ASSUME NEW schema \in {Schema, NewSchema}, NEW ch, NEW s, Walk(schema, ch, s),
         Head(s).do # "OBJECT", NEW new, Flat(schema, ch, new)
  PROVE  Walk(schema, ch, new \o Tail(s))
<1> DEFINE n == Len(ch)
           u == new \o Tail(s)
<1>1. /\ n \in Nat \ {0} /\ LevelOf(Head(s)) = n
      /\ Tail(s) \in Seq(Tasks) /\ Leveled(Tail(s), After(Head(s)), 0)
      /\ \A i \in 1 .. Len(Tail(s)) : Fits(schema, ch, Tail(s)[i])
  BY WalkHead
<1>2. After(Head(s)) = n
  BY <1>1 DEF After
<1>3. Leveled(u, n, 0)
  <2>1. Leveled(new, n, n)
    BY LeveledFlat DEF Flat
  <2> QED BY <1>1, <1>2, <2>1, LeveledJoin DEF Flat
<1>4. /\ u \in Seq(Tasks) /\ Len(u) = Len(new) + Len(Tail(s))
      /\ Len(new) \in Nat /\ Len(Tail(s)) \in Nat
      /\ \A i \in 1 .. Len(new) + Len(Tail(s)) :
           u[i] = IF i <= Len(new) THEN new[i] ELSE Tail(s)[i - Len(new)]
  BY <1>1, JoinedIs DEF Flat
<1> HIDE DEF u
<1>5. ASSUME NEW i \in 1 .. Len(u) PROVE Fits(schema, ch, u[i])
  <2>1. CASE i <= Len(new)
    BY <1>4, <2>1 DEF Flat
  <2>2. CASE i > Len(new)
    <3> DEFINE j == i - Len(new)
    <3>1. j \in 1 .. Len(Tail(s)) /\ u[i] = Tail(s)[j]
      BY <1>4, <2>2
    <3> HIDE DEF j
    <3> QED BY <1>1, <3>1
  <2> QED BY <1>4, <2>1, <2>2
<1>6. u # <<>>
  BY <1>1, <1>3 DEF Leveled
<1>7. Walk(schema, ch, u)
  BY <1>3, <1>4, <1>5, <1>6 DEF Walk
<1> QED BY <1>7 DEF u

(* The chain with one composite more, and with the innermost closed. *)
LEMMA ChainGrows ==
  ASSUME NEW schema \in {Schema, NewSchema}, NEW ch, Chain(schema, ch),
         NEW c \in Parts(schema, ch[Len(ch)]), c.desc \in DOMAIN schema, NEW k \in Nat
  PROVE  LET p == Below(ch[Len(ch)], c, k)
             up == Append(ch, p)
         IN  /\ Chain(schema, up) /\ Len(up) = Len(ch) + 1
             /\ up[Len(ch) + 1] = p /\ \A j \in 1 .. Len(ch) : up[j] = ch[j]
             /\ p \in Seq(Steps) /\ CompOf(p) = c
<1> DEFINE n == Len(ch)
           p == Below(ch[n], c, k)
           up == Append(ch, p)
<1>1. /\ ch \in Seq(Seq(Steps)) /\ ch # <<>> /\ ch[1] = <<>>
      /\ \A j \in 1 .. n : Len(ch[j]) = j - 1 /\ CompOf(ch[j]).desc \in DOMAIN schema
      /\ \A j \in 2 .. n : \E e \in Parts(schema, ch[j - 1]), i \in Nat :
           ch[j] = Below(ch[j - 1], e, i)
  BY DEF Chain
<1>2. n \in Nat /\ n >= 1 /\ n \in 1 .. n /\ ch[n] \in Seq(Steps)
  BY ChainIs
<1>3. c \in Known
  BY <1>1, <1>2, PartsAre DEF Parts
<1>4. p \in Seq(Steps) /\ Len(p) = n /\ CompOf(p) = c
  <2>3. Len(ch[n]) = n - 1
    BY <1>1, <1>2
  <2>1. Len(ch[n]) = n - 1 /\ (n - 1) + 1 = n
    BY <1>2, <2>3
  <2>2. p \in Seq(Steps) /\ Len(p) = Len(ch[n]) + 1 /\ CompOf(p) = c
    BY <1>2, <1>3, BelowIs
  <2> HIDE DEF p
  <2> QED BY <2>1, <2>2
<1>9. p = Below(ch[n], c, k)
  OBVIOUS
<1> HIDE DEF p
<1>5. /\ up \in Seq(Seq(Steps)) /\ Len(up) = n + 1
      /\ up[n + 1] = p /\ \A j \in 1 .. n : up[j] = ch[j]
  BY <1>1, <1>4
<1> HIDE DEF up
<1>6. up # <<>> /\ up[1] = <<>>
  BY <1>1, <1>2, <1>5
<1>7. \A j \in 1 .. n + 1 : Len(up[j]) = j - 1 /\ CompOf(up[j]).desc \in DOMAIN schema
  <2> SUFFICES ASSUME NEW j \in 1 .. n + 1
               PROVE  Len(up[j]) = j - 1 /\ CompOf(up[j]).desc \in DOMAIN schema
    OBVIOUS
  <2>1. CASE j = n + 1
    BY <1>2, <1>4, <1>5, <2>1
  <2>2. CASE j # n + 1
    <3>1. j \in 1 .. n
      BY <1>2, <2>2
    <3> QED BY <1>1, <1>5, <3>1
  <2> QED BY <2>1, <2>2
<1>8. \A j \in 2 .. n + 1 : \E e \in Parts(schema, up[j - 1]), i \in Nat :
         up[j] = Below(up[j - 1], e, i)
  <2> SUFFICES ASSUME NEW j \in 2 .. n + 1
               PROVE  \E e \in Parts(schema, up[j - 1]), i \in Nat : up[j] = Below(up[j - 1], e, i)
    OBVIOUS
  <2>1. CASE j = n + 1
    <3>1. up[j - 1] = ch[n] /\ up[j] = p
      BY <1>2, <1>5, <2>1
    <3> QED BY <1>9, <3>1
  <2>2. CASE j # n + 1
    <3>2. j \in 2 .. n /\ j \in 1 .. n /\ j - 1 \in 1 .. n
      BY <1>2, <2>2
    <3>1. j \in 2 .. n /\ up[j - 1] = ch[j - 1] /\ up[j] = ch[j]
      BY <1>5, <3>2
    <3> QED BY <1>1, <3>1
  <2> QED BY <2>1, <2>2
<1>10. Chain(schema, up)
  BY <1>5, <1>6, <1>7, <1>8 DEF Chain
<1> QED BY <1>4, <1>5, <1>10 DEF p, up

LEMMA ChainShrinks ==
  ASSUME NEW schema \in {Schema, NewSchema}, NEW ch, Chain(schema, ch), Len(ch) # 1
  PROVE  /\ Chain(schema, Front(ch)) /\ Len(Front(ch)) = Len(ch) - 1
         /\ \A j \in 1 .. Len(ch) - 1 : Front(ch)[j] = ch[j]
<1> DEFINE n == Len(ch)
           low == Front(ch)
<1>1. /\ ch \in Seq(Seq(Steps)) /\ ch # <<>> /\ ch[1] = <<>>
      /\ \A j \in 1 .. n : Len(ch[j]) = j - 1 /\ CompOf(ch[j]).desc \in DOMAIN schema
      /\ \A j \in 2 .. n : \E e \in Parts(schema, ch[j - 1]), i \in Nat :
           ch[j] = Below(ch[j - 1], e, i)
  BY DEF Chain
<1>2. n \in Nat /\ n >= 1 /\ n # 1 /\ n - 1 >= 1
  <2>1. n \in Nat /\ n >= 1
    BY ChainIs
  <2>2. \A k \in Nat : k >= 1 /\ k # 1 => k - 1 >= 1
    OBVIOUS
  <2> QED BY <2>1, <2>2
<1>3. low \in Seq(Seq(Steps)) /\ Len(low) = n - 1 /\ \A j \in 1 .. n - 1 : low[j] = ch[j]
  BY <1>1, FrontIs
<1> HIDE DEF low
<1>4. low # <<>> /\ low[1] = <<>>
  <2>1. n - 1 # 0 /\ 1 \in 1 .. n - 1
    BY <1>2
  <2> QED BY <1>1, <1>3, <2>1
<1>5. \A j \in 1 .. n - 1 : Len(low[j]) = j - 1 /\ CompOf(low[j]).desc \in DOMAIN schema
  <2>1. \A j \in 1 .. n - 1 : j \in 1 .. n
    BY <1>2
  <2> QED BY <1>1, <1>3, <2>1
<1>6. \A j \in 2 .. n - 1 : \E e \in Parts(schema, low[j - 1]), i \in Nat :
         low[j] = Below(low[j - 1], e, i)
  <2> SUFFICES ASSUME NEW j \in 2 .. n - 1
               PROVE  \E e \in Parts(schema, low[j - 1]), i \in Nat : low[j] = Below(low[j - 1], e, i)
    OBVIOUS
  <2>2. j \in 2 .. n /\ j \in 1 .. n - 1 /\ j - 1 \in 1 .. n - 1
    BY <1>2
  <2>1. j \in 2 .. n /\ low[j - 1] = ch[j - 1] /\ low[j] = ch[j]
    BY <1>3, <2>2
  <2> QED BY <1>1, <2>1
<1>7. Chain(schema, low)
  BY <1>3, <1>4, <1>5, <1>6 DEF Chain
<1> QED BY <1>3, <1>7 DEF low


LEMMA OneTask ==
  ASSUME NEW t \in Tasks
  PROVE  <<t>> \in Seq(Tasks) /\ Len(<<t>>) = 1 /\ \A i \in 1 .. 1 : <<t>>[i] = t
OBVIOUS

LEMMA NoTask ==
  /\ <<>> \in Seq(Tasks) /\ Len(<<>>) = 0
  /\ \A s \in Seq(Tasks) : <<>> \o s = s /\ s \o <<>> = s
<1>1. \A s \in Seq(Tasks) : <<>> \o s = s /\ s \o <<>> = s
  BY ConcatEmptySeq
<1> QED BY <1>1

(* The components of an item, its items, and the next one.                 *)
LEMMA ComponentsAre ==
  ASSUME NEW schema \in {Schema, NewSchema}, NEW ch, Chain(schema, ch),
         NEW c, c = CompOf(ch[Len(ch)])
  PROVE  LET p == ch[Len(ch)]
             new == Components(schema, c, p)
         IN  /\ Flat(schema, ch, new) /\ Len(new) = Len(schema[c.desc])
             /\ \A i \in 1 .. Len(schema[c.desc]) : new[i] = Task("aggr", schema[c.desc][i], p, 0)
<1> DEFINE p == ch[Len(ch)]
           new == Components(schema, c, p)
           m == Len(schema[c.desc])
<1>1. c.desc \in DOMAIN schema
  BY ChainIs
<1>2. /\ m \in Nat /\ DOMAIN schema[c.desc] = 1 .. m
      /\ \A i \in 1 .. m : schema[c.desc][i] \in Parts(schema, p) /\ schema[c.desc][i].max \in Nat \ {0}
  BY <1>1, PartsAre DEF Parts
<1>3. new = [i \in 1 .. m |-> Task("aggr", schema[c.desc][i], p, 0)]
  BY <1>2 DEF Components
<1>4. ASSUME NEW i \in 1 .. m
      PROVE  LET t == Task("aggr", schema[c.desc][i], p, 0)
             IN  t \in Tasks /\ t.do # "OBJECT" /\ LevelOf(t) = Len(ch) /\ Fits(schema, ch, t)
  <2> DEFINE e == schema[c.desc][i]
  <2>1. e \in Parts(schema, p) /\ 0 \in 0 .. e.max - 1
    BY <1>2
  <2> HIDE DEF e
  <2>2. LET t == Task("aggr", e, p, 0)
        IN  t \in Tasks /\ t.do # "OBJECT" /\ LevelOf(t) = Len(ch) /\ Fits(schema, ch, t)
    BY <2>1, FitsTask
  <2> QED BY <2>2 DEF e
<1> HIDE DEF new, m
<1>5. new \in Seq(Tasks) /\ Len(new) = m
      /\ \A i \in 1 .. m : new[i] = Task("aggr", schema[c.desc][i], p, 0)
  <2>1. \A i \in 1 .. m : Task("aggr", schema[c.desc][i], p, 0) \in Tasks
    BY <1>4
  <2> QED BY <1>2, <1>3, <2>1
<1>6. Flat(schema, ch, new)
  BY <1>4, <1>5 DEF Flat
<1> QED BY <1>5, <1>6 DEF new, m

LEMMA NextIs ==
  ASSUME NEW schema \in {Schema, NewSchema}, NEW ch, NEW s, Walk(schema, ch, s),
         Head(s).do = "item"
  PROVE  Flat(schema, ch, NextItem(Head(s)))
<1> DEFINE t == Head(s)
<1>1. /\ t.path = ch[Len(ch)] /\ t.comp \in Parts(schema, ch[Len(ch)])
      /\ t.comp.max \in Nat \ {0} /\ t.idx \in 0 .. t.comp.max - 1 /\ Chain(schema, ch)
  BY WalkHead DEF Walk
<1> HIDE DEF t
<1>2. CASE t.idx + 1 < t.comp.max
  <2> DEFINE new == Task("item", t.comp, t.path, t.idx + 1)
  <2>1. t.idx + 1 \in 0 .. t.comp.max - 1
    BY <1>1, <1>2
  <2>2. new \in Tasks /\ new.do # "OBJECT" /\ LevelOf(new) = Len(ch) /\ Fits(schema, ch, new)
    BY <1>1, <2>1, FitsTask
  <2> HIDE DEF new
  <2>3. Flat(schema, ch, <<new>>)
    BY <2>2, OneTask DEF Flat
  <2>4. NextItem(t) = <<new>>
    BY <1>2 DEF NextItem, new
  <2> QED BY <2>3, <2>4 DEF t
<1>3. CASE ~(t.idx + 1 < t.comp.max)
  BY <1>3, NoTask DEF Flat, NextItem, t
<1> QED BY <1>2, <1>3

LEMMA WalkDone ==
  ASSUME NEW schema \in {Schema, NewSchema}, NEW ch, NEW s, Walk(schema, ch, s),
         Head(s).do # "OBJECT"
  PROVE  Walk(schema, ch, Tail(s))
<1>1. Flat(schema, ch, <<>>)
  BY NoTask DEF Flat
<1>2. <<>> \o Tail(s) = Tail(s)
  BY WalkHead, NoTask
<1> QED BY <1>1, <1>2, WalkReplaces

(* The components of a composite that is opened, and the call that closes  *)
(* it again.                                                               *)
LEMMA Opening ==
  ASSUME NEW schema \in {Schema, NewSchema}, NEW ch, Chain(schema, ch),
         NEW o \in Tasks, o.do = "OBJECT", LevelOf(o) = Len(ch), o.comp = CompOf(ch[Len(ch)])
  PROVE  LET new == Components(schema, o.comp, ch[Len(ch)]) \o <<o>>
         IN  /\ new \in Seq(Tasks) /\ new # <<>> /\ Leveled(new, Len(ch), Len(ch) - 1)
             /\ \A i \in 1 .. Len(new) : Fits(schema, ch, new[i])
<1> DEFINE n == Len(ch)
           c == Components(schema, o.comp, ch[n])
           new == c \o <<o>>
<1>1. Flat(schema, ch, c)
  BY ComponentsAre
<1>2. /\ <<o>> \in Seq(Tasks) /\ Leveled(<<o>>, n, n - 1) /\ Len(<<o>>) = 1
      /\ \A i \in 1 .. 1 : <<o>>[i] = o
  BY LeveledClose, OneTask
<1>3. Fits(schema, ch, o)
  <2>1. n \in 1 .. n
    BY ChainIs
  <2> QED BY <2>1 DEF Fits
<1> HIDE DEF c
<1>4. c \in Seq(Tasks) /\ Leveled(c, n, n)
  BY <1>1, LeveledFlat DEF Flat
<1>5. Leveled(new, n, n - 1)
  BY <1>2, <1>4, LeveledJoin
<1>6. /\ new \in Seq(Tasks) /\ Len(new) = Len(c) + 1 /\ Len(c) \in Nat
      /\ \A i \in 1 .. Len(c) + 1 : new[i] = IF i <= Len(c) THEN c[i] ELSE <<o>>[i - Len(c)]
  BY <1>2, <1>4, JoinedIs
<1> HIDE DEF new
<1>7. ASSUME NEW i \in 1 .. Len(new) PROVE Fits(schema, ch, new[i])
  <2>1. CASE i <= Len(c)
    BY <1>1, <1>6, <2>1 DEF Flat
  <2>2. CASE i > Len(c)
    <3>1. i - Len(c) = 1 /\ new[i] = <<o>>[i - Len(c)]
      BY <1>6, <2>2
    <3> QED BY <1>2, <1>3, <3>1
  <2> QED BY <1>6, <2>1, <2>2
<1>8. new # <<>>
  BY <1>6
<1> QED BY <1>5, <1>6, <1>7, <1>8 DEF new, c

LEMMA WalkOpens ==
  ASSUME NEW schema \in {Schema, NewSchema}, NEW ch, NEW s, Walk(schema, ch, s),
         NEW c \in Parts(schema, ch[Len(ch)]), c.desc # Simple, NEW k \in Nat
  PROVE  LET p == Below(ch[Len(ch)], c, k)
         IN  Walk(schema, Append(ch, p),
                  Components(schema, c, p) \o <<Task("OBJECT", c, ch[Len(ch)], 0)>> \o s)
<1> DEFINE n == Len(ch)
           p == Below(ch[n], c, k)
           up == Append(ch, p)
           o == Task("OBJECT", c, ch[n], 0)
           new == Components(schema, c, p) \o <<o>>
           u == new \o s
<1>1. /\ Chain(schema, ch) /\ s \in Seq(Tasks) /\ s # <<>> /\ Leveled(s, n, 0)
      /\ \A i \in 1 .. Len(s) : Fits(schema, ch, s[i])
  BY DEF Walk
<1>2. n \in Nat \ {0} /\ ch[n] \in Seq(Steps) /\ Len(ch[n]) = n - 1 /\ CompOf(ch[n]).desc \in DOMAIN schema
  BY <1>1, ChainIs
<1>3. c \in Known /\ c # Base /\ c.desc \in DOMAIN schema
  BY <1>2, PartsAre DEF Parts
<1>4. /\ Chain(schema, up) /\ Len(up) = n + 1 /\ up[n + 1] = p
      /\ (\A j \in 1 .. n : up[j] = ch[j]) /\ CompOf(p) = c
  <2>1. LET r == Below(ch[Len(ch)], c, k)
            v == Append(ch, r)
        IN  /\ Chain(schema, v) /\ Len(v) = Len(ch) + 1
            /\ v[Len(ch) + 1] = r /\ \A j \in 1 .. Len(ch) : v[j] = ch[j]
            /\ r \in Seq(Steps) /\ CompOf(r) = c
    BY ONLY schema \in {Schema, NewSchema}, <1>1, <1>3, c \in Parts(schema, ch[Len(ch)]), k \in Nat, ChainGrows
  <2> QED BY <2>1
<1> HIDE DEF p, up
<1>5. o \in Tasks /\ o.do = "OBJECT" /\ o.comp = c /\ LevelOf(o) = n + 1
  <2>1. o \in Tasks /\ o.do = "OBJECT" /\ o.comp = c /\ o.path = ch[n]
    BY <1>2, <1>3, TaskIs
  <2> HIDE DEF o
  <2> QED BY <1>2, <1>3, <2>1 DEF LevelOf
<1> HIDE DEF o
<1>6. /\ new \in Seq(Tasks) /\ new # <<>> /\ Leveled(new, n + 1, n)
      /\ \A i \in 1 .. Len(new) : Fits(schema, up, new[i])
  <2>1. (n + 1) - 1 = n
    BY <1>2
  <2> QED BY <1>4, <1>5, <2>1, Opening
<1> HIDE DEF new
<1>7. Leveled(u, n + 1, 0)
  BY <1>1, <1>6, LeveledJoin
<1>8. /\ u \in Seq(Tasks) /\ Len(u) = Len(new) + Len(s) /\ Len(new) \in Nat /\ Len(s) \in Nat
      /\ \A i \in 1 .. Len(new) + Len(s) :
           u[i] = IF i <= Len(new) THEN new[i] ELSE s[i - Len(new)]
  BY <1>1, <1>6, JoinedIs
<1> HIDE DEF u
<1>9. ASSUME NEW i \in 1 .. Len(u) PROVE Fits(schema, up, u[i])
  <2>1. CASE i <= Len(new)
    BY <1>6, <1>8, <2>1
  <2>2. CASE i > Len(new)
    <3> DEFINE j == i - Len(new)
    <3>1. j \in 1 .. Len(s) /\ u[i] = s[j]
      BY <1>8, <2>2
    <3> HIDE DEF j
    <3>2. Fits(schema, ch, s[j])
      BY <1>1, <3>1
    <3>3. LevelOf(s[j]) \in 1 .. n
      BY <3>2 DEF Fits
    <3>4. Fits(schema, up, s[j])
      BY <1>2, <1>4, <3>2, <3>3 DEF Fits
    <3> QED BY <3>1, <3>4
  <2> QED BY <1>8, <2>1, <2>2
<1>10. u # <<>>
  BY <1>2, <1>7 DEF Leveled
<1>11. Walk(schema, up, u)
  BY <1>4, <1>7, <1>8, <1>9, <1>10 DEF Walk
<1> QED BY <1>11 DEF u, new, o, up, p

LEMMA WalkStarts ==
  ASSUME NEW schema \in {Schema, NewSchema}
  PROVE  Walk(schema, <<<<>>>>, Components(schema, Base, <<>>) \o <<Task("OBJECT", Base, <<>>, 0)>>)
<1> DEFINE ch == <<<<>>>>
           o == Task("OBJECT", Base, <<>>, 0)
           new == Components(schema, Base, <<>>) \o <<o>>
<1>1. ch \in Seq(Seq(Steps)) /\ ch # <<>> /\ ch[1] = <<>> /\ Len(ch) = 1
  OBVIOUS
<1>2. Base.desc \in DOMAIN schema /\ CompOf(<<>>) = Base /\ Base \in Known
  BY BaseIs
<1>3. Chain(schema, ch)
  BY <1>1, <1>2 DEF Chain
<1>4. o \in Tasks /\ o.do = "OBJECT" /\ o.comp = Base
  <2> DEFINE r == <<>>
  <2>1. r \in Seq(Steps)
    OBVIOUS
  <2> HIDE DEF r
  <2>2. LET t == Task("OBJECT", Base, r, 0)
        IN  t \in Tasks /\ t.do = "OBJECT" /\ t.comp = Base
    BY <1>2, <2>1 DEF Task, Tasks
  <2> QED BY <2>2 DEF r
<1> HIDE DEF o, ch
<1>5. LevelOf(o) = 1
  BY <1>4 DEF LevelOf
<1>6. /\ new \in Seq(Tasks) /\ new # <<>> /\ Leveled(new, 1, 1 - 1)
      /\ \A i \in 1 .. Len(new) : Fits(schema, ch, new[i])
  BY <1>1, <1>2, <1>3, <1>4, <1>5, Opening
<1> HIDE DEF new
<1>7. Walk(schema, ch, new)
  BY <1>1, <1>3, <1>6 DEF Walk
<1> QED BY <1>7 DEF new, o, ch

LEMMA WalkCloses ==
  ASSUME NEW schema \in {Schema, NewSchema}, NEW ch, NEW s, Walk(schema, ch, s),
         Head(s).do = "OBJECT"
  PROVE  IF Len(ch) = 1 THEN Tail(s) = <<>> ELSE Walk(schema, Front(ch), Tail(s))
<1> DEFINE n == Len(ch)
           u == Tail(s)
<1>1. /\ n \in Nat \ {0} /\ LevelOf(Head(s)) = n /\ Head(s) \in Tasks
      /\ u \in Seq(Tasks) /\ Leveled(u, After(Head(s)), 0)
      /\ \A i \in 1 .. Len(u) : Fits(schema, ch, u[i])
  BY WalkHead
<1> HIDE DEF u
<1>2. After(Head(s)) = n - 1 /\ Leveled(u, n - 1, 0)
  BY <1>1 DEF After
<1>3. CASE n = 1
  <2>1. ASSUME u # <<>> PROVE FALSE
    <3>1. 1 \in 1 .. Len(u)
      BY <1>1, <2>1
    <3>2. LevelOf(u[1]) = 0
      BY <1>2, <1>3, <3>1 DEF Leveled
    <3> QED BY <1>1, <3>1, <3>2 DEF Fits
  <2> QED BY <1>3, <2>1 DEF u
<1>4. CASE n # 1
  <2> DEFINE low == Front(ch)
  <2>1. Chain(schema, low) /\ Len(low) = n - 1 /\ \A j \in 1 .. n - 1 : low[j] = ch[j]
    BY <1>4, ChainShrinks DEF Walk
  <2> HIDE DEF low
  <2>2. n - 1 # 0
    BY <1>1, <1>4
  <2>3. u # <<>>
    BY <1>2, <2>2 DEF Leveled
  \* The levels do not go up again, so they are all below n.
  <2>4. \A i \in 1 .. Len(u) : LevelOf(u[i]) <= n - 1
    <3> DEFINE m == Len(u)
               T == {i \in Nat : i + 1 \in 1 .. m => LevelOf(u[i + 1]) <= n - 1}
    <3>1. m \in Nat /\ \A i \in 1 .. m : LevelOf(u[i]) \in Nat /\ After(u[i]) <= LevelOf(u[i])
      BY <1>1, LevelIs DEF After
    <3>2. 0 \in T
      <4>1. 1 \in 1 .. m => LevelOf(u[1]) = n - 1
        BY <1>2 DEF Leveled
      <4> QED BY <1>1, <4>1
    <3>3. ASSUME NEW i \in 0 .. m, i \in T, i # m PROVE i + 1 \in T
      <4> SUFFICES ASSUME (i + 1) + 1 \in 1 .. m PROVE LevelOf(u[(i + 1) + 1]) <= n - 1
        BY <3>1
      <4> DEFINE k == i + 1
                 h == k + 1
      <4>1. k \in 1 .. m /\ h \in 1 .. m /\ h # 1 /\ h - 1 = k
        BY <3>1, <3>3
      <4>2. LevelOf(u[k]) <= n - 1
        BY <3>3, <4>1
      <4> HIDE DEF k, h
      <4>3. LevelOf(u[h]) = After(u[k])
        BY <1>2, <4>1 DEF Leveled
      <4>4. LevelOf(u[h]) <= n - 1
        <5>1. /\ LevelOf(u[k]) \in Nat /\ LevelOf(u[h]) \in Nat
              /\ LevelOf(u[h]) <= LevelOf(u[k])
          BY <3>1, <4>1, <4>3
        <5> QED BY <1>1, <4>2, <5>1
      <4> QED BY <4>4 DEF k, h
    <3>4. \A i \in 0 .. m : i \in T
      <4> HIDE DEF T, m
      <4> QED BY <3>1, <3>2, <3>3, Upwards
    <3> TAKE i \in 1 .. Len(u)
    <3>5. i - 1 \in 0 .. m /\ (i - 1) + 1 = i
      BY <3>1
    <3>6. i - 1 \in T
      BY <3>4, <3>5
    <3> QED BY <3>5, <3>6
  <2>5. ASSUME NEW i \in 1 .. Len(u) PROVE Fits(schema, low, u[i])
    <3>1. Fits(schema, ch, u[i]) /\ LevelOf(u[i]) <= n - 1
      BY <1>1, <2>4
    <3>2. LevelOf(u[i]) \in 1 .. n - 1
      BY <1>1, <3>1 DEF Fits
    <3> QED BY <2>1, <3>1, <3>2 DEF Fits
  <2>6. Walk(schema, low, u)
    BY <1>1, <1>2, <2>1, <2>3, <2>5 DEF Walk
  <2> QED BY <1>4, <2>6 DEF low, u
<1> QED BY <1>3, <1>4

(* The items there are of a component.                                     *)
LEMMA PresentIs ==
  ASSUME NEW paths, NEW path, NEW c, c.max \in Nat \ {0}
  PROVE  Cardinality(Present(paths, path, c)) \in 0 .. c.max
<1> DEFINE P == Present(paths, path, c)
           m == c.max - 1
<1>1. m \in Nat /\ P \subseteq 0 .. m
  BY DEF Present
<1>2. IsFiniteSet(0 .. m) /\ Cardinality(0 .. m) = m + 1
  <2>1. 0 \in Int /\ m \in Int /\ ~(0 > m) /\ m - 0 + 1 = m + 1
    BY <1>1
  <2> HIDE DEF m
  <2> QED BY <2>1, FS_Interval
<1>3. IsFiniteSet(P) /\ Cardinality(P) <= m + 1
  BY <1>1, <1>2, FS_Subset
<1>4. Cardinality(P) \in Nat
  BY <1>3, FS_CardinalityType
<1> HIDE DEF P
<1> QED BY <1>1, <1>3, <1>4 DEF P

-----------------------------------------------------------------------------
(* What a save stores of a configuration, and the order of it.             *)

Kept(paths) ==
  {p \in paths : HasContent(paths, p) /\ \A i \in DOMAIN p : p[i][1] \notin Volatile}

(* The items in an item. *)
Kin(K, p) == {q \in K : q # <<>> /\ Front(q) = p}

(* Of two items in the same item, which one is saved first. *)
Before(q, r) ==
  LET d == Schema[CompOf(Front(q)).desc]
  IN  \E i, j \in DOMAIN d :
        /\ d[i] = CompOf(q) /\ d[j] = CompOf(r)
        /\ i < j \/ (i = j /\ Last(q)[2] < Last(r)[2])

LEMMA PrefixIs ==
  ASSUME NEW s \in Seq(Steps), NEW t \in Seq(Steps)
  PROVE  IsPrefix(s, t) <=> Len(s) <= Len(t) /\ \A i \in 1 .. Len(s) : s[i] = t[i]
<1> DEFINE n == Len(s)
<1>1. n \in Nat /\ Len(t) \in Nat
  OBVIOUS
<1>2. SubSeq(s, 1, n) = s
  OBVIOUS
<1>3. ASSUME n <= Len(t)
      PROVE  SubSeq(t, 1, n) \in Seq(Steps) /\ Len(SubSeq(t, 1, n)) = n
             /\ \A i \in 1 .. n : SubSeq(t, 1, n)[i] = t[i]
  <2>1. \A i \in 1 .. n : t[i] \in Steps
    BY <1>1, <1>3
  <2> QED BY <1>1, <1>3, <2>1
<1>4. ASSUME n <= Len(t)
      PROVE  s = SubSeq(t, 1, n) <=> \A i \in 1 .. n : s[i] = t[i]
  <2> DEFINE u == SubSeq(t, 1, n)
  <2>1. u \in Seq(Steps) /\ Len(u) = n /\ \A i \in 1 .. n : u[i] = t[i]
    BY <1>3, <1>4
  <2> HIDE DEF u
  <2>2. (\A i \in 1 .. n : s[i] = u[i]) => s = u
    BY <2>1
  <2> QED BY <2>1, <2>2 DEF u
<1> QED BY <1>2, <1>4 DEF IsPrefix

LEMMA KeptIs ==
  ASSUME NEW paths \in Configs \cup {Nothing}, NEW q \in Kept(paths)
  PROVE  /\ paths \in Configs /\ q \in paths /\ q \in Seq(Steps) /\ HasContent(paths, q)
         /\ \A i \in 1 .. Len(q) : q[i][1] \notin Volatile
<1>1. q \in paths /\ HasContent(paths, q) /\ \A i \in DOMAIN q : q[i][1] \notin Volatile
  BY DEF Kept
<1>2. paths \in Configs
  BY <1>1 DEF Nothing
<1>3. q \in Seq(Steps)
  BY <1>1, <1>2, ConfigAssumption
<1> QED BY <1>1, <1>2, <1>3

(* Where there is content, there is also in the item around it.            *)
LEMMA ContentAbove ==
  ASSUME NEW paths \in Configs, NEW q \in Seq(Steps), q # <<>>, HasContent(paths, q)
  PROVE  HasContent(paths, Front(q))
<1>1. PICK s \in paths \ {<<>>} : Last(s)[1] \in SimpleNames \ Volatile /\ IsPrefix(q, s)
  BY DEF HasContent
<1>2. s \in Seq(Steps)
  BY ConfigAssumption
<1>3. Front(q) \in Seq(Steps) /\ Len(Front(q)) = Len(q) - 1 /\ Len(q) \in Nat /\ Len(s) \in Nat
      /\ \A i \in 1 .. Len(q) - 1 : Front(q)[i] = q[i]
  BY <1>2, FrontIs
<1>4. Len(q) <= Len(s) /\ \A i \in 1 .. Len(q) : q[i] = s[i]
  BY <1>1, <1>2, PrefixIs
<1>5. Len(Front(q)) <= Len(s) /\ \A i \in 1 .. Len(Front(q)) : Front(q)[i] = s[i]
  <2> DEFINE f == Front(q)
  <2> HIDE DEF f
  <2>1. \A i \in 1 .. Len(q) - 1 : i \in 1 .. Len(q)
    BY <1>3
  <2>2. Len(f) <= Len(s) /\ \A i \in 1 .. Len(f) : f[i] = s[i]
    BY <1>3, <1>4, <2>1 DEF f
  <2> QED BY <2>2 DEF f
<1>6. IsPrefix(Front(q), s)
  BY <1>2, <1>3, <1>5, PrefixIs
<1> QED BY <1>1, <1>6 DEF HasContent

LEMMA KeptPart ==
  ASSUME NEW paths \in Configs \cup {Nothing}, NEW q \in Kept(paths), q # <<>>
  PROVE  LET p == Front(q)
         IN  /\ p \in Kept(paths) /\ p \in Seq(Steps) /\ CompOf(p).desc \in DOMAIN Schema
             /\ Len(q) = Len(p) + 1
             /\ \E c \in Parts(Schema, p) : \E k \in Nat :
                  /\ c \in Known /\ c # Base /\ c.name \notin Volatile /\ CompOf(q) = c
                  /\ k \in Present(paths, p, c) /\ k \in 0 .. c.max - 1
                  /\ q = Below(p, c, k) /\ Last(q) = <<c.name, k>>
<1>1. /\ paths \in Configs /\ q \in paths /\ q \in Seq(Steps) /\ HasContent(paths, q)
      /\ \A i \in 1 .. Len(q) : q[i][1] \notin Volatile
  BY KeptIs
<1>2. PICK p \in paths : /\ CompOf(p).desc \in DOMAIN Schema
                         /\ \E c \in Parts(Schema, p) : \E k \in Present(paths, p, c) : q = Below(p, c, k)
  BY <1>1, ConfigAssumption
<1>3. PICK c \in Parts(Schema, p) : \E k \in Present(paths, p, c) : q = Below(p, c, k)
  BY <1>2
<1>11. PICK k \in Present(paths, p, c) : q = Below(p, c, k)
  BY <1>3
<1>4. p \in Seq(Steps) /\ c \in Known /\ c # Base /\ c.max \in Nat \ {0}
  BY <1>1, <1>2, ConfigAssumption, PartsAre DEF Parts
<1>5. k \in 0 .. c.max - 1 /\ k \in Nat
  BY <1>4 DEF Present
<1>6. Front(q) = p /\ Last(q) = <<c.name, k>> /\ CompOf(q) = c /\ Len(q) = Len(p) + 1
  BY <1>11, <1>4, <1>5, BelowIs
<1>7. /\ Len(p) \in Nat /\ Len(q) \in 1 .. Len(q) /\ Last(q) = q[Len(q)]
      /\ \A i \in 1 .. Len(p) : i \in 1 .. Len(q) /\ p[i] = q[i]
  <2>1. Len(p) \in Nat /\ Len(q) \in Nat /\ \A i \in 1 .. Len(q) - 1 : p[i] = q[i]
    <3>1. Len(p) \in Nat /\ Len(q) \in Nat
      BY <1>1, <1>4
    <3>2. \A i \in 1 .. Len(q) - 1 : Front(q)[i] = q[i]
      BY ONLY <1>1, q # <<>>, FrontIs
    <3> QED BY <1>6, <3>1, <3>2
  <2>2. \A i \in 1 .. Len(p) : i \in 1 .. Len(q) /\ i \in 1 .. Len(q) - 1
    BY <1>6, <2>1
  <2> QED BY <1>6, <2>1, <2>2 DEF Last
<1>8. c.name \notin Volatile
  <2>1. Last(q)[1] = c.name
    BY <1>6
  <2> QED BY <1>1, <1>7, <2>1
<1>9. HasContent(paths, p)
  BY <1>1, <1>6, ContentAbove
<1>10. p \in Kept(paths)
  <2>1. DOMAIN p = 1 .. Len(p)
    BY <1>4
  <2> QED BY <1>1, <1>7, <1>9, <2>1 DEF Kept
<1> QED BY <1>2, <1>11, <1>4, <1>5, <1>6, <1>8, <1>10

LEMMA KeptBelow ==
  ASSUME NEW paths \in Configs, NEW p \in Kept(paths), CompOf(p).desc \in DOMAIN Schema,
         NEW c \in Parts(Schema, p), c.name \notin Volatile, NEW k \in Nat,
         Below(p, c, k) \in paths, HasContent(paths, Below(p, c, k))
  PROVE  Below(p, c, k) \in Kept(paths)
<1> DEFINE q == Below(p, c, k)
<1>1. p \in Seq(Steps) /\ \A i \in 1 .. Len(p) : p[i][1] \notin Volatile
  BY KeptIs
<1>2. c \in Known
  BY <1>1, PartsAre DEF Parts
<1>3. <<c.name, k>> \in Steps
  BY <1>2 DEF Steps
<1>4. /\ DOMAIN q = 1 .. Len(p) + 1 /\ q[Len(p) + 1] = <<c.name, k>> /\ Len(p) \in Nat
      /\ \A i \in 1 .. Len(p) : q[i] = p[i]
  BY <1>1, <1>3 DEF Below
<1>5. \A i \in 1 .. Len(p) + 1 : q[i][1] \notin Volatile
  <2> TAKE i \in 1 .. Len(p) + 1
  <2>1. CASE i = Len(p) + 1
    BY <1>4, <2>1
  <2>2. CASE i # Len(p) + 1
    <3>1. i \in 1 .. Len(p)
      BY <1>4, <2>2
    <3> QED BY <1>1, <1>4, <3>1
  <2> QED BY <2>1, <2>2
<1> HIDE DEF q
<1>6. q \in Kept(paths)
  BY <1>4, <1>5 DEF Kept, q
<1> QED BY <1>6 DEF q

(* Below(p, c, k) names one item. *)
LEMMA BelowOnce ==
  ASSUME NEW p \in Seq(Steps), NEW c \in Known, NEW k \in Nat,
         NEW r \in Seq(Steps), NEW e \in Known, NEW m \in Nat, Below(p, c, k) = Below(r, e, m)
  PROVE  p = r /\ c = e /\ k = m
<1>1. Front(Below(p, c, k)) = p /\ CompOf(Below(p, c, k)) = c /\ Last(Below(p, c, k)) = <<c.name, k>>
  BY BelowIs
<1>2. Front(Below(r, e, m)) = r /\ CompOf(Below(r, e, m)) = e /\ Last(Below(r, e, m)) = <<e.name, m>>
  BY BelowIs
<1>3. <<c.name, k>> = <<e.name, m>>
  BY <1>1, <1>2
<1>4. k = m
  BY <1>3
<1> QED BY <1>1, <1>2, <1>4

(* The order, in terms of the descriptor.                                  *)
LEMMA BeforeIs ==
  ASSUME NEW p \in Seq(Steps), CompOf(p).desc \in DOMAIN Schema,
         NEW i \in DOMAIN Schema[CompOf(p).desc], NEW j \in DOMAIN Schema[CompOf(p).desc],
         NEW k \in Nat, NEW m \in Nat
  PROVE  LET d == Schema[CompOf(p).desc]
         IN  Before(Below(p, d[i], k), Below(p, d[j], m)) <=> i < j \/ (i = j /\ k < m)
<1> DEFINE d == Schema[CompOf(p).desc]
           q == Below(p, d[i], k)
           r == Below(p, d[j], m)
<1>1. d[i] \in Known /\ d[j] \in Known
  BY PartsAre DEF ToSet
<1>2. /\ Front(q) = p /\ CompOf(q) = d[i] /\ Last(q) = <<d[i].name, k>>
      /\ CompOf(r) = d[j] /\ Last(r) = <<d[j].name, m>>
  BY <1>1, BelowIs
<1>3. Last(q)[2] = k /\ Last(r)[2] = m
  BY <1>2
<1>4. \A a, b \in DOMAIN d : d[a] = d[b] => a = b
  BY SchemaAssumption
<1> HIDE DEF q, r
<1>5. Before(q, r) <=> \E a, b \in DOMAIN d : d[a] = d[i] /\ d[b] = d[j] /\ (a < b \/ (a = b /\ k < m))
  BY <1>2, <1>3 DEF Before
<1> HIDE DEF d
<1>6. Before(q, r) <=> i < j \/ (i = j /\ k < m)
  BY <1>4, <1>5 DEF d
<1> QED BY <1>6 DEF q, r, d

LEMMA BeforeOne ==
  ASSUME NEW p \in Seq(Steps), CompOf(p).desc \in DOMAIN Schema,
         NEW c \in Parts(Schema, p), NEW e \in Parts(Schema, p), NEW k \in Nat, NEW m \in Nat
  PROVE  /\ ~(Before(Below(p, c, k), Below(p, e, m)) /\ Before(Below(p, e, m), Below(p, c, k)))
         /\ Below(p, c, k) # Below(p, e, m) =>
              Before(Below(p, c, k), Below(p, e, m)) \/ Before(Below(p, e, m), Below(p, c, k))
         /\ Before(Below(p, c, k), Below(p, c, m)) <=> k < m
<1> DEFINE d == Schema[CompOf(p).desc]
<1>1. PICK i \in DOMAIN d, j \in DOMAIN d : c = d[i] /\ e = d[j]
  BY DEF Parts, ToSet
<1>2. /\ Before(Below(p, d[i], k), Below(p, d[j], m)) <=> i < j \/ (i = j /\ k < m)
      /\ Before(Below(p, d[j], m), Below(p, d[i], k)) <=> j < i \/ (j = i /\ m < k)
      /\ Before(Below(p, d[i], k), Below(p, d[i], m)) <=> i < i \/ (i = i /\ k < m)
  BY BeforeIs
<1>3. i \in Nat /\ j \in Nat
  BY SchemaAssumption
<1>4. k = m /\ i = j => Below(p, c, k) = Below(p, e, m)
  BY <1>1
<1>5. ~(i < i)
  BY <1>3
<1> HIDE DEF d
<1> QED BY <1>1, <1>2, <1>3, <1>4, <1>5

-----------------------------------------------------------------------------
(* What a walk has done, and what it has still to do.                      *)

Open(ch) == {ch[j] : j \in 1 .. Len(ch)}

(* The items that a task is about. *)
KidsOf(t) ==
  {Below(t.path, t.comp, k) :
     k \in IF t.do = "aggr" THEN Nat ELSE IF t.do = "item" THEN {t.idx} ELSE {}}
Pending(s) == UNION {KidsOf(s[i]) : i \in 1 .. Len(s)}

Sorted(s) ==
  \A i, j \in 1 .. Len(s) : i < j =>
    \A q \in KidsOf(s[i]), r \in KidsOf(s[j]) : Front(q) = Front(r) => Before(q, r)

LEMMA KidIs ==
  ASSUME NEW schema \in {Schema, NewSchema}, NEW ch, Chain(schema, ch),
         NEW t \in Tasks, Fits(schema, ch, t), NEW r \in KidsOf(t)
  PROVE  /\ t.do \in {"aggr", "item"} /\ LevelOf(t) \in 1 .. Len(ch)
         /\ t.path = ch[LevelOf(t)] /\ t.path \in Seq(Steps) /\ t.path \in Open(ch)
         /\ CompOf(t.path).desc \in DOMAIN schema /\ t.comp \in Parts(schema, t.path)
         /\ t.comp \in Known /\ t.comp # Base
         /\ r \in Seq(Steps) /\ r # <<>> /\ Front(r) = t.path /\ CompOf(r) = t.comp
         /\ \E k \in Nat : r = Below(t.path, t.comp, k) /\ (t.do = "item" => k = t.idx)
<1>1. t.do \in {"aggr", "item"} /\ t.do # "OBJECT"
  BY DEF KidsOf, Tasks
<1>2. t.idx \in Nat
  BY DEF Tasks
<1>3. PICK k \in Nat : r = Below(t.path, t.comp, k) /\ (t.do = "item" => k = t.idx)
  <2>1. CASE t.do = "aggr"
    BY <2>1 DEF KidsOf
  <2>2. CASE t.do = "item"
    BY <1>2, <2>2 DEF KidsOf
  <2> QED BY <1>1, <2>1, <2>2
<1>4. LevelOf(t) \in 1 .. Len(ch) /\ t.path = ch[LevelOf(t)] /\ t.comp \in Parts(schema, t.path)
  BY <1>1 DEF Fits
<1>5. t.path \in Seq(Steps) /\ CompOf(t.path).desc \in DOMAIN schema
  BY <1>4, ChainIs
<1>6. t.comp \in Known /\ t.comp # Base
  BY <1>4, <1>5, PartsAre DEF Parts
<1>7. r \in Seq(Steps) /\ r # <<>> /\ Front(r) = t.path /\ CompOf(r) = t.comp
  BY <1>3, <1>5, <1>6, BelowIs
<1> QED BY <1>1, <1>3, <1>4, <1>5, <1>6, <1>7 DEF Open

(* Whether some tasks fit.                                                 *)
Suits(schema, ch, s) ==
  /\ s \in Seq(Tasks)
  /\ \A i \in 1 .. Len(s) : Fits(schema, ch, s[i])

LEMMA PendingIs ==
  ASSUME NEW schema \in {Schema, NewSchema}, NEW ch, Chain(schema, ch), NEW s, Suits(schema, ch, s),
         NEW r \in Pending(s)
  PROVE  /\ r \in Seq(Steps) /\ r # <<>> /\ Front(r) \in Open(ch)
         /\ CompOf(Front(r)).desc \in DOMAIN schema
         /\ CompOf(r) \in Parts(schema, Front(r)) /\ \E k \in Nat : r = Below(Front(r), CompOf(r), k)
<1>1. PICK i \in 1 .. Len(s) : r \in KidsOf(s[i])
  BY DEF Pending
<1>2. s[i] \in Tasks /\ Fits(schema, ch, s[i])
  BY DEF Suits
<1> DEFINE t == s[i]
<1> HIDE DEF t
<1>3. /\ r \in Seq(Steps) /\ r # <<>> /\ Front(r) = t.path /\ CompOf(r) = t.comp
      /\ t.path \in Open(ch) /\ CompOf(t.path).desc \in DOMAIN schema /\ t.comp \in Parts(schema, t.path)
      /\ \E k \in Nat : r = Below(t.path, t.comp, k)
  BY <1>1, <1>2, KidIs DEF t
<1> QED BY <1>3

LEMMA PendingJoin ==
  ASSUME NEW s \in Seq(Tasks), NEW t \in Seq(Tasks)
  PROVE  /\ Pending(s \o t) = Pending(s) \cup Pending(t)
         /\ Sorted(s) /\ Sorted(t)
              /\ (\A q \in Pending(s), r \in Pending(t) : Front(q) = Front(r) => Before(q, r))
            => Sorted(s \o t)
<1> DEFINE u == s \o t
           m == Len(s)
           n == Len(t)
<1>1. m \in Nat /\ n \in Nat /\ Len(u) = m + n
      /\ \A i \in 1 .. m + n : u[i] = IF i <= m THEN s[i] ELSE t[i - m]
  BY JoinedIs
<1> HIDE DEF u, m, n
<1>2. \A i \in 1 .. m : i \in 1 .. m + n /\ u[i] = s[i]
  BY <1>1
<1>3. \A i \in 1 .. n : m + i \in 1 .. m + n /\ u[m + i] = t[i]
  <2> TAKE i \in 1 .. n
  <2>1. m + i \in 1 .. m + n /\ ~(m + i <= m) /\ (m + i) - m = i
    BY <1>1
  <2> QED BY <1>1, <2>1
<1>4. \A i \in 1 .. m + n : i \in 1 .. m \/ \E j \in 1 .. n : i = m + j
  <2> TAKE i \in 1 .. m + n
  <2>1. CASE i > m
    <3>1. i - m \in 1 .. n /\ i = m + (i - m)
      BY <1>1, <2>1
    <3> QED BY <3>1
  <2>2. CASE ~(i > m)
    BY <1>1, <2>2
  <2> QED BY <2>1, <2>2
<1>5. Pending(u) = Pending(s) \cup Pending(t)
  <2>1. ASSUME NEW r \in Pending(u) PROVE r \in Pending(s) \cup Pending(t)
    <3>1. PICK i \in 1 .. m + n : r \in KidsOf(u[i])
      BY <1>1 DEF Pending
    <3>2. CASE i \in 1 .. m
      BY <1>2, <3>1, <3>2 DEF Pending, m
    <3>3. CASE \E j \in 1 .. n : i = m + j
      BY <1>3, <3>1, <3>3 DEF Pending, n
    <3> QED BY <1>4, <3>2, <3>3
  <2>2. ASSUME NEW r \in Pending(s) PROVE r \in Pending(u)
    <3>1. PICK i \in 1 .. m : r \in KidsOf(s[i])
      BY DEF Pending, m
    <3> QED BY <1>1, <1>2, <3>1 DEF Pending
  <2>3. ASSUME NEW r \in Pending(t) PROVE r \in Pending(u)
    <3>1. PICK i \in 1 .. n : r \in KidsOf(t[i])
      BY DEF Pending, n
    <3> QED BY <1>1, <1>3, <3>1 DEF Pending
  <2> QED BY <2>1, <2>2, <2>3
<1>6. ASSUME Sorted(s), Sorted(t),
             \A q \in Pending(s), r \in Pending(t) : Front(q) = Front(r) => Before(q, r)
      PROVE  Sorted(u)
  <2> SUFFICES ASSUME NEW i \in 1 .. m + n, NEW j \in 1 .. m + n, i < j,
                      NEW q \in KidsOf(u[i]), NEW r \in KidsOf(u[j]), Front(q) = Front(r)
               PROVE  Before(q, r)
    BY <1>1 DEF Sorted
  <2>1. CASE i \in 1 .. m /\ j \in 1 .. m
    BY <1>2, <1>6, <2>1 DEF Sorted, m
  <2>2. CASE i \in 1 .. m /\ \E h \in 1 .. n : j = m + h
    <3>1. q \in Pending(s) /\ r \in Pending(t)
      BY <1>2, <1>3, <2>2 DEF Pending, m, n
    <3> QED BY <1>6, <3>1
  <2>3. CASE (\E h \in 1 .. n : i = m + h) /\ (\E h \in 1 .. n : j = m + h)
    <3>1. PICK h \in 1 .. n : i = m + h
      BY <2>3
    <3>2. PICK g \in 1 .. n : j = m + g
      BY <2>3
    <3>3. h < g
      BY <1>1, <3>1, <3>2
    <3>4. q \in KidsOf(t[h]) /\ r \in KidsOf(t[g])
      BY <1>3, <3>1, <3>2
    <3> QED BY <1>6, <3>3, <3>4 DEF Sorted, n
  <2>4. CASE (\E h \in 1 .. n : i = m + h) /\ j \in 1 .. m
    BY <1>1, <2>4
  <2> QED BY <1>4, <2>1, <2>2, <2>3, <2>4
<1> QED BY <1>5, <1>6 DEF u

LEMMA PendingHead ==
  ASSUME NEW s \in Seq(Tasks), s # <<>>
  PROVE  /\ Pending(s) = KidsOf(Head(s)) \cup Pending(Tail(s))
         /\ Sorted(s) => /\ Sorted(Tail(s))
                         /\ \A q \in KidsOf(Head(s)), r \in Pending(Tail(s)) :
                              Front(q) = Front(r) => Before(q, r)
<1> DEFINE u == Tail(s)
           m == Len(s)
<1>1. m \in Nat /\ m >= 1 /\ Len(u) = m - 1 /\ Head(s) = s[1] /\ \A i \in 1 .. m - 1 : u[i] = s[i + 1]
  OBVIOUS
<1> HIDE DEF u, m
<1>2. \A i \in 1 .. m : i = 1 \/ \E j \in 1 .. m - 1 : i = j + 1
  <2> TAKE i \in 1 .. m
  <2>1. i # 1 => i - 1 \in 1 .. m - 1 /\ i = (i - 1) + 1
    BY <1>1
  <2> QED BY <2>1
<1>3. 1 \in 1 .. m /\ \A i \in 1 .. m - 1 : i + 1 \in 1 .. m /\ 1 < i + 1
  BY <1>1
<1>4. Pending(s) = KidsOf(Head(s)) \cup Pending(u)
  <2>1. ASSUME NEW r \in Pending(s) PROVE r \in KidsOf(Head(s)) \cup Pending(u)
    <3>1. PICK i \in 1 .. m : r \in KidsOf(s[i])
      BY DEF Pending, m
    <3>2. CASE \E j \in 1 .. m - 1 : i = j + 1
      BY <1>1, <3>1, <3>2 DEF Pending
    <3> QED BY <1>1, <1>2, <3>1, <3>2
  <2>2. ASSUME NEW r \in Pending(u) PROVE r \in Pending(s)
    <3>1. PICK i \in 1 .. m - 1 : r \in KidsOf(u[i])
      BY <1>1 DEF Pending
    <3> QED BY <1>1, <1>3, <3>1 DEF Pending, m
  <2>3. KidsOf(Head(s)) \subseteq Pending(s)
    BY <1>1, <1>3 DEF Pending, m
  <2> QED BY <2>1, <2>2, <2>3
<1>5. ASSUME Sorted(s) PROVE Sorted(u)
  <2> SUFFICES ASSUME NEW i \in 1 .. m - 1, NEW j \in 1 .. m - 1, i < j,
                      NEW q \in KidsOf(u[i]), NEW r \in KidsOf(u[j]), Front(q) = Front(r)
               PROVE  Before(q, r)
    BY <1>1 DEF Sorted
  <2>1. i + 1 \in 1 .. m /\ j + 1 \in 1 .. m /\ i + 1 < j + 1
    BY <1>3
  <2>2. q \in KidsOf(s[i + 1]) /\ r \in KidsOf(s[j + 1])
    BY <1>1
  <2> QED BY <1>5, <2>1, <2>2 DEF Sorted, m
<1>6. ASSUME Sorted(s), NEW q \in KidsOf(Head(s)), NEW r \in Pending(u), Front(q) = Front(r)
      PROVE  Before(q, r)
  <2>1. PICK i \in 1 .. m - 1 : r \in KidsOf(u[i])
    BY <1>1 DEF Pending
  <2>2. r \in KidsOf(s[i + 1]) /\ q \in KidsOf(s[1])
    BY <1>1, <2>1
  <2> QED BY <1>3, <1>6, <2>2 DEF Sorted, m
<1> QED BY <1>4, <1>5, <1>6 DEF u

LEMMA OpenIs ==
  ASSUME NEW schema \in {Schema, NewSchema}, NEW ch, Chain(schema, ch), NEW r \in Open(ch)
  PROVE  /\ r \in Seq(Steps) /\ Len(r) \in 0 .. Len(ch) - 1 /\ Len(r) + 1 \in 1 .. Len(ch)
         /\ r = ch[Len(r) + 1] /\ CompOf(r).desc \in DOMAIN schema
         /\ r # <<>> => /\ Len(r) \in 1 .. Len(ch) - 1 /\ Len(r) \in 1 .. Len(ch)
                        /\ Front(r) = ch[Len(r)] /\ Front(r) \in Open(ch)
                        /\ Front(r) # ch[Len(ch)]
<1>1. PICK j \in 1 .. Len(ch) : r = ch[j]
  BY DEF Open
<1>2. /\ r \in Seq(Steps) /\ Len(r) = j - 1 /\ Len(ch) \in Nat /\ Len(ch) \in 1 .. Len(ch)
      /\ CompOf(r).desc \in DOMAIN schema
  BY <1>1, ChainIs
<1>3. ASSUME r # <<>>
      PROVE  /\ Len(r) \in 1 .. Len(ch) - 1 /\ Len(r) \in 1 .. Len(ch)
             /\ Front(r) = ch[Len(r)] /\ Front(r) \in Open(ch) /\ Front(r) # ch[Len(ch)]
  <2>1. Len(r) # 0
    BY <1>2, <1>3
  <2>2. j \in 2 .. Len(ch) /\ j - 1 \in 1 .. Len(ch) /\ Len(r) \in 1 .. Len(ch) - 1
    BY <1>2, <2>1
  <2>3. PICK e \in Parts(schema, ch[j - 1]), i \in Nat : ch[j] = Below(ch[j - 1], e, i)
    <3>1. \A g \in 2 .. Len(ch) : \E e \in Parts(schema, ch[g - 1]), i \in Nat : ch[g] = Below(ch[g - 1], e, i)
      BY ChainIs
    <3> QED BY <2>2, <3>1
  <2>4. ch[j - 1] \in Seq(Steps) /\ CompOf(ch[j - 1]).desc \in DOMAIN schema /\ Len(ch[j - 1]) = j - 2
    <3>1. \A g \in 1 .. Len(ch) : ch[g] \in Seq(Steps) /\ Len(ch[g]) = g - 1 /\ CompOf(ch[g]).desc \in DOMAIN schema
      BY ChainIs
    <3>2. (j - 1) - 1 = j - 2
      BY <1>2
    <3> QED BY ONLY <2>2, <3>1, <3>2
  <2>5. e \in Known
    BY <2>4, PartsAre DEF Parts
  <2>6. Front(r) = ch[j - 1]
    BY <1>1, <2>3, <2>4, <2>5, BelowIs
  <2>7. Len(ch[Len(ch)]) = Len(ch) - 1
    <3>1. \A g \in 1 .. Len(ch) : Len(ch[g]) = g - 1
      BY ChainIs
    <3> QED BY <1>2, <3>1
  <2>8. Front(r) # ch[Len(ch)]
    BY <1>2, <2>2, <2>4, <2>6, <2>7
  <2> QED BY <1>2, <2>2, <2>6, <2>8 DEF Open
<1> QED BY <1>1, <1>2, <1>3

LEMMA LastOpen ==
  ASSUME NEW schema, NEW ch, Chain(schema, ch)
  PROVE  /\ Len(ch) \in Nat \ {0} /\ Len(ch) \in 1 .. Len(ch) /\ ch[Len(ch)] \in Open(ch)
         /\ ch[Len(ch)] \in Seq(Steps) /\ Len(ch[Len(ch)]) = Len(ch) - 1
         /\ Len(ch) # 1 => ch[Len(ch)] # <<>>
<1>1. /\ Len(ch) \in Nat \ {0} /\ Len(ch) \in 1 .. Len(ch)
      /\ \A j \in 1 .. Len(ch) : ch[j] \in Seq(Steps) /\ Len(ch[j]) = j - 1
  BY ChainIs
<1>2. ch[Len(ch)] \in Seq(Steps) /\ Len(ch[Len(ch)]) = Len(ch) - 1
  BY <1>1
<1>3. Len(ch) # 1 => Len(ch[Len(ch)]) # 0
  BY <1>1, <1>2
<1>4. ch[Len(ch)] \in Open(ch)
  BY <1>1 DEF Open
<1>5. Len(ch) # 1 => ch[Len(ch)] # <<>>
  BY <1>3
<1> QED BY <1>1, <1>2, <1>4, <1>5

(* What has been saved, D, comes before what has not been.                 *)
Ordered(paths, D, ch) ==
  LET K == Kept(paths)
  IN  /\ D \subseteq K /\ Open(ch) \subseteq K /\ Open(ch) \cap D = {}
      /\ \A q \in D : q # <<>> /\ Front(q) \in D \cup Open(ch)
      /\ \A q \in D, r \in K : r # <<>> /\ Front(r) = q => r \in D
      /\ \A q \in D, r \in Open(ch) : r # <<>> /\ Front(q) = Front(r) => Before(q, r)

Queued(paths, D, ch, s) ==
  LET K == Kept(paths)
  IN  /\ Sorted(s)
      /\ \A q \in D \cup Open(ch), r \in Pending(s) : q # <<>> /\ Front(q) = Front(r) => Before(q, r)
      /\ \A q \in K : q # <<>> /\ Front(q) \in Open(ch) => q \in D \cup Open(ch) \cup Pending(s)
      /\ \A i \in 1 .. Len(s) : s[i].do = "item" =>
           s[i].comp.name \notin Volatile /\ KidsOf(s[i]) \subseteq paths

LEMMA WalkSuits ==
  ASSUME NEW schema \in {Schema, NewSchema}, NEW ch, NEW s, Walk(schema, ch, s)
  PROVE  /\ Suits(schema, ch, s) /\ Suits(schema, ch, Tail(s)) /\ Chain(schema, ch)
         /\ s \in Seq(Tasks) /\ s # <<>> /\ Tail(s) \in Seq(Tasks) /\ Head(s) = s[1] /\ 1 \in 1 .. Len(s)
         /\ Head(s) \in Tasks /\ Fits(schema, ch, Head(s))
<1>1. Chain(schema, ch) /\ s \in Seq(Tasks) /\ s # <<>> /\ \A i \in 1 .. Len(s) : Fits(schema, ch, s[i])
  BY DEF Walk
<1>2. Tail(s) \in Seq(Tasks) /\ \A i \in 1 .. Len(Tail(s)) : Fits(schema, ch, Tail(s)[i])
  BY WalkHead
<1>3. Head(s) = s[1] /\ 1 \in 1 .. Len(s) /\ Head(s) \in Tasks
  BY <1>1
<1> QED BY <1>1, <1>2, <1>3 DEF Suits

(* The item that a task names is not one that was saved or is open.        *)
LEMMA PendingNew ==
  ASSUME NEW paths, NEW D, NEW ch, NEW s, Walk(Schema, ch, s), Queued(paths, D, ch, s),
         NEW r \in Pending(s)
  PROVE  r \notin D /\ r \notin Open(ch) /\ ~Before(r, r)
<1>1. Suits(Schema, ch, s) /\ Chain(Schema, ch)
  BY WalkSuits
<1>2. /\ r \in Seq(Steps) /\ r # <<>> /\ Front(r) \in Open(ch)
      /\ CompOf(Front(r)).desc \in DOMAIN Schema
      /\ CompOf(r) \in Parts(Schema, Front(r)) /\ \E k \in Nat : r = Below(Front(r), CompOf(r), k)
  BY <1>1, PendingIs
<1>3. Front(r) \in Seq(Steps)
  BY <1>1, <1>2, OpenIs
<1>4. ~Before(r, r)
  <2>1. PICK k \in Nat : r = Below(Front(r), CompOf(r), k)
    BY <1>2
  <2> DEFINE p == Front(r)
             c == CompOf(r)
  <2> HIDE DEF p, c
  <2>2. p \in Seq(Steps) /\ CompOf(p).desc \in DOMAIN Schema /\ c \in Parts(Schema, p) /\ r = Below(p, c, k)
    BY <1>2, <1>3, <2>1 DEF p, c
  <2>3. ~(Before(Below(p, c, k), Below(p, c, k)) /\ Before(Below(p, c, k), Below(p, c, k)))
    BY <2>2, BeforeOne
  <2> QED BY <2>2, <2>3
<1> QED BY <1>2, <1>4 DEF Queued

(* A task is replaced by others for the same items.                        *)
LEMMA QueuedReplaces ==
  ASSUME NEW paths \in Configs, NEW D, NEW ch, NEW s, Walk(Schema, ch, s), Queued(paths, D, ch, s),
         NEW new \in Seq(Tasks), Pending(new) \subseteq KidsOf(Head(s)), Sorted(new),
         \A q \in Kept(paths) : q \in KidsOf(Head(s)) => q \in Pending(new),
         \A i \in 1 .. Len(new) : new[i].do = "item" =>
           new[i].comp.name \notin Volatile /\ KidsOf(new[i]) \subseteq paths
  PROVE  Queued(paths, D, ch, new \o Tail(s))
<1> DEFINE t == Head(s)
           u == Tail(s)
           v == new \o u
<1>1. s \in Seq(Tasks) /\ s # <<>> /\ u \in Seq(Tasks) /\ Head(s) = s[1]
  BY WalkSuits
<1>2. /\ Pending(s) = KidsOf(t) \cup Pending(u)
      /\ Sorted(s) => /\ Sorted(u)
                      /\ \A q \in KidsOf(t), r \in Pending(u) : Front(q) = Front(r) => Before(q, r)
  BY <1>1, PendingHead
<1>3. /\ Pending(v) = Pending(new) \cup Pending(u)
      /\ Sorted(new) /\ Sorted(u)
           /\ (\A q \in Pending(new), r \in Pending(u) : Front(q) = Front(r) => Before(q, r))
         => Sorted(v)
  BY <1>1, PendingJoin
<1>4. \A i \in 1 .. Len(v) : v[i].do = "item" =>
        v[i].comp.name \notin Volatile /\ KidsOf(v[i]) \subseteq paths
  <2> TAKE i \in 1 .. Len(v)
  <2>1. /\ Len(v) = Len(new) + Len(u) /\ Len(new) \in Nat /\ Len(u) \in Nat
        /\ v[i] = IF i <= Len(new) THEN new[i] ELSE u[i - Len(new)]
    BY <1>1, JoinedIs
  <2>2. CASE i <= Len(new)
    BY <2>1, <2>2
  <2>3. CASE ~(i <= Len(new))
    <3> DEFINE j == i - Len(new)
    <3>1. j \in 1 .. Len(u) /\ u[j] = s[j + 1] /\ j + 1 \in 1 .. Len(s)
      BY <1>1, <2>1, <2>3
    <3>2. v[i] = s[j + 1]
      BY <2>1, <2>3, <3>1
    <3> HIDE DEF v, j
    <3> QED BY <3>1, <3>2 DEF Queued
  <2> QED BY <2>2, <2>3
<1> HIDE DEF t, u, v
<1>5. Sorted(v)
  BY <1>2, <1>3 DEF Queued, t
<1>6. Pending(v) \subseteq Pending(s) /\ \A q \in Kept(paths) : q \in Pending(s) => q \in Pending(v)
  BY <1>2, <1>3 DEF t
<1>7. Queued(paths, D, ch, v)
  BY <1>4, <1>5, <1>6 DEF Queued
<1> QED BY <1>7 DEF u, v

LEMMA SaveItemIs ==
  ASSUME NEW paths \in Configs, NEW p, NEW c, NEW m \in Nat,
         m = Cardinality(Present(paths, p, c)), NEW k \in 1 .. m
  PROVE  LET t == SaveItems(paths, c, p)[k]
         IN  /\ t = Task("item", c, p, k - 1) /\ k - 1 \in Nat /\ t.do = "item" /\ t.comp = c
             /\ KidsOf(t) = {Below(p, c, k - 1)}
<1> DEFINE t == SaveItems(paths, c, p)[k]
<1>1. t = Task("item", c, p, k - 1)
  BY DEF SaveItems
<1> HIDE DEF t
<1>2. t.do = "item" /\ t.comp = c /\ t.path = p /\ t.idx = k - 1 /\ k - 1 \in Nat
  BY <1>1 DEF Task
<1>3. KidsOf(t) = {Below(p, c, k - 1)}
  BY <1>2 DEF KidsOf
<1> QED BY <1>1, <1>2, <1>3 DEF t

LEMMA SaveItemsAre ==
  ASSUME NEW ch, Chain(Schema, ch), NEW p, p = ch[Len(ch)], NEW c \in Parts(Schema, p),
         NEW paths \in Configs
  PROVE  LET m   == Cardinality(Present(paths, p, c))
             new == SaveItems(paths, c, p)
         IN  Flat(Schema, ch, new) /\ m \in 0 .. c.max /\ m \in Nat /\ Len(new) = m
<1> DEFINE m   == Cardinality(Present(paths, p, c))
           new == SaveItems(paths, c, p)
<1>1. /\ p \in Seq(Steps) /\ CompOf(p).desc \in DOMAIN Schema
  BY ChainIs
<1>2. c \in Known /\ c.max \in Nat \ {0}
  BY <1>1, PartsAre DEF Parts
<1>3. m \in 0 .. c.max /\ m \in Nat
  BY <1>2, PresentIs
<1>4. new = [k \in 1 .. m |-> Task("item", c, p, k - 1)]
  BY DEF SaveItems
<1> HIDE DEF new, m
<1>5. ASSUME NEW k \in 1 .. m
      PROVE  LET x == Task("item", c, p, k - 1)
             IN  /\ x \in Tasks /\ x.do # "OBJECT" /\ LevelOf(x) = Len(ch) /\ Fits(Schema, ch, x)
                 /\ x.do = "item" /\ x.comp = c /\ x.path = p /\ x.idx = k - 1 /\ k - 1 \in Nat
  <2> DEFINE i == k - 1
  <2>1. i \in 0 .. c.max - 1 /\ i \in Nat
    BY <1>2, <1>3
  <2> HIDE DEF i
  <2>2. LET x == Task("item", c, p, i)
        IN  x \in Tasks /\ x.do # "OBJECT" /\ LevelOf(x) = Len(ch) /\ Fits(Schema, ch, x)
    BY <2>1, FitsTask
  <2>3. LET x == Task("item", c, p, i)
        IN  x.do = "item" /\ x.comp = c /\ x.path = p /\ x.idx = i
    BY DEF Task
  <2> QED BY <2>1, <2>2, <2>3 DEF i
<1>6. new \in Seq(Tasks) /\ Len(new) = m /\ \A k \in 1 .. m : new[k] = Task("item", c, p, k - 1)
  <2>1. \A k \in 1 .. m : Task("item", c, p, k - 1) \in Tasks
    BY <1>5
  <2> QED BY <1>3, <1>4, <2>1
<1>7. Flat(Schema, ch, new)
  BY <1>5, <1>6 DEF Flat
<1> QED BY <1>3, <1>6, <1>7 DEF new, m

(* Aggregate::save *)
LEMMA QueuedAggr ==
  ASSUME NEW paths \in Configs, NEW D, NEW ch, NEW s, Walk(Schema, ch, s),
         Ordered(paths, D, ch), Queued(paths, D, ch, s), Head(s).do = "aggr"
  PROVE  LET t   == Head(s)
             new == IF Skipped(paths, t.comp, t.path) THEN <<>> ELSE SaveItems(paths, t.comp, t.path)
         IN  Walk(Schema, ch, new \o Tail(s)) /\ Queued(paths, D, ch, new \o Tail(s))
<1> DEFINE t   == Head(s)
           c   == t.comp
           p   == ch[Len(ch)]
           m   == Cardinality(Present(paths, p, c))
           all == SaveItems(paths, c, p)
           new == IF Skipped(paths, c, p) THEN <<>> ELSE all
<1>1. /\ t.path = p /\ c \in Parts(Schema, p) /\ Chain(Schema, ch) /\ p \in Seq(Steps)
      /\ CompOf(p).desc \in DOMAIN Schema
  BY WalkHead DEF Walk
<1>2. c \in Known /\ c # Base
  BY <1>1, PartsAre DEF Parts
<1>3. /\ Flat(Schema, ch, all) /\ m \in 0 .. c.max /\ m \in Nat /\ Len(all) = m
  BY <1>1, SaveItemsAre
<1>10. ASSUME NEW k \in 1 .. m
       PROVE  /\ k - 1 \in Nat /\ all[k].do = "item" /\ all[k].comp = c
              /\ KidsOf(all[k]) = {Below(p, c, k - 1)}
  <2>1. m = Cardinality(Present(paths, p, c)) /\ m \in Nat /\ k \in 1 .. m
    BY <1>3
  <2> HIDE DEF m, c, p
  <2>2. LET x == SaveItems(paths, c, p)[k]
        IN  /\ x = Task("item", c, p, k - 1) /\ k - 1 \in Nat /\ x.do = "item" /\ x.comp = c
            /\ KidsOf(x) = {Below(p, c, k - 1)}
    BY ONLY <2>1, paths \in Configs, SaveItemIs
  <2> QED BY <2>2
<1>4. p \in paths /\ p \in Kept(paths)
  <2>1. Len(ch) \in 1 .. Len(ch)
    BY <1>1, ChainIs
  <2>2. p \in Kept(paths)
    BY <2>1 DEF Ordered, Open
  <2> QED BY <2>2 DEF Kept
<1>5. Present(paths, p, c) = 0 .. m - 1
  BY <1>1, <1>4, ConfigAssumption
<1>6. KidsOf(t) = {Below(p, c, k) : k \in Nat}
  <2> HIDE DEF p, m, all
  <2> QED BY <1>1 DEF KidsOf
<1>7. ASSUME NEW q \in Kept(paths), q \in KidsOf(t)
      PROVE  c.name \notin Volatile /\ \E k \in Present(paths, p, c) : q = Below(p, c, k) /\ HasContent(paths, q)
  <2>1. PICK k \in Nat : q = Below(p, c, k)
    BY <1>6, <1>7
  <2>2. q # <<>> /\ Front(q) = p /\ CompOf(q) = c
    BY <1>1, <1>2, <2>1, BelowIs
  <2>3. PICK e \in Parts(Schema, p) : \E i \in Nat :
                  /\ e.name \notin Volatile /\ CompOf(q) = e
                  /\ i \in Present(paths, p, e) /\ q = Below(p, e, i)
    BY <2>2, KeptPart
  <2>4. HasContent(paths, q)
    BY KeptIs
  <2> HIDE DEF c, p
  <2> QED BY <2>2, <2>3, <2>4
<1> HIDE DEF all, c, p, m, t
<1>8. CASE Skipped(paths, c, p)
  <2>1. new = <<>>
    BY <1>8
  <2>2. Flat(Schema, ch, new)
    <3> HIDE DEF new
    <3> QED BY <2>1, NoTask DEF Flat
  <2>3. Pending(new) = {} /\ Sorted(new) /\ Len(new) = 0
    BY <2>1, NoTask DEF Pending, Sorted
  <2>4. ASSUME NEW q \in Kept(paths), q \in KidsOf(t) PROVE FALSE
    BY <1>7, <1>8, <2>4 DEF Skipped
  <2>5. new \in Seq(Tasks)
    BY <2>1, NoTask
  <2> HIDE DEF new
  <2>8. Pending(new) \subseteq KidsOf(t) /\ \A i \in 1 .. Len(new) : FALSE
    BY <2>3
  <2>6. Queued(paths, D, ch, new \o Tail(s))
    BY <2>3, <2>4, <2>5, <2>8, QueuedReplaces DEF t
  <2>7. Walk(Schema, ch, new \o Tail(s))
    BY <2>2, WalkReplaces
  <2> QED BY <1>1, <2>6, <2>7 DEF t, c, p, all, new
<1>9. CASE ~Skipped(paths, c, p)
  <2>1. new = all
    BY <1>9
  <2>2. c.name \notin Volatile
    BY <1>9 DEF Skipped
  <2> HIDE DEF new
  <2>3. Pending(new) = {Below(p, c, k) : k \in 0 .. m - 1}
    <3>1. \A k \in 1 .. m : k - 1 \in 0 .. m - 1
      BY <1>3
    <3>2. \A k \in 0 .. m - 1 : k + 1 \in 1 .. m /\ (k + 1) - 1 = k
      BY <1>3
    <3>3. Pending(new) = UNION {KidsOf(new[k]) : k \in 1 .. m}
      BY <1>3, <2>1 DEF Pending
    <3>4. \A k \in 1 .. m : KidsOf(new[k]) = {Below(p, c, k - 1)}
      BY <1>10, <2>1
    <3>5. \A k \in 0 .. m - 1 : Below(p, c, k) \in KidsOf(new[k + 1])
      BY <3>2, <3>4
    <3>6. \A k \in 0 .. m - 1 : Below(p, c, k) \in Pending(new)
      BY <3>2, <3>3, <3>5
    <3>7. \A r \in Pending(new) : \E k \in 0 .. m - 1 : r = Below(p, c, k)
      BY <3>1, <3>3, <3>4
    <3> QED BY <3>6, <3>7
  <2>4. Pending(new) \subseteq KidsOf(t)
    <3>1. \A k \in 0 .. m - 1 : k \in Nat
      BY <1>3
    <3> QED BY <1>6, <2>3, <3>1
  <2>5. Sorted(new)
    <3> SUFFICES ASSUME NEW i \in 1 .. m, NEW j \in 1 .. m, i < j,
                        NEW q \in KidsOf(new[i]), NEW r \in KidsOf(new[j])
                 PROVE  Before(q, r)
      BY <1>3, <2>1 DEF Sorted
    <3> DEFINE a == i - 1
               b == j - 1
    <3>1. q = Below(p, c, a) /\ r = Below(p, c, b) /\ a \in Nat /\ b \in Nat
      BY <1>10, <2>1
    <3>2. a < b
      BY <1>3
    <3> HIDE DEF a, b
    <3> QED BY <1>1, <3>1, <3>2, BeforeOne
  <2>6. ASSUME NEW q \in Kept(paths), q \in KidsOf(t) PROVE q \in Pending(new)
    BY <1>5, <1>7, <2>3, <2>6
  <2>7. ASSUME NEW i \in 1 .. Len(new), new[i].do = "item"
        PROVE  new[i].comp.name \notin Volatile /\ KidsOf(new[i]) \subseteq paths
    <3>1. i - 1 \in 0 .. m - 1 /\ i \in 1 .. m
      BY <1>3, <2>1
    <3>2. Below(p, c, i - 1) \in paths
      BY <1>5, <3>1 DEF Present
    <3> QED BY <1>10, <2>1, <2>2, <3>1, <3>2
  <2>8. new \in Seq(Tasks)
    BY <1>3, <2>1 DEF Flat
  <2>9. Queued(paths, D, ch, new \o Tail(s))
    BY <2>4, <2>5, <2>6, <2>7, <2>8, QueuedReplaces DEF t
  <2>10. Walk(Schema, ch, new \o Tail(s))
    BY <1>3, <2>1, WalkReplaces DEF t
  <2> QED BY <1>1, <1>9, <2>1, <2>9, <2>10 DEF t, c, p, all
<1> QED BY <1>8, <1>9

(* The item that is next. *)
LEMMA ItemHead ==
  ASSUME NEW schema \in {Schema, NewSchema}, NEW ch, NEW s, Walk(schema, ch, s), Head(s).do = "item"
  PROVE  LET t == Head(s)
             q == PathOf(t)
             p == ch[Len(ch)]
         IN  /\ q = Below(p, t.comp, t.idx) /\ KidsOf(t) = {q} /\ q \in Pending(s)
             /\ q \in Seq(Steps) /\ q # <<>> /\ Front(q) = p /\ CompOf(q) = t.comp /\ Len(q) = Len(ch)
             /\ Last(q) = <<t.comp.name, t.idx>>
             /\ t.path = p /\ p \in Seq(Steps) /\ CompOf(p).desc \in DOMAIN schema /\ p \in Open(ch)
             /\ t.comp \in Parts(schema, p) /\ t.comp \in Known /\ t.comp # Base
             /\ t.idx \in Nat /\ t.idx \in 0 .. t.comp.max - 1 /\ t.comp.max \in Nat \ {0}
             /\ t.comp.desc \in DOMAIN schema \cup {Simple}
<1> DEFINE t == Head(s)
           p == ch[Len(ch)]
           q == Below(p, t.comp, t.idx)
<1>1. /\ t.path = p /\ t.comp \in Parts(schema, p) /\ p \in Seq(Steps)
      /\ CompOf(p).desc \in DOMAIN schema /\ t.comp # Base
      /\ t.comp.max \in Nat \ {0} /\ t.idx \in 0 .. t.comp.max - 1
      /\ t.comp.desc \in DOMAIN schema \cup {Simple}
  BY WalkHead
<1>2. t.comp \in Known /\ t.idx \in Nat
  BY <1>1, PartsAre DEF Parts
<1>3. /\ s \in Seq(Tasks) /\ s # <<>> /\ Chain(schema, ch)
  BY WalkSuits
<1>4. Len(p) = Len(ch) - 1 /\ p \in Open(ch) /\ Len(ch) \in Nat
  <2>1. /\ Len(ch) \in 1 .. Len(ch) /\ Len(ch) \in Nat
        /\ \A j \in 1 .. Len(ch) : Len(ch[j]) = j - 1
    BY <1>3, ChainIs
  <2> QED BY <2>1 DEF Open
<1> HIDE DEF p
<1>5. PathOf(t) = q
  BY <1>1 DEF PathOf
<1>6. KidsOf(t) = {q}
  <2> HIDE DEF t
  <2> QED BY <1>1 DEF KidsOf, t
<1>7. q \in Pending(s)
  BY <1>3, <1>6, PendingHead
<1> HIDE DEF t
<1>8. /\ q \in Seq(Steps) /\ Len(q) = Len(p) + 1 /\ q # <<>> /\ Last(q) = <<t.comp.name, t.idx>>
      /\ Front(q) = p /\ CompOf(q) = t.comp
  BY <1>1, <1>2, BelowIs
<1>9. Len(q) = Len(ch)
  BY <1>4, <1>8
<1> HIDE DEF q
<1>10. /\ PathOf(t) = q /\ q = Below(p, t.comp, t.idx)
  BY <1>5 DEF q
<1> QED BY <1>1, <1>2, <1>4, <1>6, <1>7, <1>8, <1>9, <1>10 DEF t, p

(* Composite_descriptor::save of an item with nothing in it.               *)
LEMMA QueuedDrop ==
  ASSUME NEW paths \in Configs, NEW D, NEW ch, NEW s, Walk(Schema, ch, s),
         Queued(paths, D, ch, s), Head(s).do = "item",
         PathOf(Head(s)) \notin Kept(paths)
  PROVE  Walk(Schema, ch, Tail(s)) /\ Queued(paths, D, ch, Tail(s))
<1>1. KidsOf(Head(s)) = {PathOf(Head(s))}
  BY ItemHead
<1> DEFINE new == <<>>
<1>2. Pending(new) = {} /\ Sorted(new) /\ Len(new) = 0 /\ new \in Seq(Tasks) /\ new \o Tail(s) = Tail(s)
  BY WalkSuits, NoTask DEF Pending, Sorted
<1> HIDE DEF new
<1>3. Pending(new) \subseteq KidsOf(Head(s)) /\ \A i \in 1 .. Len(new) : FALSE
  BY <1>2
<1>4. Queued(paths, D, ch, new \o Tail(s))
  BY <1>1, <1>2, <1>3, QueuedReplaces
<1>5. Walk(Schema, ch, Tail(s))
  BY WalkDone
<1> QED BY <1>2, <1>4, <1>5

LEMMA ItemKept ==
  ASSUME NEW paths \in Configs, NEW D, NEW ch, NEW s, Walk(Schema, ch, s), Ordered(paths, D, ch),
         Queued(paths, D, ch, s), Head(s).do = "item"
  PROVE  LET q == PathOf(Head(s))
         IN  /\ q \in paths /\ Head(s).comp.name \notin Volatile
             /\ Head(s).comp.desc = Simple \/ HasContent(paths, q) => q \in Kept(paths)
             /\ q \in Kept(paths) => HasContent(paths, q)
<1> DEFINE t == Head(s)
           q == PathOf(t)
           p == ch[Len(ch)]
           c == t.comp
<1>1. /\ KidsOf(t) = {q} /\ q = Below(p, c, t.idx)
      /\ q \in Seq(Steps) /\ q # <<>> /\ Last(q) = <<c.name, t.idx>>
      /\ p \in Open(ch) /\ CompOf(p).desc \in DOMAIN Schema /\ c \in Parts(Schema, p)
      /\ c \in Known /\ c # Base /\ t.idx \in Nat
  BY ItemHead
<1>2. q \in paths /\ c.name \notin Volatile
  <2>1. Head(s) = s[1] /\ 1 \in 1 .. Len(s)
    BY WalkSuits
  <2>2. c.name \notin Volatile /\ KidsOf(t) \subseteq paths
    BY <2>1 DEF Queued
  <2> QED BY <1>1, <2>2
<1>3. p \in Kept(paths)
  BY <1>1 DEF Ordered
<1>4. ASSUME c.desc = Simple PROVE HasContent(paths, q)
  <2>1. c.name \in SimpleNames \ Volatile
    <3>1. c \in All(Schema) \cup All(NewSchema)
      BY <1>1 DEF Known
    <3> QED BY <1>2, <1>4, <3>1 DEF SimpleNames
  <2>2. Last(q)[1] = c.name
    BY <1>1
  <2>3. IsPrefix(q, q)
    BY <1>1, PrefixIs
  <2> QED BY <1>1, <1>2, <2>1, <2>2, <2>3 DEF HasContent
<1>5. ASSUME HasContent(paths, q) PROVE q \in Kept(paths)
  <2> DEFINE k == t.idx
  <2>1. k \in Nat /\ q = Below(p, c, k)
    BY <1>1
  <2> HIDE DEF c, p, k, q
  <2> QED BY <1>1, <1>2, <1>3, <1>5, <2>1, KeptBelow
<1>6. q \in Kept(paths) => HasContent(paths, q)
  BY DEF Kept
<1> QED BY <1>2, <1>4, <1>5, <1>6

(* Simple_descriptor::save: the item is saved. *)
LEMMA OrderSimple ==
  ASSUME NEW paths \in Configs, NEW D, NEW ch, NEW s, Walk(Schema, ch, s), Ordered(paths, D, ch),
         Queued(paths, D, ch, s), Head(s).do = "item", Head(s).comp.desc = Simple
  PROVE  LET E == D \cup {PathOf(Head(s))}
         IN  /\ Walk(Schema, ch, Tail(s)) /\ Ordered(paths, E, ch) /\ Queued(paths, E, ch, Tail(s))
<1> DEFINE t == Head(s)
           q == PathOf(t)
           p == ch[Len(ch)]
           E == D \cup {q}
           u == Tail(s)
           K == Kept(paths)
<1>1. /\ KidsOf(t) = {q} /\ q \in Pending(s)
      /\ q \in Seq(Steps) /\ q # <<>> /\ Front(q) = p /\ p \in Open(ch)
      /\ CompOf(q) = t.comp
  BY ItemHead
<1>2. q \in K
  BY ItemKept
<1>3. q \notin D /\ q \notin Open(ch) /\ ~Before(q, q)
  BY <1>1, PendingNew
<1>4. /\ Pending(s) = {q} \cup Pending(u) /\ Sorted(u)
      /\ \A r \in Pending(u) : Front(q) = Front(r) => Before(q, r)
  <2>1. s \in Seq(Tasks) /\ s # <<>> /\ Sorted(s)
    BY WalkSuits DEF Queued
  <2> HIDE DEF q
  <2> QED BY <1>1, <2>1, PendingHead
<1>5. Walk(Schema, ch, u)
  BY WalkDone
<1>6. ASSUME NEW r \in K, r # <<>>, Front(r) = q PROVE FALSE
  <2>1. CompOf(q).desc \in DOMAIN Schema
    BY <1>6, KeptPart
  <2> QED BY <1>1, <2>1, SchemaAssumption
<1>7. ASSUME NEW r \in Open(ch), r # <<>> PROVE Front(q) # Front(r)
  <2>1. Chain(Schema, ch)
    BY WalkSuits
  <2> QED BY <1>1, <1>7, <2>1, OpenIs
<1>8. \A i \in 1 .. Len(u) : u[i].do = "item" => u[i].comp.name \notin Volatile /\ KidsOf(u[i]) \subseteq paths
  <2>1. s \in Seq(Tasks) /\ s # <<>>
    BY WalkSuits
  <2>2. \A i \in 1 .. Len(u) : i + 1 \in 1 .. Len(s) /\ u[i] = s[i + 1]
    BY <2>1
  <2> QED BY <2>2 DEF Queued
<1> HIDE DEF q, p, u, t
<1>9. Ordered(paths, E, ch)
  BY <1>1, <1>2, <1>3, <1>6, <1>7 DEF Ordered
<1>10. Queued(paths, E, ch, u)
  BY <1>1, <1>2, <1>4, <1>8 DEF Queued
<1> QED BY <1>5, <1>9, <1>10 DEF q, u, t

(* The components of an item, which the walk does next when it is opened.  *)
Opened(schema, q, o) == Components(schema, CompOf(q), q) \o <<o>>

LEMMA PartIs ==
  ASSUME NEW schema \in {Schema, NewSchema}, NEW ch, Chain(schema, ch), NEW q, q = ch[Len(ch)],
         NEW o \in Tasks, o.do = "OBJECT", NEW d, d = schema[CompOf(q).desc],
         NEW new, new = Opened(schema, q, o)
  PROVE      /\ q \in Seq(Steps) /\ d \in Seq(All(schema)) /\ Len(d) \in Nat /\ CompOf(q).desc \in DOMAIN schema
             /\ \A i \in 1 .. Len(d) : d[i] \in Parts(schema, q) /\ d[i] \in Known
             /\ new \in Seq(Tasks) /\ Len(new) = Len(d) + 1
             /\ \A i \in 1 .. Len(d) : new[i] = Task("aggr", d[i], q, 0)
             /\ new[Len(d) + 1] = o
<1> DEFINE a == Components(schema, CompOf(q), q)
           l == <<o>>
<1>1. q \in Seq(Steps) /\ CompOf(q).desc \in DOMAIN schema
  BY LastOpen, OpenIs
<1>2. d \in Seq(All(schema)) /\ Len(d) \in Nat
      /\ \A i \in 1 .. Len(d) : d[i] \in Parts(schema, q) /\ d[i] \in Known
  <2>1. /\ d \in Seq(All(schema)) /\ Len(d) \in Nat
        /\ \A i \in 1 .. Len(d) : d[i] \in ToSet(d)
        /\ ToSet(d) \subseteq All(schema) /\ All(schema) \subseteq Known
    BY <1>1, PartsAre
  <2> QED BY <2>1 DEF Parts
<1>3. /\ a \in Seq(Tasks) /\ Len(a) = Len(d) /\ \A i \in 1 .. Len(d) : a[i] = Task("aggr", d[i], q, 0)
  <2> DEFINE c == CompOf(q)
  <2>1. c = CompOf(ch[Len(ch)])
    OBVIOUS
  <2> HIDE DEF c
  <2>2. LET r == ch[Len(ch)]
            n == Components(schema, c, r)
        IN  /\ Flat(schema, ch, n) /\ Len(n) = Len(schema[c.desc])
            /\ \A i \in 1 .. Len(schema[c.desc]) : n[i] = Task("aggr", schema[c.desc][i], r, 0)
    BY ONLY schema \in {Schema, NewSchema}, Chain(schema, ch), <2>1, ComponentsAre
  <2> QED BY <2>2 DEF Flat, c
<1>4. l \in Seq(Tasks) /\ Len(l) = 1 /\ l[1] = o
  BY OneTask
<1>9. new = a \o l
  BY DEF Opened
<1> HIDE DEF a, l
<1>5. /\ new \in Seq(Tasks) /\ Len(new) = Len(d) + 1
      /\ \A i \in 1 .. Len(a) + Len(l) : new[i] = IF i <= Len(a) THEN a[i] ELSE l[i - Len(a)]
  <2>1. a \in Seq(Tasks) /\ l \in Seq(Tasks)
    BY <1>3, <1>4
  <2>2. /\ new \in Seq(Tasks) /\ Len(new) = Len(a) + Len(l)
        /\ \A i \in 1 .. Len(a) + Len(l) : new[i] = IF i <= Len(a) THEN a[i] ELSE l[i - Len(a)]
    BY ONLY <2>1, <1>9, JoinedIs
  <2> QED BY <1>3, <1>4, <2>2
<1>6. ASSUME NEW i \in 1 .. Len(d) PROVE new[i] = Task("aggr", d[i], q, 0)
  <2>1. i \in 1 .. Len(a) + Len(l) /\ i <= Len(a) /\ a[i] = Task("aggr", d[i], q, 0)
    BY <1>2, <1>3, <1>4
  <2> QED BY <1>5, <2>1
<1>7. new[Len(d) + 1] = o
  <2>1. (Len(d) + 1) - Len(d) = 1 /\ ~(Len(d) + 1 <= Len(d)) /\ Len(d) + 1 \in 1 .. Len(d) + 1
    BY <1>2
  <2>2. new[Len(d) + 1] = l[(Len(d) + 1) - Len(a)]
    BY <1>3, <1>4, <1>5, <2>1
  <2> QED BY <1>3, <1>4, <2>1, <2>2
<1>8. /\ new \in Seq(Tasks) /\ Len(new) = Len(d) + 1
      /\ \A i \in 1 .. Len(d) : new[i] = Task("aggr", d[i], q, 0)
      /\ new[Len(d) + 1] = o
  BY <1>5, <1>6, <1>7
<1> QED BY <1>1, <1>2, <1>8

LEMMA PartsPending ==
  ASSUME NEW paths \in Configs, NEW ch, Chain(Schema, ch), NEW q, q = ch[Len(ch)],
         NEW o \in Tasks, o.do = "OBJECT", NEW new, new = Opened(Schema, q, o)
  PROVE      /\ new \in Seq(Tasks) /\ Sorted(new)
             /\ \A i \in 1 .. Len(new) : new[i].do # "item"
             /\ \A r \in Pending(new) : r # <<>> /\ Front(r) = q
             /\ \A r \in Kept(paths) : r # <<>> /\ Front(r) = q => r \in Pending(new)
<1> DEFINE d == Schema[CompOf(q).desc]
<1>1. /\ q \in Seq(Steps) /\ d \in Seq(All(Schema)) /\ Len(d) \in Nat /\ CompOf(q).desc \in DOMAIN Schema
      /\ \A i \in 1 .. Len(d) : d[i] \in Parts(Schema, q) /\ d[i] \in Known
      /\ new \in Seq(Tasks) /\ Len(new) = Len(d) + 1
      /\ \A i \in 1 .. Len(d) : new[i] = Task("aggr", d[i], q, 0)
      /\ new[Len(d) + 1] = o
  <2>1. d = Schema[CompOf(q).desc]
    OBVIOUS
  <2> HIDE DEF d
  <2> QED BY <2>1, PartIs
<1>2. ASSUME NEW i \in 1 .. Len(d)
      PROVE  new[i].do = "aggr" /\ KidsOf(new[i]) = {Below(q, d[i], k) : k \in Nat}
  <2> DEFINE x == new[i]
             e == d[i]
  <2>1. x = Task("aggr", e, q, 0)
    BY <1>1
  <2> HIDE DEF x, e
  <2>2. x.do = "aggr" /\ x.comp = e /\ x.path = q
    BY <2>1 DEF Task
  <2>3. KidsOf(x) = {Below(q, e, k) : k \in Nat}
    BY <2>2 DEF KidsOf
  <2> QED BY <2>2, <2>3 DEF x, e
<1>3. KidsOf(o) = {}
  BY DEF KidsOf
<1>4. \A i \in 1 .. Len(new) : i \in 1 .. Len(d) \/ i = Len(d) + 1
  BY <1>1
<1>5. \A i \in 1 .. Len(d) : i \in 1 .. Len(new)
  BY <1>1
<1>6. \A i \in 1 .. Len(new) : \A r \in KidsOf(new[i]) :
        i \in 1 .. Len(d) /\ \E k \in Nat : r = Below(q, d[i], k)
  <2> TAKE i \in 1 .. Len(new)
  <2> TAKE r \in KidsOf(new[i])
  <2>1. i \in 1 .. Len(d)
    BY <1>1, <1>3, <1>4
  <2> HIDE DEF d
  <2> QED BY <1>2, <2>1
<1>7. \A i \in 1 .. Len(new) : new[i].do # "item"
  BY <1>1, <1>2, <1>4
<1>8. \A r \in Pending(new) : r # <<>> /\ Front(r) = q
  <2> TAKE r \in Pending(new)
  <2>1. PICK i \in 1 .. Len(new) : r \in KidsOf(new[i])
    BY DEF Pending
  <2>2. i \in 1 .. Len(d)
    BY <1>6, <2>1
  <2>3. PICK k \in Nat : r = Below(q, d[i], k)
    BY <1>6, <2>1
  <2> DEFINE e == d[i]
  <2>4. r = Below(q, e, k) /\ e \in Known
    BY <1>1, <2>2, <2>3
  <2> HIDE DEF e
  <2> QED BY <1>1, <2>4, BelowIs
<1>9. \A r \in Kept(paths) : r # <<>> /\ Front(r) = q => r \in Pending(new)
  <2> SUFFICES ASSUME NEW r \in Kept(paths), r # <<>>, Front(r) = q PROVE r \in Pending(new)
    OBVIOUS
  <2>1. PICK c \in Parts(Schema, q) : \E k \in Nat : r = Below(q, c, k)
    BY KeptPart
  <2>2. PICK i \in DOMAIN d : c = d[i]
    BY <1>1, <2>1 DEF Parts, ToSet
  <2>3. i \in 1 .. Len(d) /\ i \in 1 .. Len(new)
    BY <1>1, <1>5
  <2> HIDE DEF d
  <2>4. r \in KidsOf(new[i])
    BY <1>2, <2>1, <2>2, <2>3
  <2> QED BY <2>3, <2>4 DEF Pending
<1>10. Sorted(new)
  <2> SUFFICES ASSUME NEW i \in 1 .. Len(new), NEW j \in 1 .. Len(new), i < j,
                      NEW x \in KidsOf(new[i]), NEW y \in KidsOf(new[j])
               PROVE  Before(x, y)
    BY DEF Sorted
  <2>1. i \in 1 .. Len(d) /\ j \in 1 .. Len(d)
    BY <1>6
  <2>2. PICK k \in Nat : x = Below(q, d[i], k)
    BY <1>6
  <2>3. PICK m \in Nat : y = Below(q, d[j], m)
    BY <1>6
  <2>4. i \in DOMAIN d /\ j \in DOMAIN d
    BY <1>1, <2>1
  <2>5. Before(Below(q, d[i], k), Below(q, d[j], m)) <=> i < j \/ (i = j /\ k < m)
    BY <1>1, <2>4, BeforeIs
  <2> HIDE DEF d
  <2> QED BY <2>2, <2>3, <2>5
<1> QED BY <1>1, <1>7, <1>8, <1>9, <1>10

(* Composite_descriptor::save: the item is opened.                         *)
LEMMA OrderOpens ==
  ASSUME NEW paths \in Configs, NEW D, NEW ch, NEW s, Walk(Schema, ch, s), Ordered(paths, D, ch),
         Queued(paths, D, ch, s), Head(s).do = "item", Head(s).comp.desc # Simple,
         PathOf(Head(s)) \in Kept(paths)
  PROVE  LET t  == Head(s)
             up == Append(ch, PathOf(t))
             v  == Components(Schema, t.comp, PathOf(t))
                     \o <<Task("OBJECT", t.comp, t.path, 0)>> \o Tail(s)
         IN  /\ Walk(Schema, up, v) /\ Ordered(paths, D, up) /\ Queued(paths, D, up, v)
             /\ Kin(D, PathOf(t)) = {}
<1> DEFINE t == Head(s)
           q == PathOf(t)
           p == ch[Len(ch)]
           K == Kept(paths)
           up == Append(ch, q)
           o == Task("OBJECT", t.comp, t.path, 0)
           new == Components(Schema, t.comp, q) \o <<o>>
           u == Tail(s)
           v == new \o u
<1>1. /\ KidsOf(t) = {q} /\ q \in Pending(s) /\ q = Below(p, t.comp, t.idx) /\ t.path = p
      /\ q \in Seq(Steps) /\ q # <<>> /\ Front(q) = p /\ p \in Open(ch) /\ p \in Seq(Steps)
      /\ CompOf(q) = t.comp /\ t.comp \in Parts(Schema, p) /\ t.comp.desc \in DOMAIN Schema
      /\ t.idx \in Nat /\ t.comp \in Known
  BY ItemHead
<1>2. q \notin D /\ q \notin Open(ch) /\ ~Before(q, q)
  BY <1>1, PendingNew
<1>3. /\ Pending(s) = {q} \cup Pending(u) /\ Sorted(u)
      /\ \A r \in Pending(u) : Front(q) = Front(r) => Before(q, r)
  <2>1. s \in Seq(Tasks) /\ s # <<>> /\ Sorted(s)
    BY WalkSuits DEF Queued
  <2> HIDE DEF q
  <2> QED BY <1>1, <2>1, PendingHead
<1>4. Walk(Schema, ch, u)
  BY WalkDone
<1>5. Walk(Schema, up, v)
  <2> DEFINE k == t.idx
             c == t.comp
  <2>1. c \in Parts(Schema, ch[Len(ch)]) /\ c.desc # Simple /\ k \in Nat /\ q = Below(ch[Len(ch)], c, k) /\ t.path = ch[Len(ch)]
    BY <1>1
  <2> HIDE DEF k, c, q, u
  <2>2. Walk(Schema, Append(ch, Below(ch[Len(ch)], c, k)),
             Components(Schema, c, Below(ch[Len(ch)], c, k)) \o <<Task("OBJECT", c, ch[Len(ch)], 0)>> \o u)
    BY <1>4, <2>1, WalkOpens
  <2> QED BY <2>1, <2>2 DEF c
<1>6. Chain(Schema, ch) /\ Chain(Schema, up) /\ ch \in Seq(Seq(Steps)) /\ Len(ch) \in Nat
  <2>1. Chain(Schema, ch) /\ Chain(Schema, up)
    BY <1>5, WalkSuits
  <2> QED BY <2>1, ChainIs
<1>7. Open(up) = Open(ch) \cup {q} /\ Len(up) = Len(ch) + 1 /\ up[Len(up)] = q
  <2>1. /\ Len(up) = Len(ch) + 1 /\ up[Len(ch) + 1] = q /\ \A j \in 1 .. Len(ch) : up[j] = ch[j]
    BY <1>6
  <2>2. \A j \in 1 .. Len(ch) + 1 : j \in 1 .. Len(ch) \/ j = Len(ch) + 1
    BY <1>6
  <2>3. (\A j \in 1 .. Len(ch) : j \in 1 .. Len(ch) + 1) /\ Len(ch) + 1 \in 1 .. Len(ch) + 1
    BY <1>6
  <2> HIDE DEF up, q
  <2> QED BY <2>1, <2>2, <2>3 DEF Open
<1>8. o \in Tasks /\ o.do = "OBJECT"
  <2> DEFINE c == t.comp
  <2>1. c \in Known /\ p \in Seq(Steps)
    BY <1>1
  <2> HIDE DEF c, p
  <2>2. Task("OBJECT", c, p, 0) \in Tasks /\ Task("OBJECT", c, p, 0).do = "OBJECT"
    BY <2>1, TaskIs
  <2> QED BY <1>1, <2>2 DEF c
<1>9. /\ new \in Seq(Tasks) /\ Sorted(new)
      /\ \A i \in 1 .. Len(new) : new[i].do # "item"
      /\ \A r \in Pending(new) : r # <<>> /\ Front(r) = q
      /\ \A r \in K : r # <<>> /\ Front(r) = q => r \in Pending(new)
  <2>1. q = up[Len(up)] /\ new = Opened(Schema, q, o)
    BY <1>1, <1>7 DEF Opened
  <2> HIDE DEF q, up, o, new
  <2> QED BY ONLY paths \in Configs, <1>6, <1>8, <2>1, PartsPending
<1>14. u \in Seq(Tasks) /\ \A r \in Pending(u) : Front(r) \in Open(ch)
  <2>1. Suits(Schema, ch, u) /\ u \in Seq(Tasks)
    BY WalkSuits
  <2> HIDE DEF u
  <2> QED BY <1>6, <2>1, PendingIs
<1>16. /\ Pending(v) = Pending(new) \cup Pending(u) /\ Sorted(v)
  <2>1. \A x \in Pending(new), y \in Pending(u) : Front(x) # Front(y)
    BY <1>2, <1>9, <1>14
  <2> HIDE DEF u, new
  <2>2. /\ Pending(new \o u) = Pending(new) \cup Pending(u)
        /\ Sorted(new) /\ Sorted(u)
              /\ (\A x \in Pending(new), y \in Pending(u) : Front(x) = Front(y) => Before(x, y))
            => Sorted(new \o u)
    BY <1>9, <1>14, PendingJoin
  <2> QED BY <1>3, <1>9, <2>1, <2>2 DEF u
<1>17. \A i \in 1 .. Len(v) : v[i].do = "item" => v[i].comp.name \notin Volatile /\ KidsOf(v[i]) \subseteq paths
  <2> DEFINE m == Len(new)
  <2>1. /\ m \in Nat /\ Len(u) \in Nat /\ Len(v) = m + Len(u)
        /\ \A i \in 1 .. m + Len(u) : v[i] = IF i <= m THEN new[i] ELSE u[i - m]
    <3> HIDE DEF new, u
    <3> QED BY <1>9, <1>14, JoinedIs
  <2>3. \A i \in 1 .. Len(u) : i + 1 \in 1 .. Len(s) /\ u[i] = s[i + 1]
    <3>1. s \in Seq(Tasks) /\ s # <<>>
      BY WalkSuits
    <3> QED BY <3>1
  <2> HIDE DEF new, u, v
  <2> TAKE i \in 1 .. Len(v)
  <2>4. CASE i <= m
    <3>1. i \in 1 .. Len(new) /\ v[i] = new[i]
      BY <2>1, <2>4
    <3> QED BY <1>9, <3>1
  <2>5. CASE ~(i <= m)
    <3>1. i - m \in 1 .. Len(u) /\ v[i] = u[i - m]
      BY <2>1, <2>5
    <3> DEFINE j == i - m
    <3>2. j \in 1 .. Len(u) /\ v[i] = s[j + 1] /\ j + 1 \in 1 .. Len(s)
      BY <2>3, <3>1
    <3> HIDE DEF j
    <3> QED BY <3>2 DEF Queued
  <2> QED BY <2>4, <2>5
<1>18. \A r \in D \cup Open(ch) : r # <<>> => Front(r) # q
  <2>1. ASSUME NEW r \in Open(ch), r # <<>> PROVE Front(r) # q
    BY <1>2, <1>6, <2>1, OpenIs
  <2>2. ASSUME NEW r \in D PROVE Front(r) # q
    BY <1>2 DEF Ordered
  <2> QED BY <2>1, <2>2
<1>19. Front(q) # q /\ \A r \in Open(ch) : r # <<>> => Front(r) # Front(q)
  <2>1. ASSUME NEW r \in Open(ch), r # <<>> PROVE Front(q) # Front(r)
    BY <1>1, <1>6, <2>1, OpenIs
  <2> QED BY <1>1, <1>2, <2>1
<1> HIDE DEF q, u, new, v, up, t, p, K
<1>20. Ordered(paths, D, up)
  BY <1>1, <1>2, <1>3, <1>7 DEF Ordered, Queued, K, q, t
<1>21. ASSUME NEW x \in D \cup Open(up), NEW r \in Pending(v), x # <<>>, Front(x) = Front(r)
       PROVE  Before(x, r)
  <2>1. CASE r \in Pending(new)
    BY <1>7, <1>9, <1>18, <1>19, <1>21, <2>1
  <2>2. CASE r \in Pending(u) /\ x = q
    BY <1>3, <1>21, <2>2
  <2>3. CASE r \in Pending(u) /\ x \in D \cup Open(ch)
    BY <1>3, <1>21, <2>3 DEF Queued
  <2> QED BY <1>7, <1>16, <2>1, <2>2, <2>3
<1>22. ASSUME NEW r \in K, r # <<>>, Front(r) \in Open(up)
       PROVE  r \in D \cup Open(up) \cup Pending(v)
  <2>1. CASE Front(r) = q
    BY <1>9, <1>16, <1>22, <2>1
  <2>2. CASE Front(r) \in Open(ch)
    BY <1>3, <1>7, <1>16, <1>22, <2>2 DEF Queued, K
  <2> QED BY <1>7, <1>22, <2>1, <2>2
<1>23. Queued(paths, D, up, v)
  BY <1>16, <1>17, <1>21, <1>22 DEF Queued, K
<1>24. Kin(D, q) = {}
  BY <1>18 DEF Kin
<1> QED BY <1>5, <1>20, <1>23, <1>24 DEF q, u, v, up, t, new, o

(* Of two items in the same item, one is saved before the other. *)
LEMMA KeptOrder ==
  ASSUME NEW paths \in Configs, NEW q \in Kept(paths), NEW r \in Kept(paths), q # <<>>, r # <<>>,
         Front(q) = Front(r)
  PROVE  /\ ~(Before(q, r) /\ Before(r, q)) /\ ~Before(q, q)
         /\ q # r => Before(q, r) \/ Before(r, q)
<1> DEFINE p == Front(q)
<1>1. PICK c \in Parts(Schema, p) : \E k \in Nat : q = Below(p, c, k)
  BY KeptPart
<1>2. PICK k \in Nat : q = Below(p, c, k)
  BY <1>1
<1>3. PICK e \in Parts(Schema, p) : \E m \in Nat : r = Below(p, e, m)
  BY KeptPart
<1>4. PICK m \in Nat : r = Below(p, e, m)
  BY <1>3
<1>5. p \in Seq(Steps) /\ CompOf(p).desc \in DOMAIN Schema
  BY KeptPart
<1> HIDE DEF p
<1>6. /\ ~(Before(Below(p, c, k), Below(p, e, m)) /\ Before(Below(p, e, m), Below(p, c, k)))
      /\ Below(p, c, k) # Below(p, e, m) =>
              Before(Below(p, c, k), Below(p, e, m)) \/ Before(Below(p, e, m), Below(p, c, k))
  BY <1>5, BeforeOne
<1>7. ~(Before(Below(p, c, k), Below(p, c, k)) /\ Before(Below(p, c, k), Below(p, c, k)))
  BY <1>5, BeforeOne
<1> QED BY <1>2, <1>4, <1>6, <1>7

(* What is in an item that is closed was saved.                            *)
LEMMA OrderInside ==
  ASSUME NEW paths \in Configs, NEW D, NEW ch, NEW s, Walk(Schema, ch, s), Ordered(paths, D, ch),
         Queued(paths, D, ch, s), Head(s).do = "OBJECT",
         NEW r \in Kept(paths), r # <<>>, Front(r) = ch[Len(ch)]
  PROVE  r \in D
<1>1. /\ s \in Seq(Tasks) /\ s # <<>> /\ Chain(Schema, ch) /\ Head(s) \in Tasks
  BY WalkSuits
<1>2. Len(ch) \in Nat \ {0} /\ ch[Len(ch)] \in Open(ch)
  BY <1>1, ChainIs DEF Open
<1>3. r \in D \cup Open(ch) \cup Pending(s)
  BY <1>2 DEF Queued
<1>4. r \notin Open(ch)
  BY <1>1, OpenIs
<1>5. ASSUME r \in Pending(s) PROVE FALSE
  <2> DEFINE u == Tail(s)
  <2>1. KidsOf(Head(s)) = {}
    BY DEF KidsOf
  <2>2. r \in Pending(u)
    BY <1>1, <1>5, <2>1, PendingHead
  <2>3. IF Len(ch) = 1 THEN u = <<>> ELSE Walk(Schema, Front(ch), u)
    BY WalkCloses
  <2>4. CASE Len(ch) = 1
    <3>1. Len(u) = 0
      BY <2>3, <2>4, NoTask
    <3> QED BY <2>2, <3>1 DEF Pending
  <2>5. CASE Len(ch) # 1
    <3>1. Suits(Schema, Front(ch), u) /\ Chain(Schema, Front(ch))
      BY <2>3, <2>5, WalkSuits
    <3>2. Front(r) \in Open(Front(ch))
      BY <2>2, <3>1, PendingIs
    <3>3. Len(Front(r)) \in 0 .. Len(Front(ch)) - 1 /\ Len(Front(ch)) = Len(ch) - 1
      BY <1>1, <2>5, <3>1, <3>2, OpenIs, ChainShrinks
    <3>4. Len(ch[Len(ch)]) = Len(ch) - 1
      BY <1>1, LastOpen
    <3> QED BY <1>2, <3>3, <3>4
  <2> QED BY <2>4, <2>5
<1> QED BY <1>3, <1>4, <1>5

(* TlvWriter::endWriteComposite, but for the outermost composite.          *)
LEMMA OrderCloses ==
  ASSUME NEW paths \in Configs, NEW D, NEW ch, NEW s, Walk(Schema, ch, s), Ordered(paths, D, ch),
         Queued(paths, D, ch, s), Head(s).do = "OBJECT", Len(ch) # 1
  PROVE  LET q  == ch[Len(ch)]
             E  == D \cup {q}
             up == Front(ch)
             u  == Tail(s)
         IN  /\ Walk(Schema, up, u) /\ Ordered(paths, E, up) /\ Queued(paths, E, up, u)
             /\ q # <<>> /\ q \in Seq(Steps) /\ q \in Kept(paths) /\ q \notin D /\ Front(q) = up[Len(up)]
             /\ Len(up) = Len(ch) - 1 /\ \A j \in 1 .. Len(ch) - 1 : up[j] = ch[j]
             /\ Open(ch) = Open(up) \cup {q}
             /\ \A r \in D : Front(r) = Front(q) => Before(r, q) /\ ~Before(q, r)
             /\ ~Before(q, q)
<1> DEFINE q  == ch[Len(ch)]
           E  == D \cup {q}
           up == Front(ch)
           u  == Tail(s)
           K  == Kept(paths)
<1>1. /\ s \in Seq(Tasks) /\ s # <<>> /\ Chain(Schema, ch) /\ Head(s) \in Tasks
  BY WalkSuits
<1>2. Walk(Schema, up, u)
  BY WalkCloses
<1>3. /\ Chain(Schema, up) /\ Len(up) = Len(ch) - 1 /\ \A j \in 1 .. Len(ch) - 1 : up[j] = ch[j]
  BY <1>1, ChainShrinks
<1>4. Len(ch) \in Nat \ {0} /\ q \in Open(ch) /\ q \in Seq(Steps) /\ Len(q) = Len(ch) - 1 /\ q # <<>>
  BY <1>1, LastOpen
<1>5. Open(ch) = Open(up) \cup {q}
  <2>1. \A j \in 1 .. Len(ch) : j \in 1 .. Len(ch) - 1 \/ j = Len(ch)
    BY <1>4
  <2>2. \A j \in 1 .. Len(ch) - 1 : j \in 1 .. Len(ch)
    BY <1>4
  <2>3. Open(up) = {ch[j] : j \in 1 .. Len(ch) - 1}
    <3> HIDE DEF up
    <3> QED BY <1>3 DEF Open
  <2>4. Open(ch) = {ch[j] : j \in 1 .. Len(ch) - 1} \cup {q}
    BY <1>4, <2>1, <2>2 DEF Open
  <2> QED BY <2>3, <2>4
<1>6. q \notin Open(up)
  <2> SUFFICES ASSUME q \in Open(up) PROVE FALSE
    OBVIOUS
  <2>1. Len(q) \in 0 .. Len(up) - 1
    BY <1>3, OpenIs
  <2> QED BY <1>3, <1>4, <2>1
<1>7. \A r \in K : r # <<>> /\ Front(r) = q => r \in D
  BY OrderInside
<1>8. Front(q) \in Open(ch) /\ Front(q) = ch[Len(ch) - 1] /\ Front(q) # q /\ Front(q) \in Open(up)
      /\ Front(q) = up[Len(up)]
  <2>1. Front(q) = ch[Len(q)] /\ Front(q) \in Open(ch) /\ Front(q) # q
    BY <1>1, <1>4, OpenIs
  <2> QED BY <1>3, <1>4, <1>5, <2>1
<1>9. \A r \in Open(up) : r # <<>> => Front(r) # Front(q)
  <2> SUFFICES ASSUME NEW r \in Open(up), r # <<>> PROVE Front(r) # Front(q)
    OBVIOUS
  <2>1. Len(r) \in 1 .. Len(up) - 1 /\ Front(r) = up[Len(r)] /\ Len(r) \in 1 .. Len(up)
    BY <1>3, OpenIs
  <2>2. \A j \in 1 .. Len(up) : Len(up[j]) = j - 1
    BY <1>3, ChainIs
  <2>3. Len(up) \in 1 .. Len(up)
    BY <1>3, ChainIs
  <2>4. Len(Front(r)) = Len(r) - 1 /\ Len(Front(q)) = Len(up) - 1
    BY <1>8, <2>1, <2>2, <2>3
  <2> QED BY <1>3, <1>4, <2>1, <2>4
<1>10. Pending(s) = Pending(u) /\ Sorted(u)
  <2>1. KidsOf(Head(s)) = {}
    BY DEF KidsOf
  <2>2. Sorted(s)
    BY DEF Queued
  <2> QED BY <1>1, <2>1, <2>2, PendingHead
<1>11. \A i \in 1 .. Len(u) : u[i].do = "item" => u[i].comp.name \notin Volatile /\ KidsOf(u[i]) \subseteq paths
  <2>1. \A i \in 1 .. Len(u) : i + 1 \in 1 .. Len(s) /\ u[i] = s[i + 1]
    BY <1>1
  <2> QED BY <2>1 DEF Queued
<1>12. q \in K /\ q \notin D
  BY <1>4 DEF Ordered
<1>13. \A r \in D : Front(r) = Front(q) => Before(r, q) /\ ~Before(q, r)
  <2> SUFFICES ASSUME NEW r \in D, Front(r) = Front(q) PROVE Before(r, q) /\ ~Before(q, r)
    OBVIOUS
  <2>1. Before(r, q) /\ r \in K /\ r # <<>>
    BY <1>4 DEF Ordered
  <2> HIDE DEF q
  <2> QED BY <1>4, <1>12, <2>1, KeptOrder
<1>14. ~Before(q, q)
  BY <1>4, <1>12, KeptOrder
<1> HIDE DEF q, up, u, K
<1>15. Ordered(paths, E, up)
  <2>1. \A x \in E, r \in K : r # <<>> /\ Front(r) = x => r \in E
    BY <1>7 DEF Ordered, K
  <2>2. E \subseteq K /\ Open(up) \subseteq K /\ Open(up) \cap E = {}
    BY <1>5, <1>6, <1>12 DEF Ordered, K
  <2>3. \A x \in E : x # <<>> /\ Front(x) \in E \cup Open(up)
    BY <1>4, <1>5, <1>8 DEF Ordered
  <2>4. \A x \in E, r \in Open(up) : r # <<>> /\ Front(x) = Front(r) => Before(x, r)
    BY <1>5, <1>9 DEF Ordered
  <2> QED BY <2>1, <2>2, <2>3, <2>4 DEF Ordered, K
<1>16. Queued(paths, E, up, u)
  <2>1. E \cup Open(up) = D \cup Open(ch) /\ Open(up) \subseteq Open(ch)
    BY <1>5
  <2> QED BY <1>10, <1>11, <2>1 DEF Queued, K
<1> QED BY <1>2, <1>3, <1>4, <1>5, <1>8, <1>12, <1>13, <1>14, <1>15, <1>16 DEF q, up, u, K

(* All of the configuration was saved.                                     *)
LEMMA OrderDone ==
  ASSUME NEW paths \in Configs, NEW D, NEW ch, NEW s, Walk(Schema, ch, s), Ordered(paths, D, ch),
         Queued(paths, D, ch, s), Head(s).do = "OBJECT", Len(ch) = 1
  PROVE  Tail(s) = <<>> /\ ch[Len(ch)] = <<>> /\ D \cup {<<>>} = Kept(paths) /\ <<>> \notin D
<1> DEFINE K == Kept(paths)
           E == D \cup {<<>>}
<1>1. /\ Chain(Schema, ch) /\ ch[1] = <<>> /\ Tail(s) = <<>> /\ <<>> \in Open(ch)
  <2>1. Chain(Schema, ch)
    BY WalkSuits
  <2>2. 1 \in 1 .. Len(ch) /\ ch[1] = <<>>
    BY <2>1, ChainIs
  <2>3. Tail(s) = <<>>
    BY WalkCloses
  <2> QED BY <2>1, <2>2, <2>3 DEF Open
<1>2. E \subseteq K /\ <<>> \notin D
  BY <1>1 DEF Ordered
<1>3. \A r \in K : r # <<>> /\ Front(r) = <<>> => r \in D
  BY <1>1, OrderInside
<1>4. \A r \in K : r # <<>> /\ Front(r) \in E => r \in E
  BY <1>3 DEF Ordered
<1> DEFINE P(n) == \A r \in K : Len(r) = n => r \in E
           T == {n \in Nat : P(n)}
<1>5. 0 \in T
  <2>1. \A r \in K : Len(r) = 0 => r = <<>>
    BY KeptIs
  <2> QED BY <2>1
<1>6. ASSUME NEW n \in T PROVE n + 1 \in T
  <2> SUFFICES ASSUME NEW r \in K, Len(r) = n + 1 PROVE r \in E
    OBVIOUS
  <2>1. r # <<>>
    OBVIOUS
  <2>2. Front(r) \in K /\ Len(r) = Len(Front(r)) + 1 /\ Len(Front(r)) \in Nat
    BY <2>1, KeptPart
  <2>3. Len(Front(r)) = n
    BY <2>2
  <2> QED BY <1>4, <2>1, <2>2, <2>3
<1>7. \A n \in Nat : n \in T
  <2>1. T \subseteq Nat
    OBVIOUS
  <2> HIDE DEF T
  <2> QED BY <1>5, <1>6, <2>1, Upwards
<1>8. K \subseteq E
  <2>1. \A r \in K : Len(r) \in Nat
    BY KeptIs
  <2> QED BY <1>7, <2>1
<1> QED BY <1>1, <1>2, <1>8

(* The first step of a save.                                               *)
LEMMA OrderStarts ==
  ASSUME NEW paths \in Configs, HasContent(paths, <<>>)
  PROVE  LET ch == <<<<>>>>
             s  == Components(Schema, Base, <<>>) \o <<Task("OBJECT", Base, <<>>, 0)>>
         IN  Walk(Schema, ch, s) /\ Ordered(paths, {}, ch) /\ Queued(paths, {}, ch, s)
<1> DEFINE ch == <<<<>>>>
           o  == Task("OBJECT", Base, <<>>, 0)
           s  == Components(Schema, Base, <<>>) \o <<o>>
           q  == <<>>
<1>1. Walk(Schema, ch, s)
  BY WalkStarts
<1>2. Chain(Schema, ch)
  <2> HIDE DEF ch, s
  <2> QED BY <1>1, WalkSuits
<1>3. Len(ch) = 1 /\ ch[Len(ch)] = q /\ Open(ch) = {q}
  <2>1. Len(ch) = 1 /\ ch[1] = q /\ \A i \in 1 .. 1 : i = 1
    OBVIOUS
  <2> HIDE DEF ch, q
  <2> QED BY <2>1 DEF Open
<1>4. o \in Tasks /\ o.do = "OBJECT"
  <2>1. q \in Seq(Steps) /\ Base \in Known
    BY BaseIs
  <2> HIDE DEF q
  <2>2. Task("OBJECT", Base, q, 0) \in Tasks /\ Task("OBJECT", Base, q, 0).do = "OBJECT"
    BY <2>1, TaskIs
  <2> QED BY <2>2 DEF q
<1>5. /\ s \in Seq(Tasks) /\ Sorted(s)
      /\ \A i \in 1 .. Len(s) : s[i].do # "item"
      /\ \A r \in Pending(s) : r # <<>> /\ Front(r) = q
      /\ \A r \in Kept(paths) : r # <<>> /\ Front(r) = q => r \in Pending(s)
  <2>1. CompOf(q) = Base
    BY BaseIs
  <2>2. s = Opened(Schema, q, o) /\ q = ch[Len(ch)]
    BY <1>3, <2>1 DEF Opened
  <2> HIDE DEF ch, q, o, s
  <2> QED BY ONLY paths \in Configs, <1>2, <1>4, <2>2, PartsPending
<1>6. q \in Kept(paths)
  <2>1. q \in paths /\ DOMAIN q = {}
    BY ConfigAssumption
  <2> QED BY <2>1 DEF Kept
<1> HIDE DEF ch, s, o
<1>7. Ordered(paths, {}, ch)
  BY <1>3, <1>6 DEF Ordered
<1>8. Queued(paths, {}, ch, s)
  BY <1>3, <1>5 DEF Queued
<1> QED BY <1>1, <1>7, <1>8 DEF ch, s, o

(* An item of a configuration, and the item that it is in.                 *)
LEMMA PathPart ==
  ASSUME NEW paths \in Configs, NEW q \in paths, q # <<>>
  PROVE  /\ q \in Seq(Steps) /\ Front(q) \in paths /\ Front(q) \in Seq(Steps)
         /\ CompOf(Front(q)).desc \in DOMAIN Schema /\ Len(q) = Len(Front(q)) + 1
         /\ CompOf(q) \in Known /\ CompOf(q) \in All(Schema) /\ Last(q)[1] = CompOf(q).name
<1>1. q \in Seq(Steps)
  BY ConfigAssumption
<1>2. PICK p \in paths : /\ CompOf(p).desc \in DOMAIN Schema
                         /\ \E c \in Parts(Schema, p) : \E k \in Present(paths, p, c) : q = Below(p, c, k)
  BY <1>1, ConfigAssumption
<1>3. PICK c \in Parts(Schema, p) : \E k \in Present(paths, p, c) : q = Below(p, c, k)
  BY <1>2
<1>4. PICK k \in Present(paths, p, c) : q = Below(p, c, k)
  BY <1>3
<1>5. p \in Seq(Steps) /\ c \in Known /\ c \in All(Schema) /\ c.max \in Nat \ {0}
  BY <1>1, <1>2, ConfigAssumption, PartsAre DEF Parts
<1>6. k \in Nat
  BY <1>5 DEF Present
<1>7. Front(q) = p /\ Last(q) = <<c.name, k>> /\ CompOf(q) = c /\ Len(q) = Len(p) + 1
  BY <1>4, <1>5, <1>6, BelowIs
<1>8. Last(q)[1] = c.name
  BY <1>7
<1> QED BY <1>1, <1>2, <1>5, <1>7, <1>8

(* The name of a composite is not that of a simple component.              *)
LEMMA CompositeName ==
  ASSUME NEW c \in Known, c.desc # Simple
  PROVE  c.name \notin SimpleNames
<1> SUFFICES ASSUME c.name \in SimpleNames PROVE FALSE
  OBVIOUS
<1>1. PICK x \in All(Schema) \cup All(NewSchema) : x.desc = Simple /\ x.name = c.name
  BY DEF SimpleNames
<1>2. x \in Known
  BY DEF Known
<1> QED BY <1>1, <1>2, NamesAssumption

(* Where every component that is not persistent is a simple one, something *)
(* is saved in every composite that is saved.                              *)
LEMMA KidKept ==
  ASSUME \A c \in Known : c.desc # Simple => c.name \notin Volatile,
         NEW paths \in Configs, NEW q \in Kept(paths), CompOf(q).desc \in DOMAIN Schema
  PROVE  \E r \in Kept(paths) : r # <<>> /\ Front(r) = q
<1>1. /\ q \in Seq(Steps) /\ HasContent(paths, q) /\ q \in paths
      /\ \A i \in 1 .. Len(q) : q[i][1] \notin Volatile
  BY KeptIs
<1>2. PICK p \in paths \ {<<>>} : Last(p)[1] \in SimpleNames \ Volatile /\ IsPrefix(q, p)
  BY <1>1 DEF HasContent
<1>3. p \in Seq(Steps) /\ p # <<>> /\ Len(p) \in Nat /\ Len(q) \in Nat
  BY <1>1, <1>2, ConfigAssumption
<1>4. Len(q) <= Len(p) /\ \A i \in 1 .. Len(q) : q[i] = p[i]
  BY <1>1, <1>2, <1>3, PrefixIs
<1>5. CompOf(q).desc # Simple
  BY SchemaAssumption
<1>6. Len(q) # Len(p)
  <2> SUFFICES ASSUME Len(q) = Len(p) PROVE FALSE
    OBVIOUS
  <2>1. q = p
    BY <1>1, <1>3, <1>4
  <2>2. CompOf(p).desc # Simple /\ CompOf(p) \in Known /\ Last(p)[1] = CompOf(p).name
    BY <1>2, <1>5, <2>1, PathPart
  <2> QED BY <1>2, <2>2, CompositeName
<1> DEFINE Good(r, n) == /\ r \in paths /\ r \in Seq(Steps) /\ Len(r) = n /\ IsPrefix(r, p)
                         /\ Last(r)[1] \notin Volatile
           T == {n \in 1 .. Len(p) : n <= Len(q) \/ \E r \in paths : Good(r, n)}
<1>7. Len(p) \in T
  <2>1. Len(p) \in 1 .. Len(p)
    BY <1>3
  <2>2. IsPrefix(p, p)
    BY <1>3, PrefixIs
  <2>3. Good(p, Len(p))
    BY <1>2, <1>3, <2>2
  <2> QED BY <1>2, <2>1, <2>3
<1>8. ASSUME NEW n \in 1 .. Len(p), n # Len(p), n + 1 \in T PROVE n \in T
  <2>1. CASE n <= Len(q)
    BY <2>1
  <2>2. CASE ~(n <= Len(q))
    <3>1. ~(n + 1 <= Len(q)) /\ n \in Nat
      BY <1>3, <2>2
    <3>2. PICK r \in paths : Good(r, n + 1)
      BY <1>8, <3>1
    <3>3. r # <<>>
      BY <1>3, <3>2
    <3> DEFINE f == Front(r)
    <3>4. f \in paths /\ f \in Seq(Steps) /\ CompOf(f).desc \in DOMAIN Schema /\ Len(r) = Len(f) + 1
          /\ Len(f) \in Nat
      BY <3>2, <3>3, PathPart
    <3>5. Len(f) = n
      BY <3>1, <3>2, <3>4
    <3>6. f # <<>>
      BY <3>4, <3>5
    <3>7. CompOf(f) \in Known /\ Last(f)[1] = CompOf(f).name /\ CompOf(f).desc # Simple
      BY <3>4, <3>6, PathPart, SchemaAssumption
    <3>8. Last(f)[1] \notin Volatile
      BY <3>7
    <3>9. \A i \in 1 .. n : f[i] = r[i]
      <4>1. \A i \in 1 .. Len(r) - 1 : Front(r)[i] = r[i]
        BY ONLY <3>2, <3>3, FrontIs
      <4> QED BY <3>4, <3>5, <4>1
    <3>10. IsPrefix(f, p)
      <4>1. \A i \in 1 .. n + 1 : r[i] = p[i]
        BY <1>3, <3>2, PrefixIs
      <4>2. \A i \in 1 .. n : i \in 1 .. n + 1
        BY <3>1
      <4>3. \A i \in 1 .. Len(f) : f[i] = p[i]
        BY <3>5, <3>9, <4>1, <4>2
      <4>4. Len(f) <= Len(p)
        BY <3>5
      <4> QED BY ONLY <1>3, <3>4, <4>3, <4>4, PrefixIs
    <3>11. Good(f, n)
      BY <3>4, <3>5, <3>8, <3>10
    <3> QED BY <3>4, <3>11
  <2> QED BY <2>1, <2>2
<1>9. \A n \in 1 .. Len(p) : n \in T
  <2> HIDE DEF T
  <2> QED BY <1>3, <1>7, <1>8, Downwards
<1>10. Len(q) + 1 \in T
  <2>1. Len(q) + 1 \in 1 .. Len(p)
    BY <1>3, <1>4, <1>6
  <2> QED BY <1>9, <2>1
<1>11. PICK r \in paths : Good(r, Len(q) + 1)
  <2>1. ~(Len(q) + 1 <= Len(q))
    BY <1>3
  <2> QED BY <1>10, <2>1
<1>12. r # <<>> /\ Len(r) \in Nat
  BY <1>3, <1>11
<1>13. /\ Front(r) \in Seq(Steps) /\ Len(Front(r)) = Len(q) /\ \A i \in 1 .. Len(q) : Front(r)[i] = r[i]
       /\ Last(r) = r[Len(r)]
  <2>1. /\ Front(r) \in Seq(Steps) /\ Len(Front(r)) = Len(r) - 1 /\ Last(r) = r[Len(r)]
        /\ \A i \in 1 .. Len(r) - 1 : Front(r)[i] = r[i]
    BY ONLY <1>11, <1>12, FrontIs
  <2>2. Len(r) - 1 = Len(q)
    BY <1>3, <1>11
  <2> QED BY <2>1, <2>2
<1>14. \A i \in 1 .. Len(q) + 1 : r[i] = p[i]
  BY <1>3, <1>11, PrefixIs
<1>15. \A i \in 1 .. Len(q) : i \in 1 .. Len(q) + 1
  BY <1>3
<1>16. Front(r) = q
  BY <1>1, <1>4, <1>13, <1>14, <1>15
<1>17. r \in Kept(paths)
  <2>1. HasContent(paths, r)
    BY <1>2, <1>11 DEF HasContent
  <2>2. DOMAIN r = 1 .. Len(r)
    BY <1>11
  <2>3. ASSUME NEW i \in 1 .. Len(r) PROVE r[i][1] \notin Volatile
    <3>1. CASE i = Len(r)
      BY <1>11, <1>13, <3>1
    <3>2. CASE i # Len(r)
      <4>1. i \in 1 .. Len(q)
        BY <1>3, <1>11, <3>2
      <4> QED BY <1>1, <1>4, <1>14, <1>15, <4>1
    <3> QED BY <3>1, <3>2
  <2> QED BY <1>11, <2>1, <2>2, <2>3 DEF Kept
<1> QED BY <1>12, <1>16, <1>17

-----------------------------------------------------------------------------
(* What a load has still to find, and what it has found.                   *)

(* Before the first step, after the last one, or in the composites of a    *)
(* chain.                                                                  *)
Doing(s, st, schema) ==
  \/ s = <<Task("item", Base, <<>>, 0)>> /\ st = <<>>
  \/ s = <<>> /\ st = <<>>
  \/ \E ch : Walk(schema, ch, s) /\ Len(st) = Len(ch)

(* The first and the last task of a walk. *)
LEMMA DoingItem ==
  ASSUME NEW schema \in {Schema, NewSchema}, NEW s, NEW st, Doing(s, st, schema), s # <<>>,
         Head(s).do # "item"
  PROVE  \E ch : Walk(schema, ch, s) /\ Len(st) = Len(ch)
<1> DEFINE t == Task("item", Base, <<>>, 0)
<1>1. Head(<<t>>) = t
  OBVIOUS
<1>2. t.do = "item"
  BY DEF Task
<1> HIDE DEF t
<1>3. s # <<t>>
  BY <1>1, <1>2
<1> QED BY <1>3 DEF Doing, t

LEMMA DoingBase ==
  ASSUME NEW schema \in {Schema, NewSchema}, NEW s, NEW st, Doing(s, st, schema), s # <<>>
  PROVE  \/ /\ Head(s) = Task("item", Base, <<>>, 0) /\ Tail(s) = <<>> /\ st = <<>>
            /\ Head(s).comp = Base /\ Head(s).path = <<>> /\ Head(s).idx = 0 /\ Head(s).do = "item"
         \/ \E ch : Walk(schema, ch, s) /\ Len(st) = Len(ch)
<1> DEFINE t == Task("item", Base, <<>>, 0)
<1>1. Head(<<t>>) = t /\ Tail(<<t>>) = <<>>
  OBVIOUS
<1>2. t.comp = Base /\ t.path = <<>> /\ t.idx = 0 /\ t.do = "item"
  BY DEF Task
<1> HIDE DEF t
<1>3. CASE s = <<t>> /\ st = <<>>
  BY <1>1, <1>2, <1>3 DEF t
<1> QED BY <1>3 DEF Doing, t

(* A task is done, or is replaced by others of its level.                  *)
LEMMA DoingReplaces ==
  ASSUME NEW schema \in {Schema, NewSchema}, NEW ch, NEW s, Walk(schema, ch, s), NEW st,
         Len(st) = Len(ch), Head(s).do # "OBJECT", NEW new, Flat(schema, ch, new)
  PROVE  Doing(new \o Tail(s), st, schema)
<1>1. Walk(schema, ch, new \o Tail(s))
  BY WalkReplaces
<1> QED BY <1>1 DEF Doing

LEMMA DoingDone ==
  ASSUME NEW schema \in {Schema, NewSchema}, NEW s, NEW st, Doing(s, st, schema),
         s # <<>>, Head(s).do # "OBJECT"
  PROVE  Doing(Tail(s), st, schema)
<1>1. CASE \E ch : Walk(schema, ch, s) /\ Len(st) = Len(ch)
  <2>1. PICK ch : Walk(schema, ch, s) /\ Len(st) = Len(ch)
    BY <1>1
  <2>2. Walk(schema, ch, Tail(s))
    BY <2>1, WalkDone
  <2> QED BY <2>1, <2>2 DEF Doing
<1>2. CASE Tail(s) = <<>> /\ st = <<>>
  BY <1>2 DEF Doing
<1> QED BY <1>1, <1>2, DoingBase

(* Where each item begins, or ends, in a file. *)
Offsets == [Seq(Steps) -> Nat]

LEMMA KinMore ==
  ASSUME NEW D, NEW q, q # <<>>, NEW p
  PROVE  Kin(D \cup {q}, p) = IF Front(q) = p THEN Kin(D, p) \cup {q} ELSE Kin(D, p)
BY DEF Kin

(* The first item of a component from an offset on, or none but those of a *)
(* header alone, is found.                                                 *)
FirstOf(K, p, c, at, x, o) ==
  \E r \in Kin(K, p) :
    /\ CompOf(r) = c /\ x <= at[r] /\ o = at[r] + 1
    /\ \A q \in Kin(K, p) : CompOf(q) = c /\ x <= at[q] => at[r] <= at[q]

(* The tasks of a walk. *)
Each(s) == {s[i] : i \in 1 .. Len(s)}

(* The stored items of the component that a task is for, and the index of  *)
(* the first that it has still to load.                                    *)
Stored(K, t) == IF t.do = "OBJECT" THEN {} ELSE {q \in Kin(K, t.path) : CompOf(q) = t.comp}
Index(q) == Last(q)[2]
From(t)  == IF t.do = "item" THEN t.idx ELSE 0

(* An item is before or behind the offset: the next offset inside the item *)
(* that it is part of.                                                     *)
Ahead(at, end, ch, o, q) ==
  /\ Front(q) = ch[Len(ch)] => o <= at[q]
  /\ \A r \in Open(ch) : r # <<>> /\ Front(r) = Front(q) => end[r] <= at[q]
Behind(end, ch, o, q) ==
  /\ Front(q) = ch[Len(ch)] => end[q] <= o
  /\ \A r \in Open(ch) : r # <<>> /\ Front(r) = Front(q) => end[q] <= end[r]

Placed(K, at, end, ch, s, o) ==
  \A t \in Each(s) : \A q \in Stored(K, t) :
    IF Index(q) < From(t) THEN Behind(end, ch, o, q) ELSE Ahead(at, end, ch, o, q)

(* The components come in the order in which they were saved.              *)
Lined(K, s) ==
  \A i, j \in 1 .. Len(s) : i < j =>
    \A q \in Stored(K, s[i]), r \in Stored(K, s[j]) : Front(q) = Front(r) => Before(q, r)

LEMMA EachJoin ==
  ASSUME NEW s \in Seq(Tasks), NEW t \in Seq(Tasks)
  PROVE  Each(s \o t) = Each(s) \cup Each(t)
<1> DEFINE u == s \o t
<1>1. /\ u \in Seq(Tasks) /\ Len(u) = Len(s) + Len(t) /\ Len(s) \in Nat /\ Len(t) \in Nat
      /\ \A i \in 1 .. Len(s) + Len(t) : u[i] = IF i <= Len(s) THEN s[i] ELSE t[i - Len(s)]
  BY ONLY s \in Seq(Tasks), t \in Seq(Tasks), JoinedIs
<1> HIDE DEF u
<1>2. ASSUME NEW i \in 1 .. Len(u) PROVE u[i] \in Each(s) \cup Each(t)
  <2>1. CASE i <= Len(s)
    <3>1. i \in 1 .. Len(s) /\ u[i] = s[i]
      BY <1>1, <2>1
    <3> QED BY <3>1 DEF Each
  <2>2. CASE ~(i <= Len(s))
    <3>1. i - Len(s) \in 1 .. Len(t) /\ u[i] = t[i - Len(s)]
      BY <1>1, <2>2
    <3> QED BY <3>1 DEF Each
  <2> QED BY <2>1, <2>2
<1>3. ASSUME NEW i \in 1 .. Len(s) PROVE s[i] \in Each(u)
  <2>1. i \in 1 .. Len(u) /\ u[i] = s[i]
    BY <1>1
  <2> QED BY <2>1 DEF Each
<1>4. ASSUME NEW i \in 1 .. Len(t) PROVE t[i] \in Each(u)
  <2>1. Len(s) + i \in 1 .. Len(u) /\ u[Len(s) + i] = t[i]
    BY <1>1
  <2> QED BY <2>1 DEF Each
<1>5. Each(u) = Each(s) \cup Each(t)
  BY <1>2, <1>3, <1>4 DEF Each
<1> QED BY <1>5 DEF u

LEMMA EachHead ==
  ASSUME NEW s \in Seq(Tasks), s # <<>>
  PROVE  /\ Each(s) = {Head(s)} \cup Each(Tail(s))
         /\ \A i \in 1 .. Len(Tail(s)) : Tail(s)[i] = s[i + 1] /\ i + 1 \in 1 .. Len(s)
<1>1. /\ Len(s) \in Nat \ {0} /\ Head(s) = s[1] /\ Len(Tail(s)) = Len(s) - 1
      /\ \A i \in 1 .. Len(s) - 1 : Tail(s)[i] = s[i + 1]
  OBVIOUS
<1>2. ASSUME NEW i \in 1 .. Len(s) PROVE s[i] \in {Head(s)} \cup Each(Tail(s))
  <2>1. CASE i = 1
    BY <1>1, <2>1
  <2>2. CASE i # 1
    <3>1. i - 1 \in 1 .. Len(Tail(s)) /\ Tail(s)[i - 1] = s[i]
      BY <1>1, <2>2
    <3> QED BY <3>1 DEF Each
  <2> QED BY <2>1, <2>2
<1>3. \A i \in 1 .. Len(Tail(s)) : Tail(s)[i] = s[i + 1] /\ i + 1 \in 1 .. Len(s)
  BY <1>1
<1>4. Head(s) \in Each(s)
  BY <1>1 DEF Each
<1> QED BY <1>2, <1>3, <1>4 DEF Each

LEMMA EachOne ==
  ASSUME NEW t \in Tasks
  PROVE  <<t>> \in Seq(Tasks) /\ Each(<<t>>) = {t}
<1>1. <<t>> \in Seq(Tasks) /\ Len(<<t>>) = 1 /\ \A i \in 1 .. 1 : <<t>>[i] = t
  BY OneTask
<1> QED BY <1>1 DEF Each

LEMMA EachNone == <<>> \in Seq(Tasks) /\ Each(<<>>) = {}
<1>1. <<>> \in Seq(Tasks) /\ Len(<<>>) = 0
  BY NoTask
<1> QED BY <1>1 DEF Each

LEMMA StoredIs ==
  ASSUME NEW paths \in Configs, NEW schema \in {Schema, NewSchema}, NEW ch, Chain(schema, ch),
         NEW t \in Tasks, Fits(schema, ch, t), NEW q \in Stored(Kept(paths), t)
  PROVE  /\ t.do \in {"aggr", "item"} /\ q \in Kept(paths) /\ q \in Seq(Steps) /\ q # <<>>
         /\ q \in Kin(Kept(paths), t.path)
         /\ Front(q) = t.path /\ t.path \in Open(ch) /\ t.path \in Seq(Steps)
         /\ CompOf(q) = t.comp /\ t.comp \in Parts(Schema, t.path) /\ t.comp \in Known
         /\ CompOf(t.path).desc \in DOMAIN Schema
         /\ t.comp.name \notin Volatile
         /\ Index(q) \in 0 .. t.comp.max - 1 /\ Index(q) \in Nat /\ q = Below(t.path, t.comp, Index(q))
<1>1. t.do # "OBJECT" /\ q \in Kept(paths) /\ q # <<>> /\ Front(q) = t.path /\ CompOf(q) = t.comp
  BY DEF Stored, Kin
<1>2. t.path = ch[LevelOf(t)] /\ LevelOf(t) \in 1 .. Len(ch)
  BY <1>1 DEF Fits
<1>3. t.path \in Open(ch) /\ t.do \in {"aggr", "item"}
  BY <1>1, <1>2 DEF Open, Tasks
<1>4. /\ Front(q) \in Seq(Steps) /\ CompOf(Front(q)).desc \in DOMAIN Schema
      /\ \E c \in Parts(Schema, Front(q)) : \E k \in Nat :
           /\ c \in Known /\ c.name \notin Volatile /\ CompOf(q) = c
           /\ k \in 0 .. c.max - 1 /\ q = Below(Front(q), c, k) /\ Last(q) = <<c.name, k>>
  BY <1>1, KeptPart
<1>5. PICK c \in Parts(Schema, Front(q)), k \in Nat :
           /\ c \in Known /\ c.name \notin Volatile /\ CompOf(q) = c
           /\ k \in 0 .. c.max - 1 /\ q = Below(Front(q), c, k) /\ Last(q) = <<c.name, k>>
  BY <1>4
<1>6. Index(q) = k
  BY <1>5 DEF Index
<1>7. q \in Seq(Steps)
  BY <1>1, KeptIs
<1>8. q \in Kin(Kept(paths), t.path)
  BY <1>1 DEF Kin
<1> QED BY <1>1, <1>3, <1>4, <1>5, <1>6, <1>7, <1>8

LEMMA LinedHead ==
  ASSUME NEW K, NEW s \in Seq(Tasks), s # <<>>, Lined(K, s)
  PROVE  /\ Lined(K, Tail(s))
         /\ \A t \in Each(Tail(s)) : \A q \in Stored(K, Head(s)), r \in Stored(K, t) :
              Front(q) = Front(r) => Before(q, r)
<1>1. /\ Len(s) \in Nat \ {0} /\ Head(s) = s[1] /\ Len(Tail(s)) = Len(s) - 1
      /\ \A i \in 1 .. Len(s) - 1 : Tail(s)[i] = s[i + 1] /\ i + 1 \in 1 .. Len(s)
  OBVIOUS
<1>2. Lined(K, Tail(s))
  <2> SUFFICES ASSUME NEW i \in 1 .. Len(Tail(s)), NEW j \in 1 .. Len(Tail(s)), i < j
               PROVE  \A q \in Stored(K, Tail(s)[i]), r \in Stored(K, Tail(s)[j]) :
                        Front(q) = Front(r) => Before(q, r)
    BY DEF Lined
  <2>1. Tail(s)[i] = s[i + 1] /\ Tail(s)[j] = s[j + 1] /\ i + 1 \in 1 .. Len(s) /\ j + 1 \in 1 .. Len(s)
        /\ i + 1 < j + 1
    BY <1>1
  <2> QED BY <2>1 DEF Lined
<1>3. ASSUME NEW t \in Each(Tail(s))
      PROVE  \A q \in Stored(K, Head(s)), r \in Stored(K, t) : Front(q) = Front(r) => Before(q, r)
  <2>1. PICK i \in 1 .. Len(Tail(s)) : t = Tail(s)[i]
    BY DEF Each
  <2>2. t = s[i + 1] /\ i + 1 \in 1 .. Len(s) /\ 1 \in 1 .. Len(s) /\ 1 < i + 1
    BY <1>1, <2>1
  <2> QED BY <1>1, <2>2 DEF Lined
<1> QED BY <1>2, <1>3

LEMMA LinedJoin ==
  ASSUME NEW K, NEW s \in Seq(Tasks), NEW t \in Seq(Tasks), Lined(K, s), Lined(K, t),
         \A x \in Each(s), y \in Each(t) : \A q \in Stored(K, x), r \in Stored(K, y) :
           Front(q) = Front(r) => Before(q, r),
         NEW u, u = s \o t
  PROVE  Lined(K, u)
<1>1. /\ u \in Seq(Tasks) /\ Len(u) = Len(s) + Len(t) /\ Len(s) \in Nat /\ Len(t) \in Nat
      /\ \A i \in 1 .. Len(s) + Len(t) : u[i] = IF i <= Len(s) THEN s[i] ELSE t[i - Len(s)]
  BY ONLY s \in Seq(Tasks), t \in Seq(Tasks), u = s \o t, JoinedIs
<1> SUFFICES ASSUME NEW i \in 1 .. Len(u), NEW j \in 1 .. Len(u), i < j
             PROVE  \A q \in Stored(K, u[i]), r \in Stored(K, u[j]) : Front(q) = Front(r) => Before(q, r)
  BY DEF Lined
<1>2. CASE j <= Len(s)
  <2>1. i \in 1 .. Len(s) /\ j \in 1 .. Len(s) /\ u[i] = s[i] /\ u[j] = s[j]
    BY <1>1, <1>2
  <2> QED BY <2>1 DEF Lined
<1>3. CASE ~(i <= Len(s))
  <2>1. /\ i - Len(s) \in 1 .. Len(t) /\ j - Len(s) \in 1 .. Len(t) /\ i - Len(s) < j - Len(s)
        /\ u[i] = t[i - Len(s)] /\ u[j] = t[j - Len(s)]
    BY <1>1, <1>3
  <2> QED BY <2>1 DEF Lined
<1>4. CASE i <= Len(s) /\ ~(j <= Len(s))
  <2>1. i \in 1 .. Len(s) /\ j - Len(s) \in 1 .. Len(t) /\ u[i] = s[i] /\ u[j] = t[j - Len(s)]
    BY <1>1, <1>4
  <2>2. u[i] \in Each(s) /\ u[j] \in Each(t)
    BY <2>1 DEF Each
  <2> QED BY <2>2
<1> QED BY <1>2, <1>3, <1>4

(* Another task for the same component, or none. *)
Instead(t, new) ==
  \/ new = <<>>
  \/ \E u \in Tasks : new = <<u>> /\ u.do # "OBJECT" /\ u.path = t.path /\ u.comp = t.comp

LEMMA InsteadIs ==
  ASSUME NEW K, NEW t \in Tasks, t.do # "OBJECT", NEW new, Instead(t, new)
  PROVE  /\ new \in Seq(Tasks) /\ Lined(K, new)
         /\ \A u \in Each(new) :
              u.do # "OBJECT" /\ u.path = t.path /\ u.comp = t.comp /\ Stored(K, u) = Stored(K, t)
<1>1. CASE new = <<>>
  <2>1. Len(new) = 0
    BY <1>1, NoTask
  <2> QED BY <1>1, <2>1, EachNone DEF Lined
<1>2. CASE new # <<>>
  <2>1. PICK u \in Tasks : new = <<u>> /\ u.do # "OBJECT" /\ u.path = t.path /\ u.comp = t.comp
    BY <1>2 DEF Instead
  <2>2. new \in Seq(Tasks) /\ Each(new) = {u} /\ Len(new) = 1
    BY <2>1, EachOne, OneTask
  <2>3. Stored(K, u) = Stored(K, t)
    BY <2>1 DEF Stored
  <2>4. Lined(K, new)
    BY <2>2 DEF Lined
  <2> QED BY <2>1, <2>2, <2>3, <2>4
<1> QED BY <1>1, <1>2

LEMMA LinedReplaces ==
  ASSUME NEW K, NEW s \in Seq(Tasks), s # <<>>, Head(s) \in Tasks, Tail(s) \in Seq(Tasks), Lined(K, s),
         Head(s).do # "OBJECT", NEW new, Instead(Head(s), new), NEW v, v = new \o Tail(s)
  PROVE  Lined(K, v)
<1>1. /\ new \in Seq(Tasks) /\ Lined(K, new)
      /\ \A u \in Each(new) : Stored(K, u) = Stored(K, Head(s))
  BY InsteadIs
<1>2. /\ Lined(K, Tail(s))
      /\ \A t \in Each(Tail(s)) : \A q \in Stored(K, Head(s)), r \in Stored(K, t) :
           Front(q) = Front(r) => Before(q, r)
  BY LinedHead
<1> QED BY <1>1, <1>2, LinedJoin

LEMMA EachFits ==
  ASSUME NEW schema \in {Schema, NewSchema}, NEW ch, NEW s, Walk(schema, ch, s)
  PROVE  /\ Chain(schema, ch) /\ s \in Seq(Tasks) /\ s # <<>> /\ Tail(s) \in Seq(Tasks) /\ Head(s) \in Tasks
         /\ \A t \in Each(s) : t \in Tasks /\ Fits(schema, ch, t)
         /\ Each(s) = {Head(s)} \cup Each(Tail(s))
<1>1. /\ Suits(schema, ch, s) /\ Chain(schema, ch)
      /\ s \in Seq(Tasks) /\ s # <<>> /\ Tail(s) \in Seq(Tasks) /\ Head(s) \in Tasks
  BY WalkSuits
<1>2. \A i \in 1 .. Len(s) : s[i] \in Tasks /\ Fits(schema, ch, s[i])
  BY <1>1 DEF Suits
<1> QED BY <1>1, <1>2, EachHead DEF Each

(* What comes after the items that a task has loaded. *)
LEMMA NextInstead ==
  ASSUME NEW schema \in {Schema, NewSchema}, NEW ch, NEW s, Walk(schema, ch, s), Head(s).do = "item",
         NEW new, new = NextItem(Head(s))
  PROVE  /\ Instead(Head(s), new) /\ Head(s).do # "OBJECT"
         /\ \A u \in Each(new) : From(u) = Head(s).idx + 1
         /\ Head(s).idx + 1 < Head(s).comp.max => new # <<>> /\ \E u \in Each(new) : TRUE
<1> DEFINE t == Head(s)
           k == t.idx + 1
           u == Task("item", t.comp, t.path, k)
<1>1. t \in Tasks /\ t.comp \in Known /\ t.path \in Seq(Steps) /\ k \in Nat
  <2>1. t \in Tasks
    BY WalkHead
  <2> QED BY <2>1 DEF Tasks
<1>2. u \in Tasks /\ u.do = "item" /\ u.comp = t.comp /\ u.path = t.path /\ u.idx = k
  BY <1>1, TaskIs
<1>3. new = IF k < t.comp.max THEN <<u>> ELSE <<>>
  BY DEF NextItem
<1> HIDE DEF u
<1>4. Each(<<u>>) = {u} /\ Each(<<>>) = {} /\ From(u) = k /\ Len(<<u>>) = 1 /\ Len(<<>>) = 0
  BY <1>2, EachOne, EachNone, OneTask, NoTask DEF From
<1>5. CASE k < t.comp.max
  <2>1. new = <<u>> /\ new # <<>>
    BY <1>3, <1>4, <1>5
  <2> QED BY <1>2, <1>4, <2>1 DEF Instead
<1>6. CASE ~(k < t.comp.max)
  <2>1. new = <<>>
    BY <1>3, <1>6
  <2> QED BY <1>4, <1>6, <2>1 DEF Instead
<1> QED BY <1>5, <1>6

(* A load has passed the item that it found.                               *)
Between(K, at, end, r, h) ==
  \A q \in Kin(K, Front(r)) : (Before(r, q) => h <= at[q]) /\ (Before(q, r) => end[q] <= h)
Passed(K, at, end, ch, new, w, v, h) ==
  Placed(K, at, end, ch, v, h) /\ Lined(K, v) /\ Each(v) = Each(new) \cup Each(w)

LEMMA PassItem ==
  ASSUME NEW paths \in Configs, NEW K, K = Kept(paths),
         NEW schema \in {Schema, NewSchema}, NEW ch, NEW s, Walk(schema, ch, s), Head(s).do = "item",
         NEW at \in Offsets, NEW end \in Offsets, NEW o \in Nat,
         Placed(K, at, end, ch, s, o), Lined(K, s),
         NEW r \in K, r = PathOf(Head(s)), NEW h \in Nat, h = end[r], o <= h,
         Between(K, at, end, r, h), NEW new, new = NextItem(Head(s)), NEW w, w = Tail(s), NEW v, v = new \o w
  PROVE  Passed(K, at, end, ch, new, w, v, h)
<1> DEFINE t == Head(s)
           p == ch[Len(ch)]
<1>0. v = new \o Tail(s) /\ \A q \in Kin(K, Front(r)) : (Before(r, q) => h <= at[q]) /\ (Before(q, r) => end[q] <= h)
  BY DEF Between
<1>1. /\ Chain(schema, ch) /\ s \in Seq(Tasks) /\ s # <<>> /\ Tail(s) \in Seq(Tasks) /\ t \in Tasks
      /\ \A u \in Each(s) : u \in Tasks /\ Fits(schema, ch, u)
      /\ Each(s) = {t} \cup Each(Tail(s))
  BY EachFits
<1>2. /\ r = Below(p, t.comp, t.idx) /\ r # <<>> /\ Front(r) = p /\ CompOf(r) = t.comp /\ t.path = p
      /\ Last(r) = <<t.comp.name, t.idx>> /\ t.idx \in Nat
  BY ItemHead
<1>3. /\ Instead(t, new) /\ t.do # "OBJECT"
      /\ \A u \in Each(new) : From(u) = t.idx + 1
  BY NextInstead
<1>4. /\ new \in Seq(Tasks)
      /\ \A u \in Each(new) : Stored(K, u) = Stored(K, t)
  BY <1>1, <1>3, InsteadIs
<1>5. Lined(K, v)
  BY <1>0, <1>1, <1>3, LinedReplaces
<1>6. Each(v) = Each(new) \cup Each(Tail(s))
  BY <1>0, <1>1, <1>4, EachJoin
<1>7. \A q \in Open(ch) : q # <<>> => Front(q) # p
  BY <1>1, OpenIs
<1>8. r \in Stored(K, t)
  BY <1>2, <1>3 DEF Stored, Kin
<1>9. ASSUME NEW u \in Each(new), NEW q \in Stored(K, u)
      PROVE  IF Index(q) < From(u) THEN Behind(end, ch, h, q) ELSE Ahead(at, end, ch, h, q)
  <2>1. q \in Stored(K, t) /\ From(u) = t.idx + 1
    BY <1>3, <1>4, <1>9
  <2>2. t \in Each(s) /\ Fits(schema, ch, t)
    BY <1>1
  <2>3. /\ q \in K /\ q # <<>> /\ q \in Kin(K, p) /\ Front(q) = p /\ Index(q) \in Nat
        /\ q = Below(p, t.comp, Index(q)) /\ t.comp \in Parts(Schema, p)
        /\ p \in Seq(Steps) /\ CompOf(p).desc \in DOMAIN Schema
    BY <1>1, <1>2, <2>1, <2>2, StoredIs
  <2>4. \A m, k \in Nat : Before(Below(p, t.comp, m), Below(p, t.comp, k)) <=> m < k
    BY <2>3, BeforeOne
  <2>5. CASE Index(q) < t.idx
    <3>1. Before(q, r)
      BY <1>2, <2>3, <2>4, <2>5
    <3> QED BY <1>0, <1>2, <1>7, <2>1, <2>3, <2>5, <3>1 DEF Behind
  <2>6. CASE Index(q) = t.idx
    <3>1. q = r
      BY <1>2, <2>3, <2>6
    <3> QED BY <1>2, <1>7, <2>1, <2>3, <2>6, <3>1 DEF Behind
  <2>7. CASE t.idx < Index(q)
    <3>1. Before(r, q)
      BY <1>2, <2>3, <2>4, <2>7
    <3> QED BY <1>0, <1>2, <1>7, <2>1, <2>3, <2>7, <3>1 DEF Ahead
  <2> QED BY <1>2, <2>3, <2>5, <2>6, <2>7
<1>10. ASSUME NEW u \in Each(Tail(s)), NEW q \in Stored(K, u)
       PROVE  IF Index(q) < From(u) THEN Behind(end, ch, h, q) ELSE Ahead(at, end, ch, h, q)
  <2>1. IF Index(q) < From(u) THEN Behind(end, ch, o, q) ELSE Ahead(at, end, ch, o, q)
    BY <1>1, <1>10 DEF Placed
  <2>2. /\ u \in Tasks /\ Fits(schema, ch, u) /\ t \in Each(s)
    BY <1>1
  <2>3. q \in K /\ q # <<>> /\ q \in Seq(Steps) /\ q \in Kin(K, Front(q))
    BY <1>1, <2>2, <1>10, StoredIs
  <2>4. Front(q) = p => Before(r, q)
    BY <1>1, <1>2, <1>8, <1>10, LinedHead
  <2>5. at[q] \in Nat /\ end[q] \in Nat
    BY <2>3 DEF Offsets
  <2>6. Front(q) = p => h <= at[q]
    BY <1>0, <1>2, <2>3, <2>4
  <2>7. CASE Index(q) < From(u)
    <3>1. Front(q) = p => end[q] <= o
      BY <2>1, <2>7 DEF Behind
    <3>2. Front(q) = p => end[q] <= h
      BY <2>5, <3>1
    <3> QED BY <2>1, <2>7, <3>2 DEF Behind
  <2>8. CASE ~(Index(q) < From(u))
    BY <2>1, <2>6, <2>8 DEF Ahead
  <2> QED BY <2>7, <2>8
<1>11. Placed(K, at, end, ch, v, h)
  BY <1>6, <1>9, <1>10 DEF Placed
<1> QED BY <1>5, <1>6, <1>11 DEF Passed

(* The tasks for what is in an item, when the load has begun it.           *)
Begun(K, schema, q, o, new) ==
  /\ new \in Seq(Tasks) /\ Lined(K, new)
  /\ \A t \in Each(new) : t = o \/ (t \in Tasks /\ t.do = "aggr" /\ t.path = q /\ t.comp \in Parts(schema, q))
  /\ \A c \in Parts(schema, q) : \E t \in Each(new) : t.do = "aggr" /\ t.path = q /\ t.comp = c

LEMMA PartsLined ==
  ASSUME NEW paths \in Configs, NEW K, K = Kept(paths),
         NEW schema \in {Schema, NewSchema}, NEW ch, Chain(schema, ch), NEW q, q = ch[Len(ch)],
         NEW o \in Tasks, o.do = "OBJECT", NEW new, new = Opened(schema, q, o)
  PROVE  Begun(K, schema, q, o, new)
<1> DEFINE d == schema[CompOf(q).desc]
<1>1. /\ q \in Seq(Steps) /\ d \in Seq(All(schema)) /\ Len(d) \in Nat /\ CompOf(q).desc \in DOMAIN schema
      /\ \A i \in 1 .. Len(d) : d[i] \in Parts(schema, q) /\ d[i] \in Known
      /\ new \in Seq(Tasks) /\ Len(new) = Len(d) + 1
      /\ \A i \in 1 .. Len(d) : new[i] = Task("aggr", d[i], q, 0)
      /\ new[Len(d) + 1] = o
  BY PartIs
<1>2. \A i \in 1 .. Len(d) : new[i] \in Tasks /\ new[i].do = "aggr" /\ new[i].path = q /\ new[i].comp = d[i]
  BY <1>1, TaskIs
<1>3. \A c \in Parts(schema, q) : \E i \in 1 .. Len(d) : d[i] = c
  BY <1>1 DEF Parts, ToSet
<1> HIDE DEF d
<1>4. ASSUME NEW t \in Each(new)
      PROVE  t = o \/ (t \in Tasks /\ t.do = "aggr" /\ t.path = q /\ t.comp \in Parts(schema, q))
  <2>1. PICK i \in 1 .. Len(new) : t = new[i]
    BY DEF Each
  <2>2. i \in 1 .. Len(d) \/ i = Len(d) + 1
    BY <1>1, <2>1
  <2> QED BY <1>1, <1>2, <2>1, <2>2
<1>5. \A c \in Parts(schema, q) : \E t \in Each(new) : t.do = "aggr" /\ t.path = q /\ t.comp = c
  <2> TAKE c \in Parts(schema, q)
  <2>1. PICK i \in 1 .. Len(d) : d[i] = c
    BY <1>3
  <2>2. i \in 1 .. Len(new)
    BY <1>1
  <2>3. new[i] \in Each(new)
    BY <2>2 DEF Each
  <2> QED BY <1>2, <2>1, <2>3
<1>6. ASSUME NEW i \in 1 .. Len(new), NEW j \in 1 .. Len(new), i < j,
             NEW x \in Stored(K, new[i]), NEW y \in Stored(K, new[j])
      PROVE  Before(x, y)
  <2>1. i \in 1 .. Len(d) /\ (j \in 1 .. Len(d) \/ j = Len(d) + 1)
    BY <1>1, <1>6
  <2>2. j \in 1 .. Len(d)
    BY <1>1, <1>6, <2>1 DEF Stored
  <2>3. /\ x \in K /\ x # <<>> /\ Front(x) = q /\ CompOf(x) = d[i]
        /\ y \in K /\ y # <<>> /\ Front(y) = q /\ CompOf(y) = d[j]
    BY <1>2, <1>6, <2>1, <2>2 DEF Stored, Kin
  <2>4. CompOf(q).desc \in DOMAIN Schema /\ d[i] \in Parts(Schema, q) /\ d[j] \in Parts(Schema, q)
    BY <2>3, KeptPart
  <2> DEFINE e == Schema[CompOf(q).desc]
  <2>5. PICK m \in DOMAIN e, n \in DOMAIN e : e[m] = d[i] /\ e[n] = d[j]
    BY <2>4 DEF Parts, ToSet
  <2>6. i \in DOMAIN d /\ j \in DOMAIN d
    BY <1>1, <2>1, <2>2
  <2>7. m < n
    <3>1. CASE schema = Schema
      <4>1. d = e
        BY <3>1 DEF d
      <4>2. \A a, b \in DOMAIN e : e[a].name = e[b].name => a = b
        BY <2>4, SchemaAssumption
      <4>3. m = i /\ n = j
        BY <2>5, <2>6, <4>1, <4>2
      <4> QED BY <1>6, <4>3
    <3>2. CASE schema = NewSchema
      <4>1. CompOf(q).desc \in DOMAIN Schema \cap DOMAIN NewSchema
        BY <1>1, <2>4, <3>2
      <4>2. d = NewSchema[CompOf(q).desc]
        BY <3>2 DEF d
      <4>3. m < n <=> i < j
        BY <2>5, <2>6, <4>1, <4>2, OrderAssumption
      <4> QED BY <1>6, <4>3
    <3> QED BY <3>1, <3>2
  <2> QED BY <2>3, <2>5, <2>7 DEF Before
<1>7. Lined(K, new)
  BY <1>6 DEF Lined
<1> QED BY <1>1, <1>4, <1>5, <1>7 DEF Begun

LEMMA OpenMore ==
  ASSUME NEW ch, Len(ch) \in Nat, NEW r, NEW up, Len(up) = Len(ch) + 1, up[Len(ch) + 1] = r,
         \A j \in 1 .. Len(ch) : up[j] = ch[j]
  PROVE  Open(up) = Open(ch) \cup {r}
<1>1. ASSUME NEW j \in 1 .. Len(up) PROVE up[j] \in Open(ch) \cup {r}
  <2>1. j \in 1 .. Len(ch) \/ j = Len(ch) + 1
    OBVIOUS
  <2> QED BY <2>1 DEF Open
<1>2. ASSUME NEW j \in 1 .. Len(ch) PROVE ch[j] \in Open(up)
  <2>1. j \in 1 .. Len(up) /\ up[j] = ch[j]
    OBVIOUS
  <2> QED BY <2>1 DEF Open
<1>3. r \in Open(up)
  <2>1. Len(ch) + 1 \in 1 .. Len(up)
    OBVIOUS
  <2> QED BY <2>1 DEF Open
<1>4. Open(up) \subseteq Open(ch) \cup {r}
  BY <1>1 DEF Open
<1>5. Open(ch) \subseteq Open(up)
  BY <1>2 DEF Open
<1> QED BY <1>3, <1>4, <1>5

(* A load begins a composite: its components come first.                   *)
Within(K, at, r, o) == \A q \in Kin(K, r) : o <= at[q]

LEMMA PlacedOpens ==
  ASSUME NEW paths \in Configs, NEW K, K = Kept(paths),
         NEW schema \in {Schema, NewSchema}, NEW ch, NEW w, Walk(schema, ch, w),
         NEW at, NEW end, NEW r \in Seq(Steps), Len(r) = Len(ch), r # <<>>,
         NEW h, Placed(K, at, end, ch, w, h), h = end[r], Lined(K, w), Front(r) = ch[Len(ch)],
         NEW o, Within(K, at, r, o),
         NEW ob \in Tasks, ob.do = "OBJECT", NEW new, new = Opened(schema, r, ob),
         NEW up, up = Append(ch, r), NEW v, v = new \o w, Walk(schema, up, v)
  PROVE  Passed(K, at, end, up, new, w, v, o)
<1>1. /\ Chain(schema, ch) /\ w \in Seq(Tasks)
      /\ \A u \in Each(w) : u \in Tasks /\ Fits(schema, ch, u)
  BY EachFits
<1>2. /\ Chain(schema, up) /\ \A u \in Each(v) : u \in Tasks /\ Fits(schema, up, u)
  BY EachFits
<1>3. /\ ch \in Seq(Seq(Steps)) /\ Len(ch) \in Nat
  BY <1>1, ChainIs
<1>4. Len(up) = Len(ch) + 1 /\ up[Len(ch) + 1] = r /\ \A j \in 1 .. Len(ch) : up[j] = ch[j]
  BY <1>3
<1>5. Open(up) = Open(ch) \cup {r} /\ r = up[Len(up)]
  <2>1. r = up[Len(up)]
    BY <1>4
  <2>2. Open(up) = Open(ch) \cup {r}
    BY ONLY <1>3, <1>4, OpenMore
  <2> QED BY <2>1, <2>2
<1>6. r \notin Open(ch)
  <2>1. \A x \in Open(ch) : Len(x) \in 0 .. Len(ch) - 1
    BY <1>1, OpenIs
  <2> QED BY <1>3, <2>1
<1>7. /\ new \in Seq(Tasks) /\ Lined(K, new)
      /\ \A t \in Each(new) : t = ob \/ (t \in Tasks /\ t.do = "aggr" /\ t.path = r)
  <2>1. Chain(schema, up) /\ r = up[Len(up)]
    BY <1>2, <1>5
  <2>2. Begun(K, schema, r, ob, new)
    BY ONLY <2>1, PartsLined, paths \in Configs, K = Kept(paths), schema \in {Schema, NewSchema},
       ob \in Tasks, ob.do = "OBJECT", new = Opened(schema, r, ob)
  <2> QED BY <2>2 DEF Begun
<1>8. Each(v) = Each(new) \cup Each(w)
  BY <1>1, <1>7, EachJoin
<1>9. \A x \in Open(up) : x # <<>> => Front(x) # r
  <2> TAKE x \in Open(up)
  <2>1. x # <<>> => Front(x) # up[Len(up)]
    BY ONLY <1>2, OpenIs, x \in Open(up), schema \in {Schema, NewSchema}
  <2> QED BY <1>5, <2>1
<1>10. ASSUME NEW u \in Each(new), NEW q \in Stored(K, u)
       PROVE  Front(q) = r /\ ~(Index(q) < From(u)) /\ Ahead(at, end, up, o, q)
  <2>1. u # ob
    BY <1>10 DEF Stored
  <2>2. u.do = "aggr" /\ u.path = r
    BY <1>7, <2>1
  <2>3. u \in Tasks /\ Fits(schema, up, u)
    BY <1>2, <1>8
  <2>4. q \in Kin(K, r) /\ Front(q) = r /\ Index(q) \in Nat
    BY <1>2, <1>10, <2>2, <2>3, StoredIs
  <2>5. From(u) = 0
    BY <2>2 DEF From
  <2> QED BY <1>9, <2>4, <2>5 DEF Ahead, Within
<1>11. ASSUME NEW u \in Each(w), NEW q \in Stored(K, u)
       PROVE  Front(q) # r /\ IF Index(q) < From(u) THEN Behind(end, up, o, q) ELSE Ahead(at, end, up, o, q)
  <2>1. Front(q) \in Open(ch)
    <3>1. u \in Tasks /\ Fits(schema, ch, u) /\ q \in Stored(Kept(paths), u)
      BY <1>1, <1>11
    <3> QED BY ONLY <1>1, <3>1, StoredIs, paths \in Configs, schema \in {Schema, NewSchema}
  <2>2. Front(q) # r
    BY <1>6, <2>1
  <2>3. IF Index(q) < From(u) THEN Behind(end, ch, h, q) ELSE Ahead(at, end, ch, h, q)
    BY <1>11 DEF Placed
  <2>4. CASE Index(q) < From(u)
    BY <1>5, <2>2, <2>3, <2>4 DEF Behind
  <2>5. CASE ~(Index(q) < From(u))
    BY <1>5, <2>2, <2>3, <2>5 DEF Ahead
  <2> QED BY <2>2, <2>4, <2>5
<1>12. Placed(K, at, end, up, v, o)
  BY <1>8, <1>10, <1>11 DEF Placed
<1>13. Lined(K, v)
  BY <1>1, <1>7, <1>10, <1>11, LinedJoin
<1> QED BY <1>8, <1>12, <1>13 DEF Passed

(* A load goes on behind a composite.                                      *)
Shut(K, schema, ch, s, at, end, up, v, h) ==
  /\ Walk(schema, up, v) /\ Placed(K, at, end, up, v, h) /\ Lined(K, v)
  /\ Len(up) = Len(ch) - 1 /\ Len(up) \in 1 .. Len(ch) /\ Len(ch) \in Nat
  /\ \A j \in 1 .. Len(up) : up[j] = ch[j] /\ j \in 1 .. Len(ch)
  /\ Open(up) \subseteq Open(ch) /\ ch[Len(ch)] # <<>> /\ Front(ch[Len(ch)]) = up[Len(up)]
  /\ Each(v) \subseteq Each(s) /\ \A t \in Each(s) : t \in Each(v) \/ Stored(K, t) = {}

LEMMA PlacedCloses ==
  ASSUME NEW paths \in Configs, NEW K, K = Kept(paths),
         NEW schema \in {Schema, NewSchema}, NEW ch, NEW s, Walk(schema, ch, s), Head(s).do = "OBJECT",
         Len(ch) # 1, NEW at, NEW end, NEW o, Placed(K, at, end, ch, s, o), Lined(K, s),
         NEW h, h = end[ch[Len(ch)]], NEW up, up = Front(ch), NEW v, v = Tail(s)
  PROVE  Shut(K, schema, ch, s, at, end, up, v, h)
<1>1. /\ Chain(schema, ch) /\ s \in Seq(Tasks) /\ s # <<>>
      /\ Each(s) = {Head(s)} \cup Each(Tail(s))
  BY EachFits
<1>2. Walk(schema, up, v)
  BY WalkCloses
<1>3. Len(up) = Len(ch) - 1 /\ \A j \in 1 .. Len(ch) - 1 : up[j] = ch[j]
  BY <1>1, ChainShrinks
<1>4. Len(ch) \in Nat \ {0}
  BY <1>1, ChainIs
<1>5. Len(up) \in 1 .. Len(ch) /\ \A j \in 1 .. Len(up) : up[j] = ch[j] /\ j \in 1 .. Len(ch)
  BY <1>3, <1>4
<1>6. Open(up) \subseteq Open(ch)
  BY <1>5 DEF Open
<1>7. ch[Len(ch)] \in Open(ch) /\ ch[Len(ch)] # <<>> /\ Len(ch[Len(ch)]) = Len(ch) - 1
  BY <1>1, LastOpen
<1>8. Front(ch[Len(ch)]) = up[Len(up)]
  <2>1. LET r == ch[Len(ch)] IN Front(r) = ch[Len(r)]
    BY <1>1, <1>7, OpenIs
  <2>2. ch[Len(ch) - 1] = up[Len(up)]
    BY <1>3, <1>4, <1>5
  <2> QED BY <1>7, <2>1, <2>2
<1>9. /\ Chain(schema, up) /\ \A u \in Each(v) : u \in Tasks /\ Fits(schema, up, u)
  BY <1>2, EachFits
<1>10. ASSUME NEW u \in Each(v), NEW q \in Stored(K, u)
       PROVE  IF Index(q) < From(u) THEN Behind(end, up, h, q) ELSE Ahead(at, end, up, h, q)
  <2>1. IF Index(q) < From(u) THEN Behind(end, ch, o, q) ELSE Ahead(at, end, ch, o, q)
    BY <1>1, <1>10 DEF Placed
  <2>2. CASE Index(q) < From(u)
    BY <1>6, <1>7, <1>8, <2>1, <2>2 DEF Behind
  <2>3. CASE ~(Index(q) < From(u))
    BY <1>6, <1>7, <1>8, <2>1, <2>3 DEF Ahead
  <2> QED BY <2>2, <2>3
<1>11. Lined(K, v)
  BY <1>1, LinedHead
<1>12. Placed(K, at, end, up, v, h)
  BY <1>10 DEF Placed
<1>13. Stored(K, Head(s)) = {}
  BY DEF Stored
<1> QED BY <1>1, <1>2, <1>3, <1>4, <1>5, <1>6, <1>7, <1>8, <1>11, <1>12, <1>13 DEF Shut

(* What is in memory was saved, and the schema has it. *)
Named(schema, q) == \A i \in DOMAIN q : q[i][1] \in Names(schema)
Loaded(paths, schema, ram1) ==
  /\ DOMAIN ram1 \subseteq Kept(paths)
  /\ \A q \in DOMAIN ram1 : Named(schema, q) /\ ram1[q] = Value(q)

(* What some tasks will find. *)
Due(K, s) == UNION {{q \in Stored(K, t) : From(t) <= Index(q)} : t \in Each(s)}

(* What is not in memory will be found. *)
Complete(paths, schema, s, ram1) ==
  /\ <<>> \in DOMAIN ram1
  /\ \A q \in Kept(paths) : q # <<>> /\ Named(schema, q) /\ Front(q) \in DOMAIN ram1 =>
       q \in DOMAIN ram1 \/ q \in Due(Kept(paths), s)
Completes(paths, schema, s, ram1) == Lasting /\ Keeping => Complete(paths, schema, s, ram1)

LEMMA PackedIs ==
  ASSUME Packed, NEW paths \in Configs, NEW q \in Kept(paths), q # <<>>, NEW k \in 0 .. Index(q)
  PROVE  Below(Front(q), CompOf(q), k) \in Kept(paths)
<1> DEFINE p == Front(q)
<1>1. /\ p \in Kept(paths) /\ p \in Seq(Steps) /\ CompOf(p).desc \in DOMAIN Schema
      /\ \E c \in Parts(Schema, p) : \E i \in Nat :
           /\ c \in Known /\ c.name \notin Volatile /\ CompOf(q) = c
           /\ i \in Present(paths, p, c) /\ q = Below(p, c, i) /\ Last(q) = <<c.name, i>>
  BY KeptPart
<1>2. PICK c \in Parts(Schema, p), i \in Nat :
           /\ c \in Known /\ c.name \notin Volatile /\ CompOf(q) = c
           /\ i \in Present(paths, p, c) /\ q = Below(p, c, i) /\ Last(q) = <<c.name, i>>
  BY <1>1
<1>3. Index(q) = i
  BY <1>2 DEF Index
<1>4. HasContent(paths, q) /\ p \in paths
  BY <1>1, KeptIs
<1>5. HasContent(paths, Below(p, c, k))
  BY <1>1, <1>2, <1>3, <1>4 DEF Packed
<1>6. Below(p, c, k) \in paths
  <2>1. Present(paths, p, c) = 0 .. Cardinality(Present(paths, p, c)) - 1
    BY <1>1, <1>2, <1>4, ConfigAssumption
  <2> DEFINE n == Cardinality(Present(paths, p, c))
  <2>2. c.max \in Nat \ {0}
    BY <1>1, <1>2, PartsAre DEF Parts
  <2>3. n \in Nat
    BY <2>2, PresentIs
  <2>4. k \in Present(paths, p, c)
    <3> HIDE DEF n
    <3>1. i \in 0 .. n - 1
      BY <1>2, <2>1 DEF n
    <3>2. k \in 0 .. n - 1
      BY <1>3, <2>3, <3>1
    <3> QED BY <2>1, <3>2 DEF n
  <2> QED BY <2>4 DEF Present
<1>7. Below(p, c, k) \in Kept(paths)
  BY <1>1, <1>2, <1>5, <1>6, KeptBelow
<1> QED BY <1>2, <1>7

(* A stored item that is not before the offset, found by its type.         *)
Meets(paths, at, o, x, q) == q \in Kept(paths) /\ o <= at[q] /\ x = at[q] + 1

LEMMA PutIs ==
  ASSUME NEW q, NEW val, NEW ram1, NEW ram2, ram2 = Put(ram1, q, val)
  PROVE  /\ DOMAIN ram2 = DOMAIN ram1 \cup {q} /\ ram2[q] = val
         /\ \A r \in DOMAIN ram1 : r # q => ram2[r] = ram1[r]
<1> QED BY DEF Put

(* What was due is in memory or is due yet, and so is what is in an item   *)
(* that was loaded.                                                        *)
LEMMA CompleteMoves ==
  ASSUME NEW paths, NEW schema, NEW s, NEW ram1, Completes(paths, schema, s, ram1),
         NEW v, NEW ram2, DOMAIN ram1 \subseteq DOMAIN ram2,
         Lasting /\ Keeping => \A q \in Due(Kept(paths), s) : q \in DOMAIN ram2 \cup Due(Kept(paths), v),
         Lasting /\ Keeping => \A q \in Kept(paths) :
           q # <<>> /\ Named(schema, q) /\ Front(q) \in DOMAIN ram2 =>
             Front(q) \in DOMAIN ram1 \/ q \in DOMAIN ram2 \cup Due(Kept(paths), v)
  PROVE  Completes(paths, schema, v, ram2)
<1> SUFFICES ASSUME Lasting, Keeping PROVE Complete(paths, schema, v, ram2)
  BY DEF Completes
<1>1. Complete(paths, schema, s, ram1)
  BY DEF Completes
<1>2. <<>> \in DOMAIN ram2
  BY <1>1 DEF Complete
<1>3. ASSUME NEW q \in Kept(paths), q # <<>>, Named(schema, q), Front(q) \in DOMAIN ram2
      PROVE  q \in DOMAIN ram2 \/ q \in Due(Kept(paths), v)
  <2>1. CASE Front(q) \in DOMAIN ram1
    <3>1. q \in DOMAIN ram1 \/ q \in Due(Kept(paths), s)
      BY <1>1, <1>3, <2>1 DEF Complete
    <3> QED BY <3>1
  <2>2. CASE ~(Front(q) \in DOMAIN ram1)
    BY <1>3, <2>2
  <2> QED BY <2>1, <2>2
<1> QED BY <1>2, <1>3 DEF Complete

LEMMA DueIs ==
  ASSUME NEW K, NEW s
  PROVE  /\ \A q \in Due(K, s) : \E t \in Each(s) : q \in Stored(K, t) /\ From(t) <= Index(q)
         /\ \A t \in Each(s) : \A q \in Stored(K, t) : From(t) <= Index(q) => q \in Due(K, s)
<1> QED BY DEF Due

LEMMA AggrInstead ==
  ASSUME NEW schema \in {Schema, NewSchema}, NEW ch, NEW s, Walk(schema, ch, s), Head(s).do = "aggr",
         NEW new, new = IF Head(s).comp.name \in Volatile THEN <<>>
                        ELSE <<Task("item", Head(s).comp, Head(s).path, 0)>>
  PROVE  /\ Instead(Head(s), new) /\ Flat(schema, ch, new)
         /\ \A u \in Each(new) : From(u) = 0
         /\ Head(s).comp.name \notin Volatile => \E u \in Each(new) : TRUE
<1> DEFINE t == Head(s)
           one == Task("item", t.comp, t.path, 0)
<1>1. /\ t.path = ch[Len(ch)] /\ t.comp \in Parts(schema, ch[Len(ch)])
      /\ t.comp.max \in Nat \ {0} /\ Chain(schema, ch) /\ t \in Tasks
  BY WalkHead DEF Walk
<1>2. 0 \in 0 .. t.comp.max - 1
  BY <1>1
<1>3. one \in Tasks /\ one.do # "OBJECT" /\ LevelOf(one) = Len(ch) /\ Fits(schema, ch, one)
  BY <1>1, <1>2, FitsTask
<1>4. one.path = t.path /\ one.comp = t.comp /\ one.idx = 0
  BY DEF Task
<1>5. From(one) = 0
  BY <1>4 DEF From
<1> HIDE DEF one
<1>6. CASE new = <<>>
  BY <1>3, <1>6, NoTask, EachNone DEF Flat, Instead, one
<1>7. CASE new = <<one>>
  <2>1. Each(new) = {one} /\ new \in Seq(Tasks)
    BY <1>3, <1>7, EachOne
  <2>4. Len(new) = 1 /\ new[1] = one
    BY ONLY <1>7
  <2>2. Flat(schema, ch, new)
    BY <1>3, <2>1, <2>4 DEF Flat
  <2>3. Instead(t, new)
    BY <1>3, <1>4, <1>7 DEF Instead
  <2> QED BY <1>5, <2>1, <2>2, <2>3
<1> QED BY <1>6, <1>7 DEF one

(* The schema has the item that a task is for, when it has the composites  *)
(* that the item is in.                                                    *)
LEMMA NamedItem ==
  ASSUME NEW schema \in {Schema, NewSchema}, NEW ch, NEW s, Walk(schema, ch, s), Head(s).do = "item",
         NEW q, q = PathOf(Head(s)), Named(schema, ch[Len(ch)])
  PROVE  Named(schema, q)
<1> DEFINE p == ch[Len(ch)]
           t == Head(s)
<1>1. /\ q = Below(p, t.comp, t.idx) /\ p \in Seq(Steps) /\ CompOf(p).desc \in DOMAIN schema
      /\ t.comp \in Parts(schema, p) /\ Len(q) = Len(ch) /\ q \in Seq(Steps)
  BY ItemHead
<1>2. t.comp \in All(schema)
  BY <1>1, PartsAre DEF Parts
<1>3. t.comp.name \in Names(schema)
  BY <1>2 DEF Names
<1> DEFINE x == <<t.comp.name, t.idx>>
<1>4. q = Append(p, x) /\ x[1] = t.comp.name
  BY <1>1 DEF Below
<1> HIDE DEF p, x
<1>5. \A i \in DOMAIN p : p[i][1] \in Names(schema)
  BY DEF Named, p
<1> SUFFICES ASSUME NEW i \in DOMAIN q PROVE q[i][1] \in Names(schema)
  BY DEF Named
<1>6. CASE i = Len(q)
  <2>1. q[i] = x
    BY <1>1, <1>4, <1>6
  <2> QED BY <1>3, <1>4, <2>1
<1>7. CASE i # Len(q)
  <2>1. i \in DOMAIN p /\ q[i] = p[i]
    BY <1>1, <1>4, <1>7
  <2> QED BY <1>5, <2>1
<1> QED BY <1>6, <1>7

Grown(paths, schema, ram1, ram2, q) ==
  Loaded(paths, schema, ram2) /\ DOMAIN ram2 = DOMAIN ram1 \cup {q}

LEMMA LoadedGrows ==
  ASSUME NEW paths, NEW schema, NEW ram1, Loaded(paths, schema, ram1), NEW q \in Kept(paths), Named(schema, q),
         NEW val, val = Value(q), NEW ram2, ram2 = Put(ram1, q, val)
  PROVE  Grown(paths, schema, ram1, ram2, q)
<1>1. /\ DOMAIN ram2 = DOMAIN ram1 \cup {q} /\ ram2[q] = val
      /\ \A r \in DOMAIN ram1 : r # q => ram2[r] = ram1[r]
  BY ONLY ram2 = Put(ram1, q, val) DEF Put
<1> QED BY <1>1 DEF Loaded, Grown

(* What is due after the item that was found was loaded.                   *)
LEMMA DueNext ==
  ASSUME NEW paths \in Configs, NEW schema \in {Schema, NewSchema}, NEW ch, NEW s, Walk(schema, ch, s),
         Head(s).do = "item", NEW q, q = PathOf(Head(s)), NEW K, K = Kept(paths),
         NEW v, Each(NextItem(Head(s))) \cup Each(Tail(s)) \subseteq Each(v)
  PROVE  \A r \in Due(K, s) : r = q \/ r \in Due(K, v)
<1> DEFINE t == Head(s)
           new == NextItem(t)
<1>1. /\ Chain(schema, ch) /\ t \in Tasks
      /\ \A u \in Each(s) : u \in Tasks /\ Fits(schema, ch, u)
      /\ Each(s) = {t} \cup Each(Tail(s))
  BY EachFits
<1>2. /\ q = Below(ch[Len(ch)], t.comp, t.idx) /\ t.path = ch[Len(ch)] /\ t.idx \in Nat
  BY ItemHead
<1>3. /\ Instead(t, new) /\ t.do # "OBJECT"
      /\ \A u \in Each(new) : From(u) = t.idx + 1
      /\ t.idx + 1 < t.comp.max => \E u \in Each(new) : TRUE
  BY NextInstead
<1>4. \A u \in Each(new) : Stored(K, u) = Stored(K, t)
  BY <1>1, <1>3, InsteadIs
<1> HIDE DEF t, new
<1> SUFFICES ASSUME NEW r \in Due(K, s), r # q PROVE r \in Due(K, v)
  OBVIOUS
<1>5. PICK u \in Each(s) : r \in Stored(K, u) /\ From(u) <= Index(r)
  BY DueIs
<1>6. CASE u = t
  <2>1. /\ r = Below(t.path, t.comp, Index(r)) /\ Index(r) \in 0 .. t.comp.max - 1 /\ Index(r) \in Nat
        /\ t.comp \in Known
    BY <1>1, <1>5, <1>6, StoredIs
  <2>2. From(t) = t.idx
    BY DEF From, t
  <2>3. Index(r) # t.idx
    BY <1>2, <2>1
  <2>4. t.idx + 1 <= Index(r) /\ t.idx < Index(r)
    BY <1>2, <1>5, <1>6, <2>1, <2>2, <2>3
  <2>5. t.idx + 1 < t.comp.max
    <3>1. t.comp.max \in Nat
      <4>1. t.comp.max \in Nat \ {0}
        BY ItemHead DEF t
      <4> QED BY <4>1
    <3> QED BY <1>2, <2>1, <2>4, <3>1
  <2>6. PICK w \in Each(new) : TRUE
    BY <1>3, <2>5
  <2>7. w \in Each(v) /\ r \in Stored(K, w) /\ From(w) <= Index(r)
    BY <1>3, <1>4, <1>5, <1>6, <2>4, <2>6 DEF new, t
  <2> QED BY <2>7, DueIs
<1>7. CASE u # t
  <2>1. u \in Each(v)
    BY <1>1, <1>7 DEF t
  <2> QED BY <1>5, <2>1, DueIs
<1> QED BY <1>6, <1>7

(* A simple item has nothing in it.                                        *)
LEMMA SimpleBare ==
  ASSUME NEW paths \in Configs, NEW q, CompOf(q).desc = Simple, NEW r \in Kept(paths), r # <<>>
  PROVE  Front(r) # q
<1>1. CompOf(Front(r)).desc \in DOMAIN Schema
  BY KeptPart
<1>2. Simple \notin DOMAIN Schema
  BY SchemaAssumption
<1> QED BY <1>1, <1>2

(* A component that newer software has it has in the same descriptor.      *)
LEMMA KeepsPart ==
  ASSUME Keeping, NEW paths \in Configs, NEW schema \in {Schema, NewSchema}, NEW r \in Kept(paths), r # <<>>,
         Named(schema, r), CompOf(Front(r)).desc \in DOMAIN schema
  PROVE  CompOf(r) \in Parts(schema, Front(r))
<1> DEFINE d == CompOf(Front(r)).desc
           c == CompOf(r)
<1>1. d \in DOMAIN Schema /\ c \in Parts(Schema, Front(r)) /\ Len(r) = Len(Front(r)) + 1 /\ r \in Seq(Steps)
      /\ Last(r)[1] = c.name
  <2>1. r \in paths
    BY KeptIs
  <2> QED BY <2>1, KeptPart, PathPart
<1>2. CASE schema = Schema
  BY <1>1, <1>2
<1>3. CASE schema = NewSchema
  <2>1. Last(r) = r[Len(r)] /\ Len(r) \in DOMAIN r
    BY <1>1, FrontIs
  <2>2. c.name \in Names(NewSchema)
    BY <1>1, <1>3, <2>1 DEF Named
  <2>3. c \in ToSet(Schema[d])
    BY <1>1 DEF Parts
  <2>4. c \in ToSet(NewSchema[d])
    BY <1>1, <1>3, <2>2, <2>3 DEF Keeping
  <2> QED BY <1>3, <2>4 DEF Parts
<1> QED BY <1>2, <1>3

(* What is in a composite is due when the composite is begun.              *)
LEMMA PartDue ==
  ASSUME Keeping, NEW paths \in Configs, NEW K, K = Kept(paths),
         NEW schema \in {Schema, NewSchema}, NEW ch, Chain(schema, ch), NEW q, q = ch[Len(ch)],
         NEW ob \in Tasks, ob.do = "OBJECT", NEW v, Each(Opened(schema, q, ob)) \subseteq Each(v),
         NEW r \in K, r # <<>>, Named(schema, r), Front(r) = q
  PROVE  r \in Due(K, v)
<1> DEFINE c == CompOf(r)
           new == Opened(schema, q, ob)
<1>1. CompOf(q).desc \in DOMAIN schema
  BY ChainIs
<1>2. c \in Parts(schema, q)
  BY <1>1, KeepsPart
<1> HIDE DEF c
<1>3. PICK t \in Each(new) : t.do = "aggr" /\ t.path = q /\ t.comp = c
  <2>1. new = Opened(schema, q, ob)
    OBVIOUS
  <2> HIDE DEF new
  <2>2. Begun(K, schema, q, ob, new)
    BY ONLY paths \in Configs, K = Kept(paths), schema \in {Schema, NewSchema}, Chain(schema, ch),
            q = ch[Len(ch)], ob \in Tasks, ob.do = "OBJECT", <2>1, PartsLined
  <2> QED BY <1>2, <2>2 DEF Begun
<1>4. t \in Each(v)
  BY <1>3
<1>5. r \in Stored(K, t)
  BY <1>3 DEF Stored, Kin, c
<1>6. From(t) = 0
  BY <1>3 DEF From
<1>7. Index(r) \in Nat
  <2>1. PICK e \in Parts(Schema, Front(r)) : \E k \in Nat : Last(r) = <<e.name, k>>
    BY KeptPart
  <2> QED BY <2>1 DEF Index
<1>8. From(t) <= Index(r)
  BY <1>6, <1>7
<1> QED BY <1>4, <1>5, <1>8, DueIs

(* What is due when a composite was begun.                                 *)
LEMMA CompleteOpens ==
  ASSUME NEW paths \in Configs, NEW schema \in {Schema, NewSchema}, NEW ch, NEW s, Walk(schema, ch, s),
         Head(s).do = "item", NEW q, q = PathOf(Head(s)), NEW ram1, Completes(paths, schema, s, ram1),
         NEW ram2, DOMAIN ram2 = DOMAIN ram1 \cup {q},
         NEW up, Chain(schema, up), q = up[Len(up)], NEW ob \in Tasks, ob.do = "OBJECT",
         NEW v, Each(Opened(schema, q, ob)) \subseteq Each(v),
         Each(NextItem(Head(s))) \cup Each(Tail(s)) \subseteq Each(v)
  PROVE  Completes(paths, schema, v, ram2)
<1> DEFINE K == Kept(paths)
<1>1. \A r \in Due(K, s) : r \in DOMAIN ram2 \cup Due(K, v)
  <2>1. \A r \in Due(K, s) : r = q \/ r \in Due(K, v)
    BY DueNext
  <2> QED BY <2>1
<1>2. ASSUME Keeping, NEW r \in K, r # <<>>, Named(schema, r), Front(r) \in DOMAIN ram2
      PROVE  Front(r) \in DOMAIN ram1 \/ r \in DOMAIN ram2 \cup Due(K, v)
  <2>1. CASE Front(r) = q
    <3> HIDE DEF K
    <3>1. K = Kept(paths)
      BY DEF K
    <3>2. r \in Due(K, v)
      BY ONLY Keeping, paths \in Configs, <3>1, schema \in {Schema, NewSchema}, Chain(schema, up), q = up[Len(up)],
              ob \in Tasks, ob.do = "OBJECT", Each(Opened(schema, q, ob)) \subseteq Each(v),
              r \in K, r # <<>>, Named(schema, r), <2>1, PartDue
    <3> QED BY <3>2
  <2> QED BY <1>2, <2>1
<1>3. DOMAIN ram1 \subseteq DOMAIN ram2
  OBVIOUS
<1>4. /\ Lasting /\ Keeping => \A r \in Kept(paths) : r \in Due(Kept(paths), s) => r \in DOMAIN ram2 \cup Due(Kept(paths), v)
      /\ Lasting /\ Keeping => \A r \in Due(Kept(paths), s) : r \in DOMAIN ram2 \cup Due(Kept(paths), v)
      /\ Lasting /\ Keeping => \A r \in Kept(paths) :
           r # <<>> /\ Named(schema, r) /\ Front(r) \in DOMAIN ram2 =>
             Front(r) \in DOMAIN ram1 \/ r \in DOMAIN ram2 \cup Due(Kept(paths), v)
  BY <1>1, <1>2
<1> QED BY <1>3, <1>4, CompleteMoves

LEMMA OneItem ==
  LET ch == <<<<>>>> IN Len(ch) = 1 /\ ch[1] = <<>> /\ ch[Len(ch)] = <<>> /\ Open(ch) = {<<>>} /\ ch \in Seq(Seq(Steps))
<1>1. <<>> \in Seq(Steps)
  OBVIOUS
<1> DEFINE ch == <<<<>>>>
<1>2. ch \in Seq(Seq(Steps)) /\ Len(ch) = 1 /\ ch[1] = <<>>
  BY <1>1
<1> HIDE DEF ch
<1>3. Open(ch) = {<<>>}
  BY <1>2 DEF Open
<1> QED BY <1>2, <1>3 DEF ch

Done(paths, schema, s, st, ram1) ==
  /\ s = <<>> /\ st = <<>>
  /\ Loaded(paths, schema, ram1) /\ Completes(paths, schema, s, ram1)

(* The tasks that a composite adds to those there are.                     *)
Opens(v, schema, q, ob, next, s) == v = Opened(schema, q, ob) \o (next \o Tail(s))

LEMMA CompositeTasks ==
  ASSUME NEW schema \in {Schema, NewSchema}, NEW ch, NEW s, Walk(schema, ch, s), Head(s).do = "item",
         NEW c, c = Head(s).comp, c.desc # Simple, NEW q, q = PathOf(Head(s)),
         NEW ob, ob = Task("OBJECT", c, Head(s).path, 0), NEW next, next = NextItem(Head(s)),
         NEW v, v = Components(schema, c, q) \o <<ob>> \o next \o Tail(s)
  PROVE  Opens(v, schema, q, ob, next, s)
<1> DEFINE p == ch[Len(ch)]
           up == Append(ch, q)
           u == Opened(schema, q, ob)
<1>1. /\ q = Below(p, c, Head(s).idx) /\ c \in Parts(schema, p) /\ Head(s).idx \in Nat /\ CompOf(q) = c
      /\ Head(s).path = p /\ p \in Seq(Steps) /\ c \in Known
  BY ItemHead
<1>2. Walk(schema, up, Components(schema, c, q) \o <<Task("OBJECT", c, ch[Len(ch)], 0)>> \o s)
  BY <1>1, WalkOpens
<1>3. Chain(schema, ch) /\ ch \in Seq(Seq(Steps)) /\ Chain(schema, up)
  BY <1>2, ChainIs DEF Walk
<1>4. q = up[Len(up)]
  BY <1>3
<1>5. ob \in Tasks /\ ob.do = "OBJECT"
  <2> HIDE DEF p
  <2> QED BY <1>1, TaskIs
<1>6. u \in Seq(Tasks)
  <2> DEFINE d == schema[CompOf(q).desc]
  <2>1. /\ Chain(schema, up) /\ q = up[Len(up)] /\ ob \in Tasks /\ ob.do = "OBJECT"
        /\ d = schema[CompOf(q).desc] /\ u = Opened(schema, q, ob)
    BY <1>3, <1>4, <1>5
  <2> HIDE DEF up, d, u
  <2>2. /\ q \in Seq(Steps) /\ d \in Seq(All(schema)) /\ Len(d) \in Nat /\ CompOf(q).desc \in DOMAIN schema
        /\ \A i \in 1 .. Len(d) : d[i] \in Parts(schema, q) /\ d[i] \in Known
        /\ u \in Seq(Tasks) /\ Len(u) = Len(d) + 1
        /\ \A i \in 1 .. Len(d) : u[i] = Task("aggr", d[i], q, 0)
        /\ u[Len(d) + 1] = ob
    BY ONLY schema \in {Schema, NewSchema}, <2>1, PartIs
  <2> QED BY <2>2
<1>7. next \in Seq(Tasks) /\ Tail(s) \in Seq(Tasks)
  BY NextIs, WalkHead DEF Flat
<1>8. v = u \o next \o Tail(s)
  BY <1>1 DEF Opened
<1> HIDE DEF u
<1>9. u \o next \o Tail(s) = u \o (next \o Tail(s))
  BY ONLY <1>6, <1>7, ConcatAssociative
<1> QED BY <1>8, <1>9 DEF u, Opens

LEMMA BaseTasks ==
  ASSUME NEW schema \in {Schema, NewSchema}, NEW t, t = Task("item", Base, <<>>, 0),
         NEW ob, ob = Task("OBJECT", Base, <<>>, 0),
         NEW v, v = Components(schema, t.comp, PathOf(t)) \o <<ob>> \o NextItem(t) \o <<>>
  PROVE  v = Opened(schema, <<>>, ob) /\ Walk(schema, <<<<>>>>, v)
<1>1. t.comp = Base /\ t.idx = 0
  BY DEF Task
<1>2. PathOf(t) = <<>> /\ CompOf(<<>>) = Base
  BY <1>1, BaseIs DEF PathOf
<1>3. NextItem(t) = <<>>
  BY <1>1, BaseIs DEF NextItem
<1>4. Walk(schema, <<<<>>>>, Components(schema, Base, <<>>) \o <<ob>>)
  BY WalkStarts
<1> DEFINE u == Components(schema, Base, <<>>) \o <<ob>>
<1>5. u \in Seq(Tasks)
  BY <1>4 DEF Walk
<1>6. v = u \o <<>> \o <<>>
  BY <1>1, <1>2, <1>3
<1> HIDE DEF u
<1>7. v = u
  BY <1>5, <1>6, NoTask
<1> QED BY <1>2, <1>4, <1>7 DEF u, Opened

LEMMA SavedSome ==
  ASSUME NEW paths \in Configs
  PROVE  paths # Nothing
  BY ConfigAssumption DEF Nothing

(* What a load owes of a configuration.                                    *)
LEMMA OwedIs ==
  ASSUME NEW paths \in Configs, NEW newer \in BOOLEAN, NEW schema, schema = Running(newer)
  PROVE  /\ DOMAIN Owed[paths][newer] = {q \in Kept(paths) : q # <<>> /\ Named(schema, q)}
         /\ \A q \in DOMAIN Owed[paths][newer] : Owed[paths][newer][q] = Value(q)
<1> DEFINE Q == {q \in paths \ {<<>>} :
                   HasContent(paths, q) /\ \A i \in DOMAIN q : q[i][1] \in Names(schema) \ Volatile}
<1>1. Owed[paths][newer] = [p \in Q |-> Value(p)]
  BY DEF Owed
<1>2. Q = {q \in Kept(paths) : q # <<>> /\ Named(schema, q)}
  BY DEF Kept, Named
<1> HIDE DEF Q
<1> QED BY <1>1, <1>2

LEMMA OnlyLoaded ==
  ASSUME NEW paths \in Configs, NEW newer \in BOOLEAN, NEW schema, schema = Running(newer),
         NEW ram1, Loaded(paths, schema, ram1), NEW p \in DOMAIN ram1, p # <<>>
  PROVE  p \in DOMAIN Owed[paths][newer] /\ ram1[p] = Owed[paths][newer][p]
<1>1. p \in Kept(paths) /\ Named(schema, p) /\ ram1[p] = Value(p)
  BY DEF Loaded
<1>2. p \in {q \in Kept(paths) : q # <<>> /\ Named(schema, q)}
  BY <1>1
<1> QED BY <1>1, <1>2, OwedIs

(* Nothing is due when there is nothing left to do: all of it was loaded.  *)
LEMMA AllLoaded ==
  ASSUME Lasting, Keeping, NEW paths \in Configs, NEW schema, NEW ram1, Completes(paths, schema, <<>>, ram1),
         NEW q \in Kept(paths), Named(schema, q)
  PROVE  q \in DOMAIN ram1
<1> DEFINE K == Kept(paths)
<1>1. /\ <<>> \in DOMAIN ram1
      /\ \A r \in K : r # <<>> /\ Named(schema, r) /\ Front(r) \in DOMAIN ram1 => r \in DOMAIN ram1
  <2>1. Due(K, <<>>) = {}
    BY EachNone DEF Due
  <2> QED BY <2>1 DEF Completes, Complete
<1>2. \A r \in K : Len(r) \in Nat /\ (Len(r) = 0 => r = <<>>)
  <2> SUFFICES ASSUME NEW r \in K PROVE Len(r) \in Nat /\ (Len(r) = 0 => r = <<>>)
    OBVIOUS
  <2>1. r \in Seq(Steps)
    BY KeptIs
  <2> QED BY <2>1
<1>3. \A r \in K : r # <<>> /\ Named(schema, r) =>
        Front(r) \in K /\ Named(schema, Front(r)) /\ Len(r) = Len(Front(r)) + 1
  <2> SUFFICES ASSUME NEW r \in K, r # <<>>, Named(schema, r)
               PROVE  Front(r) \in K /\ Named(schema, Front(r)) /\ Len(r) = Len(Front(r)) + 1
    OBVIOUS
  <2>1. Front(r) \in K /\ Front(r) \in Seq(Steps) /\ Len(r) = Len(Front(r)) + 1
    BY KeptPart
  <2>2. r \in Seq(Steps)
    BY KeptIs
  <2>3. \A i \in 1 .. Len(Front(r)) : Front(r)[i] = r[i] /\ i \in 1 .. Len(r)
    BY <2>1, <2>2, FrontIs
  <2>4. DOMAIN r = 1 .. Len(r) /\ DOMAIN Front(r) = 1 .. Len(Front(r))
    BY <2>1, <2>2
  <2>5. Named(schema, Front(r))
    BY <2>3, <2>4 DEF Named
  <2> QED BY <2>1, <2>5
<1> HIDE DEF K
<1> DEFINE T == {n \in Nat : \A r \in K : Named(schema, r) /\ Len(r) = n => r \in DOMAIN ram1}
           m == Len(q)
<1>4. m \in Nat /\ q \in K
  BY <1>2 DEF K
<1>5. 0 \in T
  BY <1>1, <1>2
<1>6. \A n \in 0 .. m : n \in T /\ n # m => n + 1 \in T
  <2> SUFFICES ASSUME NEW n \in Nat, n \in T, NEW r \in K, Named(schema, r), Len(r) = n + 1
               PROVE  r \in DOMAIN ram1
    BY <1>4
  <2>1. r # <<>>
    <3>1. Len(<<>>) = 0 /\ n + 1 # 0
      OBVIOUS
    <3> QED BY <3>1
  <2>2. Front(r) \in K /\ Named(schema, Front(r)) /\ Len(r) = Len(Front(r)) + 1
    BY <1>3, <2>1
  <2>3. Len(Front(r)) = n
    BY <1>2, <2>2
  <2>4. Front(r) \in DOMAIN ram1
    BY <2>2, <2>3
  <2> QED BY <1>1, <2>1, <2>4
<1> HIDE DEF T
<1>7. m \in T
  <2> HIDE DEF m
  <2>1. \A n \in 0 .. m : n \in T
    BY <1>4, <1>5, <1>6, Upwards
  <2> QED BY <1>4, <2>1
<1> QED BY <1>4, <1>7 DEF T

LEMMA BroughtAll ==
  ASSUME Lasting, Keeping, NEW paths \in Configs, NEW newer \in BOOLEAN, NEW schema, schema = Running(newer),
         NEW ram1, Loaded(paths, schema, ram1), Completes(paths, schema, <<>>, ram1)
  PROVE  Brought(ram1) = Owed[paths][newer]
<1> DEFINE owed == Owed[paths][newer]
           D == DOMAIN ram1 \ {<<>>}
<1>1. /\ DOMAIN owed = {q \in Kept(paths) : q # <<>> /\ Named(schema, q)}
      /\ \A q \in DOMAIN owed : owed[q] = Value(q)
  BY OwedIs
<1>2. owed = [q \in DOMAIN owed |-> owed[q]]
  BY DEF Owed
<1> HIDE DEF owed
<1>3. D \subseteq DOMAIN owed /\ \A q \in D : ram1[q] = Value(q)
  BY <1>1 DEF Loaded
<1>4. DOMAIN owed \subseteq D
  BY <1>1, AllLoaded
<1>5. D = DOMAIN owed
  BY <1>3, <1>4
<1>6. \A q \in D : ram1[q] = owed[q]
  BY <1>1, <1>3, <1>5
<1>7. Brought(ram1) = [q \in D |-> ram1[q]]
  BY DEF Brought
<1> HIDE DEF D
<1>8. [q \in D |-> ram1[q]] = [q \in DOMAIN owed |-> owed[q]]
  BY <1>5, <1>6
<1> QED BY <1>2, <1>7, <1>8 DEF owed

LEMMA BroughtNone ==
  ASSUME NEW ram1, DOMAIN ram1 \subseteq {<<>>}
  PROVE  Brought(ram1) = Defaults
<1>1. DOMAIN ram1 \ {<<>>} = {}
  OBVIOUS
<1> QED BY <1>1 DEF Brought, Defaults
=============================================================================
