--------------------------- MODULE TlvStore_proofs ---------------------------
(***************************************************************************)
(* Proofs about the TLV store.                                             *)
(***************************************************************************)
EXTENDS TlvStore, StoredTree_proofs

(* No walk opens more composites than a stack can hold.                    *)
LEMMA WalkDepth ==
  ASSUME NEW schema \in {Schema, NewSchema}, NEW ch, Chain(schema, ch)
  PROVE  Len(ch) \in 1 .. StackDepth
<1> DEFINE n == Len(ch)
<1>1. PICK height \in [DOMAIN schema -> 1 .. StackDepth] :
        \A d \in DOMAIN schema : \A c \in ToSet(schema[d]) :
          c.desc # Simple => height[c.desc] < height[d]
  BY DepthAssumption
<1>2. /\ n \in Nat \ {0} /\ ch[1] = <<>> /\ n >= 1
      /\ \A j \in 1 .. n : ch[j] \in Seq(Steps) /\ CompOf(ch[j]).desc \in DOMAIN schema
      /\ \A j \in 2 .. n : \E e \in Parts(schema, ch[j - 1]), i \in Nat :
           ch[j] = Below(ch[j - 1], e, i)
  BY ChainIs
<1> DEFINE H(j) == height[CompOf(ch[j]).desc]
           T == {j \in Nat : j + 1 \in 1 .. n => (j + 1) + H(j + 1) <= StackDepth + 1}
<1>3. StackDepth \in Nat /\ \A j \in 1 .. n : H(j) \in 1 .. StackDepth
  BY <1>1, <1>2, LenAssumption
<1>4. ASSUME NEW j \in 1 .. n, NEW k \in 1 .. n, k = j + 1 PROVE H(k) < H(j)
  <2>1. k \in 2 .. n /\ k - 1 = j
    BY <1>4
  <2>2. PICK e \in Parts(schema, ch[j]), i \in Nat : ch[k] = Below(ch[j], e, i)
    BY <1>2, <2>1
  <2>3. CompOf(ch[j]).desc \in DOMAIN schema /\ ch[j] \in Seq(Steps)
    BY <1>2
  <2>4. e \in Known /\ e \in ToSet(schema[CompOf(ch[j]).desc])
    BY <2>3, PartsAre DEF Parts
  <2>5. CompOf(ch[k]) = e
    BY <2>2, <2>3, <2>4, BelowIs
  <2>6. e.desc \in DOMAIN schema /\ e.desc # Simple
    BY <1>2, <2>5, SchemaAssumption
  <2> QED BY <1>1, <2>3, <2>4, <2>5, <2>6
<1> HIDE DEF H
<1>5. 0 \in T
  <2>1. 1 \in 1 .. n
    BY <1>2
  <2>2. H(1) \in 1 .. StackDepth
    BY <1>3, <2>1
  <2>3. 1 + H(1) <= StackDepth + 1 /\ 0 + 1 = 1
    BY <1>3, <2>2
  <2> QED BY <2>3
<1>6. ASSUME NEW j \in 0 .. n, j \in T, j # n PROVE j + 1 \in T
  <2> SUFFICES ASSUME (j + 1) + 1 \in 1 .. n
               PROVE  ((j + 1) + 1) + H((j + 1) + 1) <= StackDepth + 1
    BY <1>2
  <2> DEFINE k == j + 1
             h == k + 1
  <2>1. k \in 1 .. n /\ h \in 1 .. n
    BY <1>2
  <2>2. k + H(k) <= StackDepth + 1
    BY <1>6, <2>1
  <2>4. h = k + 1
    OBVIOUS
  <2> HIDE DEF k, h
  <2>3. H(h) < H(k) /\ H(h) \in Nat /\ H(k) \in Nat
    BY <1>3, <1>4, <2>1, <2>4
  <2>5. h + H(h) <= StackDepth + 1
    BY <1>3, <2>1, <2>2, <2>3, <2>4
  <2> QED BY <2>5 DEF k, h
<1>7. \A j \in 0 .. n : j \in T
  <2> HIDE DEF T
  <2> QED BY <1>2, <1>5, <1>6, Upwards
<1>8. n - 1 \in 0 .. n /\ (n - 1) + 1 = n /\ n \in 1 .. n
  BY <1>2
<1>9. n - 1 \in T
  BY <1>7, <1>8
<1>10. n + H(n) <= StackDepth + 1
  BY <1>8, <1>9
<1> QED BY <1>2, <1>3, <1>8, <1>10

-----------------------------------------------------------------------------
(* The search for a type. *)

Types    == {c.name : c \in Known} \cup {"none", "zero"}
Lens == 0 .. LenMod - 1
Cells    == [type : Types, len : Lens, val : Seq(Steps)]
Contexts == [at : Nat, len : Lens]

(* One round of the loop of findTypeInComposite, when the others are known. *)
Finds(c, find, p) ==
  CASE ~Room(p)                       -> Found("not found", off)
    [] Room(p) /\ p >= Size           -> Found("read fail", p)
    [] Room(p) /\ p < Size /\ Matches(p, c) -> Found("success", p + 1)
    [] OTHER -> IF p + 1 >= Size THEN Found("read fail", p + 1)
                ELSE find[p + Header + At(p + 1).len]

Searching(c, find) ==
  /\ \A p \in Nat : find[p] = Finds(c, find, p)
  /\ \A o \in Nat : FindInComposite(c, o) = find[o]

Searchable == file \in Seq(Cells) /\ Top \in Contexts /\ off \in Nat

LEMMA AtIs ==
  ASSUME Searchable, NEW p \in Nat, p < Size
  PROVE  At(p) \in Cells /\ At(p).len \in Nat /\ p + 1 \in 1 .. Len(file)
<1>1. Size \in Nat /\ Size = Len(file)
  BY DEF Searchable, Size
<1>2. p + 1 \in 1 .. Len(file)
  BY <1>1
<1>3. At(p) \in Cells
  BY <1>2 DEF At, Searchable
<1> QED BY <1>2, <1>3, LenAssumption DEF Cells, Lens

(* Nothing is looked at behind the composite. *)
LEMMA RoomIs ==
  ASSUME Searchable, NEW p \in Nat
  PROVE  Top.at \in Nat /\ Top.len \in Nat /\ Size \in Nat
         /\ (Room(p) <=> p + Header >= Top.at /\ p + Header < Top.at + Top.len)
BY LenAssumption DEF Searchable, Contexts, Lens, Room, Size, Header

LEMMA Searches ==
  ASSUME NEW c, Searchable
  PROVE  \E find : Searching(c, find)
<1> DEFINE b == Top.at + Top.len
           m == b + 1
           D(k) == {q \in Nat : q + 1 >= k}
           IsFind(f, k) == f = [p \in D(k) |-> Finds(c, f, p)]
           T == {k \in 1 .. m : \E f : IsFind(f, k)}
<1>1. b \in Nat /\ m \in Nat /\ m \in 1 .. m /\ 1 \in 1 .. m /\ \A p \in D(m) : ~Room(p)
  <2>1. Top.at \in Nat /\ Top.len \in Nat
    BY RoomIs
  <2>2. ASSUME NEW p \in D(m) PROVE ~Room(p)
    <3>1. p \in Nat /\ p + 1 >= m
      OBVIOUS
    <3> QED BY <2>1, <3>1, RoomIs DEF Header
  <2> QED BY <2>1, <2>2
<1>2. m \in T
  <2> DEFINE f == [p \in D(m) |-> Found("not found", off)]
  <2>1. \A p \in D(m) : Finds(c, f, p) = Found("not found", off)
    BY <1>1 DEF Finds
  <2>2. IsFind(f, m)
    BY <2>1
  <2> HIDE DEF f, IsFind
  <2> QED BY <1>1, <2>2
<1>3. ASSUME NEW k \in 1 .. m, k # m, k + 1 \in T PROVE k \in T
  <2>1. PICK f : IsFind(f, k + 1)
    BY <1>3
  <2> DEFINE g == [p \in D(k) |-> IF p = k - 1 THEN Finds(c, f, p) ELSE f[p]]
  <2>0. k \in Nat /\ k >= 1 /\ k - 1 \in Nat
    BY <1>1
  <2>2. ASSUME NEW p \in D(k) PROVE Finds(c, g, p) = Finds(c, f, p)
    <3> DEFINE q == p + Header + At(p + 1).len
    <3>1. p \in Nat /\ p + 1 >= k
      OBVIOUS
    <3>2. ~(p + 1 >= Size) => g[q] = f[q]
      <4> SUFFICES ASSUME ~(p + 1 >= Size) PROVE g[q] = f[q]
        OBVIOUS
      <4>1. p + 1 \in Nat /\ p + 1 < Size
        BY <3>1, RoomIs
      <4>2. At(p + 1).len \in Nat
        BY <4>1, AtIs
      <4>3. q \in Nat /\ q + 1 >= k /\ q # k - 1
        BY <2>0, <3>1, <4>2 DEF Header
      <4> HIDE DEF q
      <4> QED BY <4>3
    <3> HIDE DEF g
    <3> QED BY <3>2 DEF Finds
  <2>3. ASSUME NEW p \in D(k) PROVE g[p] = Finds(c, f, p)
    <3>1. CASE p = k - 1
      BY <3>1
    <3>2. CASE p # k - 1
      <4>1. p \in D(k + 1)
        BY <2>0, <3>2
      <4>2. f[p] = Finds(c, f, p)
        <5> HIDE DEF Finds, D
        <5> QED BY <2>1, <4>1
      <4> QED BY <3>2, <4>2
    <3> QED BY <3>1, <3>2
  <2>4. IsFind(g, k)
    <3>1. \A p \in D(k) : g[p] = Finds(c, g, p)
      BY <2>2, <2>3
    <3>2. g = [p \in D(k) |-> g[p]]
      OBVIOUS
    <3> HIDE DEF g, D
    <3> QED BY <3>1, <3>2
  <2> HIDE DEF g, IsFind
  <2> QED BY <2>4
<1>4. \A k \in 1 .. m : k \in T
  <2> HIDE DEF T, m
  <2> QED BY <1>1, <1>2, <1>3, Downwards
<1>5. \E f : IsFind(f, 1)
  <2> HIDE DEF IsFind
  <2> QED BY <1>1, <1>4
<1>6. D(1) = Nat
  OBVIOUS
<1>7. \E f : f = [p \in Nat |-> Finds(c, f, p)]
  <2> HIDE DEF D
  <2> QED BY <1>5, <1>6
<1> DEFINE find == CHOOSE f : f = [p \in Nat |-> Finds(c, f, p)]
<1>8. find = [p \in Nat |-> Finds(c, find, p)]
  <2> HIDE DEF Finds
  <2> QED BY <1>7
<1>9. \A o \in Nat : FindInComposite(c, o) = find[o]
  BY DEF FindInComposite, Finds
<1>10. Searching(c, find)
  <2> HIDE DEF find, Finds
  <2> QED BY <1>8, <1>9 DEF Searching
<1> QED BY <1>10

(* What the search gives. *)
Result(c, r) ==
  /\ r.res \in {"success", "not found", "read fail"}
  /\ r.res = "success" =>
       \E q \in Nat : r.off = q + 1 /\ q < Size /\ Matches(q, c)

LEMMA FoundFails ==
  ASSUME NEW c, NEW o, NEW r, r = Found("not found", o) \/ r = Found("read fail", o)
  PROVE  Result(c, r)
<1>1. CASE r = Found("not found", o)
  <2>1. r.res = "not found"
    BY <1>1 DEF Found
  <2> QED BY <2>1 DEF Result
<1>2. CASE r = Found("read fail", o)
  <2>1. r.res = "read fail"
    BY <1>2 DEF Found
  <2> QED BY <2>1 DEF Result
<1> QED BY <1>1, <1>2

LEMMA FoundIs ==
  ASSUME NEW c, Searchable, NEW o \in Nat
  PROVE  Result(c, FindInComposite(c, o))
<1>1. PICK find : Searching(c, find)
  BY Searches
<1> DEFINE b == Top.at + Top.len
           m == b + o + 1
           D(k) == {q \in Nat : q + 1 >= k}
           T == {k \in 1 .. m : \A p \in D(k) : Result(c, find[p])}
<1>2. /\ b \in Nat /\ m \in Nat /\ m \in 1 .. m /\ 1 \in 1 .. m
      /\ \A p \in D(m) : p \in Nat /\ ~Room(p)
  <2>1. Top.at \in Nat /\ Top.len \in Nat
    BY RoomIs
  <2>2. ASSUME NEW p \in D(m) PROVE ~Room(p)
    <3>1. p \in Nat /\ p + 1 >= m
      OBVIOUS
    <3> QED BY <2>1, <3>1, RoomIs DEF Header
  <2> QED BY <2>1, <2>2
<1>3. m \in T
  <2>1. \A p \in D(m) : find[p] = Found("not found", off)
    BY <1>1, <1>2 DEF Searching, Finds
  <2>2. \A p \in D(m) : Result(c, find[p])
    BY <2>1, FoundFails
  <2> QED BY <1>2, <2>2
<1>4. ASSUME NEW k \in 1 .. m, k # m, k + 1 \in T PROVE k \in T
  <2>0. k \in Nat /\ k >= 1 /\ k - 1 \in Nat
    BY <1>2
  <2>1. \A p \in D(k + 1) : Result(c, find[p])
    BY <1>4
  <2> SUFFICES ASSUME NEW p \in D(k) PROVE Result(c, find[p])
    OBVIOUS
  <2>2. p \in Nat /\ p + 1 >= k
    OBVIOUS
  <2>3. find[p] = Finds(c, find, p)
    BY <1>1, <2>2 DEF Searching
  <2>4. CASE ~Room(p)
    <3>1. find[p] = Found("not found", off)
      BY <2>3, <2>4 DEF Finds
    <3> QED BY <3>1, FoundFails
  <2>5. CASE Room(p) /\ p >= Size
    <3>1. find[p] = Found("read fail", p)
      <4>1. ~(p < Size)
        BY <2>2, <2>5, RoomIs
      <4> QED BY <2>3, <2>5, <4>1 DEF Finds
    <3> QED BY <3>1, FoundFails
  <2>6. CASE Room(p) /\ p < Size /\ Matches(p, c)
    <3>1. find[p] = Found("success", p + 1)
      <4>1. ~(p >= Size)
        BY <2>2, <2>6, RoomIs
      <4> QED BY <2>3, <2>6, <4>1 DEF Finds
    <3> QED BY <2>2, <2>6, <3>1 DEF Result, Found
  <2>7. CASE Room(p) /\ p < Size /\ ~Matches(p, c)
    <3> DEFINE q == p + Header + At(p + 1).len
    <3>1. find[p] = IF p + 1 >= Size THEN Found("read fail", p + 1) ELSE find[q]
      <4>1. ~(p >= Size)
        BY <2>2, <2>7, RoomIs
      <4> QED BY <2>3, <2>7, <4>1 DEF Finds
    <3>2. CASE p + 1 >= Size
      <4>1. find[p] = Found("read fail", p + 1)
        BY <3>1, <3>2
      <4> QED BY <4>1, FoundFails
    <3>3. CASE ~(p + 1 >= Size)
      <4>1. p + 1 \in Nat /\ p + 1 < Size
        BY <2>2, <3>3, RoomIs
      <4>2. At(p + 1).len \in Nat
        BY <4>1, AtIs
      <4>3. q \in Nat /\ q + 1 >= k + 1
        BY <2>0, <2>2, <4>2 DEF Header
      <4> HIDE DEF q
      <4> QED BY <2>1, <3>1, <3>3, <4>3
    <3> QED BY <3>2, <3>3
  <2>8. p >= Size \/ p < Size
    BY <2>2, RoomIs
  <2> QED BY <2>4, <2>5, <2>6, <2>7, <2>8
<1>5. \A k \in 1 .. m : k \in T
  <2> HIDE DEF T, m
  <2> QED BY <1>2, <1>3, <1>4, Downwards
<1>6. 1 \in T
  BY <1>2, <1>5
<1>7. o \in D(1)
  OBVIOUS
<1>8. Result(c, find[o])
  <2> HIDE DEF D
  <2> QED BY <1>6, <1>7
<1> QED BY <1>1, <1>8 DEF Searching

LEMMA FindTypeIs ==
  ASSUME NEW c, file \in Seq(Cells), off \in Nat, stack # <<>> => Top \in Contexts
  PROVE  Result(c, FindType(c))
<1>1. CASE stack # <<>>
  BY <1>1, FoundIs DEF FindType, Searchable
<1>2. CASE stack = <<>>
  <2>1. Size \in Nat
    BY DEF Size
  <2>2. CASE off >= Size
    BY <1>2, <2>2 DEF FindType, Result, Found
  <2>3. CASE ~(off >= Size) /\ Matches(off, c)
    <3>1. FindType(c) = Found("success", off + 1)
      BY <1>2, <2>3 DEF FindType
    <3>2. off < Size
      BY <2>1, <2>3
    <3> QED BY <2>3, <3>1, <3>2 DEF Result, Found
  <2>4. CASE ~(off >= Size) /\ ~Matches(off, c)
    BY <1>2, <2>4 DEF FindType, Result, Found
  <2> QED BY <2>2, <2>3, <2>4
<1> QED BY <1>1, <1>2

-----------------------------------------------------------------------------
(* The file that some writes make.                                         *)

Writings == [at : Nat, cell : Cells]

LEMMA LargestNumber ==
  ASSUME NEW M \in SUBSET Nat, M # {}, NEW b \in Nat, \A x \in M : x <= b
  PROVE  Max(M) \in M /\ \A x \in M : x <= Max(M)
<1> DEFINE N == {b - x : x \in M}
<1>1. N \in SUBSET Nat /\ N # {}
  <2>1. \A x \in M : b - x \in Nat
    OBVIOUS
  <2> QED BY <2>1
<1>2. PICK i \in N : \A j \in N : i <= j
  BY <1>1, SmallestNumber
<1>3. PICK y \in M : i = b - y
  BY <1>2
<1>4. \A x \in M : y >= x
  <2> TAKE x \in M
  <2>1. b - x \in N /\ x \in Nat /\ y \in Nat
    OBVIOUS
  <2>2. b - y <= b - x
    BY <1>2, <1>3, <2>1
  <2> QED BY <2>1, <2>2
<1>5. Max(M) \in M /\ \A x \in M : Max(M) >= x
  BY <1>3, <1>4 DEF Max
<1> QED BY <1>5

(* The writes reach no further than some offset. *)
LEMMA Reach ==
  ASSUME NEW ws \in Seq(Writings)
  PROVE  \E b \in Nat : \A i \in 1 .. Len(ws) : ws[i].at + 1 <= b
<1> DEFINE n == Len(ws)
           T == {k \in Nat : k <= n => \E b \in Nat : \A i \in 1 .. k : ws[i].at + 1 <= b}
<1>0. n \in Nat /\ \A i \in 1 .. n : ws[i] \in Writings
  OBVIOUS
<1>1. n \in Nat /\ \A i \in 1 .. n : ws[i].at \in Nat
  BY <1>0 DEF Writings
<1>2. 0 \in T
  OBVIOUS
<1>3. ASSUME NEW k \in 0 .. n, k \in T, k # n PROVE k + 1 \in T
  <2>1. PICK b \in Nat : \A i \in 1 .. k : ws[i].at + 1 <= b
    BY <1>1, <1>3
  <2> DEFINE a == ws[k + 1].at + 1
             h == IF a <= b THEN b ELSE a
  <2>2. k + 1 \in 1 .. n
    BY <1>1, <1>3
  <2>3. a \in Nat
    BY <1>1, <2>2
  <2>4. h \in Nat /\ a <= h /\ b <= h
    BY <2>3
  <2>5. \A i \in 1 .. k + 1 : ws[i].at + 1 <= h
    <3> TAKE i \in 1 .. k + 1
    <3> HIDE DEF h
    <3>1. CASE i = k + 1
      BY <2>4, <3>1
    <3>2. CASE i # k + 1
      <4>1. i \in 1 .. k /\ i \in 1 .. n
        BY <1>1, <1>3, <3>2
      <4>2. ws[i].at + 1 <= b /\ ws[i].at \in Nat
        BY <1>1, <2>1, <4>1
      <4> QED BY <2>4, <4>2
    <3> QED BY <3>1, <3>2
  <2> HIDE DEF h
  <2>6. \E x \in Nat : \A i \in 1 .. k + 1 : ws[i].at + 1 <= x
    BY <2>4, <2>5
  <2>7. k + 1 \in Nat
    OBVIOUS
  <2> QED BY <2>6, <2>7
<1>4. \A k \in 0 .. n : k \in T
  <2> HIDE DEF T, n
  <2> QED BY <1>1, <1>2, <1>3, Upwards
<1>5. n \in 0 .. n
  BY <1>1
<1>6. n \in T
  BY <1>4, <1>5
<1> QED BY <1>1, <1>6

(* Each cell of the file is the last that was written there, or zeros.     *)
LEMMA FileIs ==
  ASSUME NEW ws \in Seq(Writings)
  PROVE  LET f == FileOf(ws)
         IN  /\ f \in Seq(Cells) /\ Len(f) \in Nat
             /\ \A i \in 1 .. Len(ws) : ws[i].at < Len(f)
             /\ (Len(f) # 0 => \E i \in 1 .. Len(ws) : ws[i].at + 1 = Len(f))
             /\ \A o \in 1 .. Len(f) :
                  IF \A i \in 1 .. Len(ws) : ws[i].at + 1 # o THEN f[o] = Zeros
                  ELSE \E i \in 1 .. Len(ws) :
                         /\ ws[i].at + 1 = o /\ f[o] = ws[i].cell
                         /\ \A j \in 1 .. Len(ws) : ws[j].at + 1 = o => j <= i
<1> DEFINE f == FileOf(ws)
           m == Len(ws)
           M == {0} \cup {ws[i].at + 1 : i \in DOMAIN ws}
           to(o) == {i \in DOMAIN ws : ws[i].at = o}
<1>1. /\ m \in Nat /\ DOMAIN ws = 1 .. m
      /\ \A i \in 1 .. m : ws[i].at \in Nat /\ ws[i].cell \in Cells
  <2>1. m \in Nat /\ DOMAIN ws = 1 .. m /\ \A i \in 1 .. m : ws[i] \in Writings
    OBVIOUS
  <2> QED BY <2>1 DEF Writings
<1>2. PICK b \in Nat : \A i \in 1 .. m : ws[i].at + 1 <= b
  BY Reach
<1>3. M \in SUBSET Nat /\ M # {} /\ \A x \in M : x <= b
  BY <1>1, <1>2
<1>4. Max(M) \in M /\ Max(M) \in Nat /\ \A x \in M : x <= Max(M)
  <2> HIDE DEF M
  <2> QED BY <1>3, LargestNumber
<1> DEFINE n == Max(M)
<1>5. f = [o \in 1 .. n |-> IF to(o - 1) = {} THEN Zeros ELSE ws[Max(to(o - 1))].cell]
  BY DEF FileOf
<1>6. ASSUME NEW o \in Nat, to(o) # {}
      PROVE  Max(to(o)) \in to(o) /\ \A i \in to(o) : i <= Max(to(o))
  <2>1. to(o) \in SUBSET Nat /\ \A i \in to(o) : i <= m
    BY <1>1
  <2> HIDE DEF to
  <2> QED BY <1>1, <1>6, <2>1, LargestNumber
<1>7. Zeros \in Cells
  <2> DEFINE r == <<>>
  <2>1. r \in Seq(Steps)
    OBVIOUS
  <2> HIDE DEF r
  <2>2. [type |-> "zero", len |-> 0, val |-> r] \in Cells
    BY <2>1, LenAssumption DEF Cells, Types, Lens
  <2> QED BY <2>2 DEF Zeros, Cell, Group, r
<1>8. \A i \in 1 .. m : ws[i].at < n
  <2> TAKE i \in 1 .. m
  <2>1. ws[i].at + 1 \in M /\ ws[i].at \in Nat
    BY <1>1
  <2>2. n \in Nat
    BY <1>4
  <2> HIDE DEF M
  <2>3. ws[i].at + 1 <= n
    BY <1>4, <2>1
  <2> HIDE DEF n
  <2> QED BY <2>1, <2>2, <2>3
<1>9. n # 0 => \E i \in 1 .. m : ws[i].at + 1 = n
  BY <1>1, <1>4
<1>10. n \in Nat
  BY <1>4
<1> HIDE DEF f, n, M
<1>11. ASSUME NEW o \in 1 .. n
       PROVE  /\ f[o] \in Cells
              /\ IF \A i \in 1 .. m : ws[i].at + 1 # o THEN f[o] = Zeros
                 ELSE \E i \in 1 .. m :
                        /\ ws[i].at + 1 = o /\ f[o] = ws[i].cell
                        /\ \A j \in 1 .. m : ws[j].at + 1 = o => j <= i
  <2> DEFINE p == o - 1
  <2>1. p \in Nat /\ p + 1 = o
    BY <1>10
  <2>2. f[o] = IF to(p) = {} THEN Zeros ELSE ws[Max(to(p))].cell
    BY <1>5
  <2>3. \A i \in 1 .. m : i \in to(p) <=> ws[i].at + 1 = o
    BY <1>1, <2>1
  <2>4. to(p) \subseteq 1 .. m
    BY <1>1
  <2> HIDE DEF to, p
  <2>5. CASE to(p) = {}
    BY <1>7, <2>2, <2>3, <2>5
  <2>6. CASE to(p) # {}
    <3> DEFINE k == Max(to(p))
    <3>1. k \in to(p) /\ \A i \in to(p) : i <= k
      BY <1>6, <2>1, <2>6
    <3>2. f[o] = ws[k].cell
      BY <2>2, <2>6
    <3> HIDE DEF k
    <3>3. k \in 1 .. m /\ ws[k].at + 1 = o /\ \A j \in 1 .. m : ws[j].at + 1 = o => j <= k
      BY <2>3, <2>4, <3>1
    <3> QED BY <1>1, <3>2, <3>3
  <2> QED BY <2>5, <2>6
<1>12. Len(f) = n /\ f \in Seq(Cells)
  <2> HIDE DEF to
  <2>1. f \in [1 .. n -> Cells]
    BY <1>5, <1>11
  <2> QED BY <1>10, <2>1
<1> QED BY <1>8, <1>9, <1>10, <1>11, <1>12 DEF f

-----------------------------------------------------------------------------
(* The types.                                                              *)

Busy == phase \in {"save", "load"}

Typed ==
  /\ saved \in Configs \cup {Nothing} /\ phase \in Phases
  /\ upgraded \in BOOLEAN /\ crashed \in BOOLEAN
  /\ off \in Nat /\ writes \in Seq(Writings) /\ file \in Seq(Cells)
  /\ stack \in Seq(Contexts) /\ Len(stack) \in 0 .. StackDepth
  /\ open = IF Busy THEN 1 ELSE 0
  /\ Busy => saved \in Configs /\ Doing(todo, stack, Running(upgraded))
  /\ phase = "save" => ~upgraded
  /\ phase # "save" => writes = <<>>

LEMMA TypedInit ==
  ASSUME Init
  PROVE  Typed
<1> DEFINE none == <<>>
<1>1. /\ writes = none /\ file = none /\ stack = none
      /\ none \in Seq(Writings) /\ none \in Seq(Cells) /\ none \in Seq(Contexts) /\ Len(none) = 0
  BY DEF Init
<1> HIDE DEF none
<1>2. Len(stack) \in 0 .. StackDepth
  BY <1>1, LenAssumption
<1>3. phase = "started" /\ ~Busy /\ phase \in Phases
  BY DEF Init, Busy, Phases
<1>4. saved \in Configs \cup {Nothing} /\ upgraded \in BOOLEAN /\ crashed \in BOOLEAN /\ off \in Nat /\ open = 0
  BY DEF Init
<1>5. writes = <<>>
  BY DEF Init
<1> QED BY <1>1, <1>2, <1>3, <1>4, <1>5 DEF Typed

(* A composite is opened, and another context is on the stack.             *)
LEMMA DoingOpens ==
  ASSUME NEW schema \in {Schema, NewSchema}, NEW s, NEW st \in Seq(Contexts), Doing(s, st, schema),
         s # <<>>, Head(s).do = "item", Head(s).comp.desc # Simple, NEW x \in Contexts,
         NEW new \in {<<>>, NextItem(Head(s))}
  PROVE  LET t == Head(s)
         IN  Doing(Components(schema, t.comp, PathOf(t))
                     \o <<Task("OBJECT", t.comp, t.path, 0)>> \o (new \o Tail(s)),
                   Append(st, x), schema)
<1> DEFINE t == Head(s)
           u == Components(schema, t.comp, PathOf(t)) \o <<Task("OBJECT", t.comp, t.path, 0)>>
<1>0. Append(st, x) \in Seq(Contexts) /\ Len(Append(st, x)) = Len(st) + 1 /\ Len(st) \in Nat
  OBVIOUS
<1>1. CASE \E ch : Walk(schema, ch, s) /\ Len(st) = Len(ch)
  <2>1. PICK ch : Walk(schema, ch, s) /\ Len(st) = Len(ch)
    BY <1>1
  <2> DEFINE p == Below(ch[Len(ch)], t.comp, t.idx)
             rest == new \o Tail(s)
  <2>2. /\ t.path = ch[Len(ch)] /\ t.comp \in Parts(schema, ch[Len(ch)]) /\ t.comp # Base
        /\ t.comp.max \in Nat \ {0} /\ t.idx \in 0 .. t.comp.max - 1
    BY <2>1, WalkHead
  <2>3. t.idx \in Nat /\ PathOf(t) = p
    BY <2>2 DEF PathOf
  <2>4. Walk(schema, ch, rest)
    <3>1. CASE new = <<>>
      <4>1. Flat(schema, ch, new)
        BY <3>1, NoTask DEF Flat
      <4> QED BY <2>1, <4>1, WalkReplaces
    <3>2. CASE new = NextItem(t)
      <4>1. Flat(schema, ch, new)
        BY <2>1, <3>2, NextIs
      <4> QED BY <2>1, <4>1, WalkReplaces
    <3> QED BY <3>1, <3>2
  <2> HIDE DEF t, rest
  <2>5. Walk(schema, Append(ch, p),
             Components(schema, t.comp, p) \o <<Task("OBJECT", t.comp, ch[Len(ch)], 0)>> \o rest)
    BY <2>2, <2>3, <2>4, WalkOpens DEF t
  <2>6. Walk(schema, Append(ch, p), u \o rest)
    BY <2>2, <2>3, <2>5
  <2>7. Len(Append(ch, p)) = Len(ch) + 1
    <3>1. ch \in Seq(Seq(Steps))
      BY <2>1, ChainIs DEF Walk
    <3> HIDE DEF p
    <3> QED BY <3>1
  <2>8. Doing(u \o rest, Append(st, x), schema)
    <3> HIDE DEF u, p
    <3> QED BY <1>0, <2>1, <2>6, <2>7 DEF Doing
  <2> QED BY <2>8 DEF t, rest
<1>2. CASE t = Task("item", Base, <<>>, 0) /\ Tail(s) = <<>> /\ st = <<>>
  <2>1. t.comp = Base /\ t.path = <<>> /\ t.idx = 0
    BY <1>2 DEF Task
  <2>2. NextItem(t) = <<>>
    <3>1. t.comp.max = 1
      BY <2>1, BaseIs
    <3> QED BY <2>1, <3>1 DEF NextItem
  <2>3. new \o Tail(s) = <<>>
    <3>1. <<>> \o <<>> = <<>>
      BY NoTask
    <3> QED BY <1>2, <2>2, <3>1
  <2>4. PathOf(t) = <<>>
    BY <2>1 DEF PathOf
  <2>5. Walk(schema, <<<<>>>>, u)
    BY <2>1, <2>4, WalkStarts
  <2>6. u \o (new \o Tail(s)) = u
    BY <2>3, <2>5, NoTask DEF Walk
  <2>7. Len(Append(st, x)) = 1 /\ Len(<<<<>>>>) = 1
    BY <1>2
  <2>8. Doing(u, Append(st, x), schema)
    <3> HIDE DEF u
    <3> QED BY <2>5, <2>7 DEF Doing
  <2> QED BY <2>6, <2>8
<1> QED BY <1>1, <1>2, DoingBase

LEMMA DoingCloses ==
  ASSUME NEW schema \in {Schema, NewSchema}, NEW s, NEW st \in Seq(Contexts), Doing(s, st, schema),
         s # <<>>, Head(s).do = "OBJECT"
  PROVE  /\ st # <<>> /\ Front(st) \in Seq(Contexts) /\ Last(st) \in Contexts
         /\ Len(Front(st)) = Len(st) - 1 /\ Doing(Tail(s), Front(st), schema)
<1>1. PICK ch : Walk(schema, ch, s) /\ Len(st) = Len(ch)
  BY DoingItem
<1>2. Len(ch) \in Nat \ {0} /\ Chain(schema, ch)
  BY <1>1, ChainIs DEF Walk
<1>3. st # <<>>
  BY <1>1, <1>2
<1>4. /\ Front(st) \in Seq(Contexts) /\ Last(st) \in Contexts /\ Len(Front(st)) = Len(st) - 1
  BY <1>3, FrontIs
<1>5. CASE Len(ch) = 1
  <2>1. Tail(s) = <<>>
    BY <1>1, <1>5, WalkCloses
  <2>2. Front(st) = <<>>
    <3> DEFINE f == Front(st)
    <3>1. f \in Seq(Contexts) /\ Len(f) = 0
      BY <1>1, <1>4, <1>5
    <3> HIDE DEF f
    <3>2. f = <<>>
      BY <3>1
    <3> QED BY <3>2 DEF f
  <2> QED BY <1>3, <1>4, <2>1, <2>2 DEF Doing
<1>6. CASE Len(ch) # 1
  <2>1. Walk(schema, Front(ch), Tail(s))
    BY <1>1, <1>6, WalkCloses
  <2>2. Len(Front(ch)) = Len(ch) - 1
    BY <1>2, <1>6, ChainShrinks
  <2> QED BY <1>1, <1>3, <1>4, <2>1, <2>2 DEF Doing
<1> QED BY <1>5, <1>6

(* The stack has a context for every composite that is open.               *)
LEMMA DoingDepth ==
  ASSUME NEW schema \in {Schema, NewSchema}, NEW s, NEW st, Doing(s, st, schema)
  PROVE  Len(st) \in 0 .. StackDepth
<1>1. CASE st = <<>>
  <2>1. Len(st) = 0
    BY <1>1
  <2> QED BY <2>1, LenAssumption
<1>2. CASE \E ch : Walk(schema, ch, s) /\ Len(st) = Len(ch)
  <2>1. PICK ch : Walk(schema, ch, s) /\ Len(st) = Len(ch)
    BY <1>2
  <2>2. Len(ch) \in 1 .. StackDepth
    BY <2>1, WalkDepth DEF Walk
  <2> QED BY <2>1, <2>2, LenAssumption
<1> QED BY <1>1, <1>2 DEF Doing

LEMMA DoingStack ==
  ASSUME NEW schema, NEW s, NEW st \in Seq(Contexts), NEW up \in Seq(Contexts),
         Len(up) = Len(st), Doing(s, st, schema)
  PROVE  Doing(s, up, schema)
<1>1. st = <<>> => up = <<>>
  <2>1. st = <<>> => Len(st) = 0
    OBVIOUS
  <2> QED BY <2>1
<1> QED BY <1>1 DEF Doing

LEMMA AddedLength ==
  ASSUME NEW st \in Seq(Contexts), NEW n \in Nat
  PROVE  /\ AddLength(st, n) \in Seq(Contexts) /\ Len(AddLength(st, n)) = Len(st)
         /\ \A j \in 1 .. Len(st) :
              AddLength(st, n)[j] =
                IF j = Len(st) THEN [at |-> st[j].at, len |-> (st[j].len + n + Header) % LenMod]
                ELSE st[j]
<1>1. CASE st = <<>>
  BY <1>1 DEF AddLength
<1>2. CASE st # <<>>
  <2> DEFINE m == Len(st)
             r == [at |-> st[m].at, len |-> (st[m].len + n + Header) % LenMod]
  <2>1. m \in Nat /\ m \in 1 .. m /\ DOMAIN st = 1 .. m /\ \A j \in 1 .. m : st[j] \in Contexts
    BY <1>2
  <2>2. st[m].at \in Nat /\ st[m].len \in Nat /\ st[m] = [at |-> st[m].at, len |-> st[m].len]
    BY <2>1, LenAssumption DEF Contexts, Lens
  <2>3. (st[m].len + n + Header) % LenMod \in Lens
    <3>1. st[m].len + n + Header \in Nat
      BY <2>2 DEF Header
    <3> QED BY <3>1, LenAssumption DEF Lens
  <2>4. r \in Contexts
    BY <2>2, <2>3 DEF Contexts
  <2>5. AddLength(st, n) = [st EXCEPT ![m] = [st[m] EXCEPT !.len = (st[m].len + n + Header) % LenMod]]
    BY <1>2 DEF AddLength
  <2>6. [st[m] EXCEPT !.len = (st[m].len + n + Header) % LenMod] = r
    BY <2>2
  <2> HIDE DEF r
  <2>7. AddLength(st, n) = [st EXCEPT ![m] = r]
    BY <2>5, <2>6
  <2>8. /\ AddLength(st, n) \in Seq(Contexts) /\ Len(AddLength(st, n)) = m
        /\ \A j \in 1 .. m : AddLength(st, n)[j] = IF j = m THEN r ELSE st[j]
    BY <2>1, <2>4, <2>7
  <2> QED BY <2>8 DEF r
<1> QED BY <1>1, <1>2

(* The cells of a save.                                                    *)
LEMMA CellsAre ==
  /\ \A c \in Known : TypeCell(c) \in Cells
  /\ \A n \in Lens : LengthCell(n) \in Cells
  /\ \A p \in Seq(Steps) : ValueCell(p) \in Cells
<1> DEFINE r == <<>>
<1>1. r \in Seq(Steps) /\ Group = r
  BY DEF Group
<1> HIDE DEF r
<1>2. 0 \in Lens
  BY LenAssumption DEF Lens
<1>3. ASSUME NEW c \in Known PROVE TypeCell(c) \in Cells
  <2>1. c.name \in Types
    BY DEF Types
  <2> QED BY <1>1, <1>2, <2>1 DEF TypeCell, Cell, Cells
<1>4. "none" \in Types
  BY DEF Types
<1>5. \A n \in Lens : LengthCell(n) \in Cells
  BY <1>1, <1>4 DEF LengthCell, Cell, Cells
<1>6. \A p \in Seq(Steps) : ValueCell(p) \in Cells
  BY <1>2, <1>4 DEF ValueCell, Cell, Cells
<1> QED BY <1>3, <1>5, <1>6

W(o, c) == [at |-> o, cell |-> c]

LEMMA WritesAre ==
  ASSUME NEW o \in Nat, NEW cells \in Seq(Cells)
  PROVE  /\ Writes(o, cells) \in Seq(Writings) /\ Len(Writes(o, cells)) = Len(cells)
         /\ \A i \in 1 .. Len(cells) : Writes(o, cells)[i] = [at |-> o + i - 1, cell |-> cells[i]]
<1> DEFINE n == Len(cells)
<1>1. n \in Nat /\ DOMAIN cells = 1 .. n /\ \A i \in 1 .. n : cells[i] \in Cells
  OBVIOUS
<1>2. Writes(o, cells) = [i \in 1 .. n |-> [at |-> o + i - 1, cell |-> cells[i]]]
  BY <1>1 DEF Writes
<1>3. \A i \in 1 .. n : [at |-> o + i - 1, cell |-> cells[i]] \in Writings
  <2>1. \A i \in 1 .. n : o + i - 1 \in Nat
    BY <1>1
  <2> QED BY <1>1, <2>1 DEF Writings
<1> HIDE DEF n
<1> QED BY <1>1, <1>2, <1>3 DEF n

HeaderWritten(ws, o, c, n) ==
  /\ ws \in Seq(Writings) /\ Len(ws) = 2
  /\ ws[1] = W(o, TypeCell(c)) /\ ws[2] = W(o + 1, LengthCell(n))

LEMMA HeaderWrites ==
  ASSUME NEW o \in Nat, NEW c \in Known, NEW n \in Lens
  PROVE  HeaderWritten(Writes(o, <<TypeCell(c), LengthCell(n)>>), o, c, n)
<1> DEFINE x == TypeCell(c)
           y == LengthCell(n)
           cells == <<x, y>>
<1>1. x \in Cells /\ y \in Cells
  BY CellsAre
<1> HIDE DEF x, y
<1>2. cells \in Seq(Cells) /\ Len(cells) = 2 /\ cells[1] = x /\ cells[2] = y
  BY <1>1
<1> HIDE DEF cells
<1>3. /\ Writes(o, cells) \in Seq(Writings) /\ Len(Writes(o, cells)) = 2
      /\ Writes(o, cells)[1] = [at |-> o + 1 - 1, cell |-> x]
      /\ Writes(o, cells)[2] = [at |-> o + 2 - 1, cell |-> y]
  BY <1>2, WritesAre
<1>4. o + 1 - 1 = o /\ o + 2 - 1 = o + 1
  OBVIOUS
<1> QED BY <1>3, <1>4 DEF HeaderWritten, cells, x, y, W

(* The cells of a simple item. *)
ItemCells(c, n, p) == <<TypeCell(c), LengthCell(n)>> \o [i \in 1 .. n |-> ValueCell(p)]

ItemWritten(ws, o, c, n, p) ==
  /\ ws \in Seq(Writings) /\ Len(ws) = n + 2
  /\ ws[1] = W(o, TypeCell(c)) /\ ws[2] = W(o + 1, LengthCell(n))
  /\ \A i \in 3 .. n + 2 : ws[i] = W(o + i - 1, ValueCell(p))

LEMMA ItemWrites ==
  ASSUME NEW o \in Nat, NEW c \in Known, NEW n \in Nat, n \in Lens, NEW p \in Seq(Steps),
         NEW ws, ws = Writes(o, ItemCells(c, n, p))
  PROVE  ItemWritten(ws, o, c, n, p)
<1> DEFINE x == TypeCell(c)
           y == LengthCell(n)
           v == ValueCell(p)
           head == <<x, y>>
           value == [i \in 1 .. n |-> v]
           cells == head \o value
<1>1. x \in Cells /\ y \in Cells /\ v \in Cells /\ n \in Nat
  BY CellsAre, LenAssumption DEF Lens
<1> HIDE DEF x, y, v
<1>2. /\ head \in Seq(Cells) /\ Len(head) = 2 /\ head[1] = x /\ head[2] = y
      /\ value \in Seq(Cells) /\ Len(value) = n /\ \A i \in 1 .. n : value[i] = v
  BY <1>1
<1> HIDE DEF head, value
<1>3. /\ cells \in Seq(Cells) /\ Len(cells) = 2 + n
      /\ \A i \in 1 .. 2 + n : cells[i] = IF i <= 2 THEN head[i] ELSE value[i - 2]
  <2>1. /\ cells \in Seq(Cells) /\ Len(cells) = Len(head) + Len(value)
        /\ \A i \in 1 .. Len(head) + Len(value) :
             cells[i] = IF i <= Len(head) THEN head[i] ELSE value[i - Len(head)]
    <3>1. head \in Seq(Cells) /\ value \in Seq(Cells)
      BY <1>2
    <3> QED BY ONLY <3>1, JoinedIs
  <2> HIDE DEF cells
  <2> QED BY <1>2, <2>1
<1>4. /\ cells \in Seq(Cells) /\ Len(cells) = n + 2 /\ cells[1] = x /\ cells[2] = y
      /\ \A i \in 3 .. n + 2 : cells[i] = v
  <2>1. cells[1] = x /\ cells[2] = y
    BY <1>1, <1>2, <1>3
  <2>2. ASSUME NEW i \in 3 .. n + 2 PROVE cells[i] = v
    <3>1. i \in 1 .. 2 + n /\ ~(i <= 2) /\ i - 2 \in 1 .. n
      BY <1>1
    <3> QED BY <1>2, <1>3, <3>1
  <2> QED BY <1>1, <1>3, <2>1, <2>2
<1> HIDE DEF cells
<1>5. /\ Writes(o, cells) \in Seq(Writings) /\ Len(Writes(o, cells)) = n + 2
      /\ \A i \in 1 .. n + 2 : Writes(o, cells)[i] = [at |-> o + i - 1, cell |-> cells[i]]
  BY <1>4, WritesAre
<1>6. o + 1 - 1 = o /\ o + 2 - 1 = o + 1 /\ 1 \in 1 .. n + 2 /\ 2 \in 1 .. n + 2
      /\ \A i \in 3 .. n + 2 : i \in 1 .. n + 2
  BY <1>1
<1>7. /\ Writes(o, cells)[1] = [at |-> o, cell |-> x] /\ Writes(o, cells)[2] = [at |-> o + 1, cell |-> y]
      /\ \A i \in 3 .. n + 2 : Writes(o, cells)[i] = [at |-> o + i - 1, cell |-> v]
  BY <1>4, <1>5, <1>6
<1>8. ws = Writes(o, cells)
  BY DEF ItemCells, cells, head, value, x, y, v
<1> QED BY <1>5, <1>7, <1>8 DEF ItemWritten, x, y, v, W

LEMMA Empties ==
  /\ <<>> \in Seq(Writings) /\ <<>> \in Seq(Cells) /\ <<>> \in Seq(Contexts)
  /\ <<>> \in Seq(Steps) /\ Len(<<>>) = 0
OBVIOUS

LEMMA SaveStartTyped ==
  ASSUME Typed, SaveStart
  PROVE  Typed'
<1> DEFINE t == Task("item", Base, <<>>, 0)
           none == <<>>
<1>1. /\ ~Busy /\ phase' = "save" /\ ~upgraded /\ UNCHANGED <<upgraded, writes>>
      /\ file' = none /\ off' = 0 /\ stack' = none /\ todo' = <<t>> /\ open' = open + 1 /\ ~crashed'
  BY DEF SaveStart, Idle, Busy
<1>2. saved' \in Configs
  BY AgainAssumption DEF SaveStart
<1>3. Busy' /\ phase' \in Phases
  BY <1>1 DEF Busy, Phases
<1>4. Doing(todo', stack', Running(upgraded'))
  BY <1>1 DEF Doing
<1>5. none \in Seq(Cells) /\ none \in Seq(Contexts) /\ Len(none) = 0
  BY Empties
<1> HIDE DEF none, t
<1>6. Len(stack') \in 0 .. StackDepth
  BY <1>1, <1>5, LenAssumption
<1>7. open' = 1
  BY <1>1 DEF Typed
<1>8. crashed' \in BOOLEAN /\ upgraded' \in BOOLEAN /\ writes' \in Seq(Writings)
  BY <1>1 DEF Typed, SaveStart
<1> QED BY <1>1, <1>2, <1>3, <1>4, <1>5, <1>6, <1>7, <1>8 DEF Typed

LEMMA SaveStays ==
  ASSUME Typed, phase = "save", SaveFrame, off' \in Nat, writes' \in Seq(Writings),
         stack' \in Seq(Contexts), Doing(todo', stack', Schema)
  PROVE  Typed'
<1>1. /\ UNCHANGED <<saved, phase, upgraded, file, open, crashed>>
  BY DEF SaveFrame
<1>2. Busy' = Busy /\ phase' = "save" /\ Running(upgraded') = Schema
  BY <1>1 DEF Busy, Running, Typed
<1>3. Len(stack') \in 0 .. StackDepth
  BY DoingDepth
<1> QED BY <1>1, <1>2, <1>3 DEF Typed

LEMMA SavingIs ==
  ASSUME Typed, phase = "save"
  PROVE  Doing(todo, stack, Schema) /\ saved \in Configs /\ stack \in Seq(Contexts)
         /\ Schema \in {Schema, NewSchema}
BY DEF Typed, Busy, Running

LEMMA SaveAggrTyped ==
  ASSUME Typed, SaveAggr
  PROVE  Typed'
<1> DEFINE t == Head(todo)
           new == IF Skipped(saved, t.comp, t.path) THEN <<>> ELSE SaveItems(saved, t.comp, t.path)
<1>1. /\ phase = "save" /\ todo # <<>> /\ t.do = "aggr" /\ todo' = new \o Rest
      /\ UNCHANGED <<writes, off, stack>> /\ SaveFrame
  BY DEF SaveAggr, Saving
<1>2. PICK ch : Walk(Schema, ch, todo) /\ Len(stack) = Len(ch)
  BY <1>1, SavingIs, DoingItem
<1>3. /\ t.path = ch[Len(ch)] /\ t.comp \in Parts(Schema, ch[Len(ch)])
      /\ t.comp.max \in Nat \ {0} /\ Chain(Schema, ch)
  BY <1>1, <1>2, WalkHead DEF Walk
<1>4. Flat(Schema, ch, new)
  <2>1. CASE new = <<>>
    <3> HIDE DEF new
    <3> QED BY <2>1, NoTask DEF Flat
  <2>2. CASE new = SaveItems(saved, t.comp, t.path)
    <3> DEFINE m == Cardinality(Present(saved, t.path, t.comp))
    <3>1. m \in 0 .. t.comp.max
      BY <1>3, PresentIs
    <3>2. new = [k \in 1 .. m |-> Task("item", t.comp, t.path, k - 1)]
      BY <2>2 DEF SaveItems
    <3> HIDE DEF new, m, t
    <3>3. ASSUME NEW k \in 1 .. m
          PROVE  LET x == Task("item", t.comp, t.path, k - 1)
                 IN  x \in Tasks /\ x.do # "OBJECT" /\ LevelOf(x) = Len(ch) /\ Fits(Schema, ch, x)
      <4> DEFINE i == k - 1
      <4>1. i \in 0 .. t.comp.max - 1
        BY <1>3, <3>1
      <4> HIDE DEF i
      <4>2. LET x == Task("item", t.comp, t.path, i)
            IN  x \in Tasks /\ x.do # "OBJECT" /\ LevelOf(x) = Len(ch) /\ Fits(Schema, ch, x)
        BY <1>3, <4>1, FitsTask
      <4> QED BY <4>2 DEF i
    <3>4. new \in Seq(Tasks) /\ Len(new) = m
          /\ \A k \in 1 .. m : new[k] = Task("item", t.comp, t.path, k - 1)
      <4>1. \A k \in 1 .. m : Task("item", t.comp, t.path, k - 1) \in Tasks
        BY <3>3
      <4>2. m \in Nat
        BY <1>3, <3>1
      <4> QED BY <3>2, <4>1, <4>2
    <3> QED BY <3>3, <3>4 DEF Flat
  <2> QED BY <2>1, <2>2
<1> HIDE DEF new
<1>5. Doing(new \o Tail(todo), stack, Schema)
  BY <1>1, <1>2, <1>4, DoingReplaces, SavingIs
<1> QED BY <1>1, <1>5, SaveStays DEF Typed, Rest

LEMMA SaveSimpleTyped ==
  ASSUME Typed, SaveSimple
  PROVE  Typed'
<1> DEFINE t == Head(todo)
           len == LenOf[t.comp.name]
           value == [i \in 1 .. len |-> ValueCell(PathOf(t))]
           new == Writes(off, <<TypeCell(t.comp), LengthCell(len)>> \o value)
<1>1. /\ phase = "save" /\ todo # <<>> /\ t.do = "item" /\ t.comp.desc = Simple /\ SaveFrame
      /\ writes' = writes \o new /\ off' = off + Header + len
      /\ stack' = AddLength(stack, len) /\ todo' = Tail(todo)
  BY DEF SaveSimple, Saving, Rest
<1> HIDE DEF new, value, len
<1>2. PICK ch : Walk(Schema, ch, todo) /\ Len(stack) = Len(ch)
  <2>1. t.comp # Base
    BY <1>1, BaseIs
  <2> QED BY <1>1, <2>1, SavingIs, DoingBase
<1>3. /\ t.path = ch[Len(ch)] /\ t.comp \in Parts(Schema, ch[Len(ch)]) /\ t.comp # Base
      /\ ch[Len(ch)] \in Seq(Steps) /\ CompOf(ch[Len(ch)]).desc \in DOMAIN Schema
      /\ t.comp.max \in Nat \ {0} /\ t.idx \in 0 .. t.comp.max - 1
  BY <1>1, <1>2, WalkHead
<1>4. t.comp \in Known /\ t.comp \in All(Schema) /\ t.idx \in Nat
  BY <1>3, PartsAre DEF Parts
<1>5. PathOf(t) \in Seq(Steps)
  BY <1>3, <1>4, BelowIs DEF PathOf
<1>6. len \in Lens /\ len \in Nat
  <2>1. t.comp.name \in SimpleNames
    BY <1>1, <1>4 DEF SimpleNames
  <2> QED BY <2>1, LenAssumption DEF Lens, len
<1>7. new \in Seq(Writings)
  <2> DEFINE c == t.comp
             p == PathOf(t)
             n == len
  <2>1. c \in Known /\ p \in Seq(Steps) /\ n \in Nat /\ n \in Lens /\ off \in Nat
    BY <1>4, <1>5, <1>6 DEF Typed
  <2> HIDE DEF c, p, n
  <2>2. new = Writes(off, ItemCells(c, n, p))
    BY DEF ItemCells, c, p, n, new, value, len
  <2>3. ItemWritten(new, off, c, n, p)
    BY ONLY <2>1, <2>2, ItemWrites
  <2> QED BY ONLY <2>3 DEF ItemWritten
<1>8. Doing(Tail(todo), stack, Schema)
  BY <1>1, SavingIs, DoingDone
<1> HIDE DEF t
<1>9. stack' \in Seq(Contexts) /\ Len(stack') = Len(stack)
  BY <1>1, <1>6, SavingIs, AddedLength
<1>10. Doing(todo', stack', Schema)
  BY <1>1, <1>8, <1>9, SavingIs, DoingStack
<1>11. writes' \in Seq(Writings)
  BY <1>1, <1>7, JoinedIs DEF Typed
<1>12. off' \in Nat
  BY <1>1, <1>6 DEF Typed, Header
<1> QED BY <1>1, <1>9, <1>10, <1>11, <1>12, SaveStays

LEMMA SaveCompositeTyped ==
  ASSUME Typed, SaveComposite
  PROVE  Typed'
<1> DEFINE t == Head(todo)
           x == Context(off, 0)
           u == Components(Schema, t.comp, PathOf(t)) \o <<Task("OBJECT", t.comp, t.path, 0)>>
<1>1. /\ phase = "save" /\ todo # <<>> /\ t.do = "item" /\ t.comp.desc # Simple /\ SaveFrame
      /\ UNCHANGED writes
      /\ \/ stack' = Append(stack, x) /\ off' = off + Header /\ todo' = u \o Tail(todo)
         \/ todo' = Tail(todo) /\ UNCHANGED <<off, stack>>
  BY DEF SaveComposite, Saving, Rest
<1>2. writes' \in Seq(Writings) /\ off' \in Nat
  BY <1>1 DEF Typed, Header
<1>3. CASE stack' = Append(stack, x) /\ todo' = u \o Tail(todo)
  <2>1. x \in Contexts
    BY LenAssumption DEF Context, Contexts, Lens, Typed
  <2>2. Doing(u \o (<<>> \o Tail(todo)), Append(stack, x), Schema)
    <3> HIDE DEF x
    <3> QED BY <1>1, <2>1, SavingIs, DoingOpens
  <2>3. <<>> \o Tail(todo) = Tail(todo)
    <3>1. CASE Tail(todo) = <<>>
      BY <3>1, NoTask
    <3>2. CASE \E ch : Walk(Schema, ch, todo)
      BY <3>2, WalkHead, NoTask
    <3> QED BY <1>1, <3>1, <3>2, SavingIs, DoingBase
  <2>4. stack' \in Seq(Contexts)
    <3> HIDE DEF x
    <3>1. stack \in Seq(Contexts)
      BY <1>1, SavingIs
    <3> QED BY <1>3, <2>1, <3>1
  <2> HIDE DEF x, u
  <2> QED BY <1>1, <1>2, <1>3, <2>2, <2>3, <2>4, SaveStays
<1>4. CASE todo' = Tail(todo) /\ UNCHANGED stack
  <2>1. Doing(Tail(todo), stack, Schema)
    BY <1>1, SavingIs, DoingDone
  <2> QED BY <1>1, <1>2, <1>4, <2>1, SavingIs, SaveStays
<1> QED BY <1>1, <1>3, <1>4

LEMMA SaveCloseTyped ==
  ASSUME Typed, SaveClose
  PROVE  Typed'
<1> DEFINE t == Head(todo)
           new == Writes(Top.at, <<TypeCell(t.comp), LengthCell(Top.len)>>)
<1>1. /\ phase = "save" /\ todo # <<>> /\ t.do = "OBJECT" /\ SaveFrame
      /\ writes' = writes \o new /\ stack' = AddLength(Front(stack), Top.len)
      /\ off' = (IF stack' = <<>> THEN Top.at + Header ELSE off) /\ todo' = Tail(todo)
  BY DEF SaveClose, Saving, Rest
<1>2. /\ stack # <<>> /\ Front(stack) \in Seq(Contexts) /\ Top \in Contexts
      /\ Doing(Tail(todo), Front(stack), Schema)
  BY <1>1, SavingIs, DoingCloses DEF Top
<1>3. Top.at \in Nat /\ Top.len \in Lens /\ Top.len \in Nat
  BY <1>2, LenAssumption DEF Contexts, Lens
<1>4. t.comp \in Known
  <2>1. \E ch : Walk(Schema, ch, todo)
    BY <1>1, SavingIs, DoingItem
  <2> QED BY <1>1, <2>1, WalkHead
<1>5. new \in Seq(Writings)
  <2> HIDE DEF t
  <2> QED BY <1>3, <1>4, HeaderWrites DEF HeaderWritten
<1> HIDE DEF new, t
<1>6. stack' \in Seq(Contexts) /\ Len(stack') = Len(Front(stack))
  BY <1>1, <1>2, <1>3, AddedLength
<1>7. Doing(todo', stack', Schema)
  BY <1>1, <1>2, <1>6, DoingStack
<1>8. writes' \in Seq(Writings) /\ off' \in Nat
  <2>1. writes \in Seq(Writings) /\ off \in Nat
    BY DEF Typed
  <2> QED BY <1>1, <1>3, <1>5, <2>1, JoinedIs DEF Header
<1> QED BY <1>1, <1>6, <1>7, <1>8, SaveStays

LEMMA SaveEndTyped ==
  ASSUME Typed, SaveEnd
  PROVE  Typed'
<1>1. /\ Busy /\ ~Busy' /\ phase' = "saved" /\ phase' \in Phases
      /\ file' = FileOf(writes) /\ writes' = <<>> /\ open' = open - 1
      /\ UNCHANGED <<saved, upgraded, off, stack, crashed>>
  BY DEF SaveEnd, Busy, Phases
<1>2. FileOf(writes) \in Seq(Cells)
  BY FileIs DEF Typed
<1>3. open' = 0
  BY <1>1 DEF Typed
<1> QED BY <1>1, <1>2, <1>3, Empties DEF Typed

LEMMA CrashTyped ==
  ASSUME Typed, Crash
  PROVE  Typed'
<1>1. /\ ~Busy' /\ phase' = "started" /\ phase' \in Phases
      /\ writes' = <<>> /\ off' = 0 /\ stack' = <<>> /\ open' = 0 /\ UNCHANGED saved
      /\ upgraded' \in {upgraded, TRUE}
      /\ \/ UNCHANGED <<file, crashed>>
         \/ crashed' = TRUE /\ \E n \in 0 .. Len(writes) : file' = FileOf(SubSeq(writes, 1, n))
  BY DEF Crash, Busy, Phases
<1>2. file' \in Seq(Cells) /\ crashed' \in BOOLEAN
  <2>1. ASSUME NEW n \in 0 .. Len(writes) PROVE FileOf(SubSeq(writes, 1, n)) \in Seq(Cells)
    <3>1. writes \in Seq(Writings)
      BY DEF Typed
    <3>2. SubSeq(writes, 1, n) \in Seq(Writings)
      BY <3>1
    <3> QED BY <3>2, FileIs
  <2> QED BY <1>1, <2>1 DEF Typed
<1>3. upgraded' \in BOOLEAN
  BY <1>1 DEF Typed
<1>4. Len(stack') \in 0 .. StackDepth
  BY <1>1, Empties, LenAssumption
<1> QED BY <1>1, <1>2, <1>3, <1>4, Empties DEF Typed

LEMMA LoadStartTyped ==
  ASSUME Typed, LoadStart
  PROVE  Typed'
<1> DEFINE t == Task("item", Base, <<>>, 0)
           none == <<>>
<1>1. /\ ~Busy /\ phase' = "load" /\ saved # Nothing
      /\ UNCHANGED <<saved, upgraded, writes, file, crashed>>
      /\ off' = 0 /\ stack' = none /\ todo' = <<t>> /\ open' = open + 1
  BY DEF LoadStart, Idle, Busy
<1>2. Busy' /\ phase' \in Phases /\ phase # "save"
  BY <1>1 DEF Busy, Phases
<1>3. Doing(todo', stack', Running(upgraded'))
  BY <1>1 DEF Doing
<1>4. none \in Seq(Contexts) /\ Len(none) = 0
  BY Empties
<1> HIDE DEF none, t
<1>5. Len(stack') \in 0 .. StackDepth
  BY <1>1, <1>4, LenAssumption
<1>6. open' = 1 /\ saved' \in Configs /\ writes = <<>>
  BY <1>1, <1>2 DEF Typed
<1> QED BY <1>1, <1>2, <1>3, <1>4, <1>5, <1>6 DEF Typed

LEMMA LoadUnopenedTyped ==
  ASSUME Typed, LoadUnopened
  PROVE  Typed'
<1>1. ~Busy /\ ~Busy' /\ phase' = "undefined" /\ phase' \in Phases /\ phase # "save"
      /\ UNCHANGED <<saved, upgraded, writes, file, off, stack, todo, ram, open, crashed>>
  BY DEF LoadUnopened, Idle, Busy, Phases
<1> QED BY <1>1 DEF Typed

LEMMA LoadStays ==
  ASSUME Typed, phase = "load", LoadFrame, off' \in Nat, stack' \in Seq(Contexts),
         Doing(todo', stack', Running(upgraded))
  PROVE  Typed'
<1>1. UNCHANGED <<saved, phase, upgraded, writes, file, open, crashed>>
  BY DEF LoadFrame
<1>2. Busy' = Busy /\ Busy /\ phase' = "load"
  BY <1>1 DEF Busy
<1>3. Running(upgraded) \in {Schema, NewSchema}
  BY RunningIs DEF Typed
<1>4. Len(stack') \in 0 .. StackDepth
  BY <1>3, DoingDepth
<1>5. Running(upgraded') = Running(upgraded)
  BY <1>1
<1> QED BY <1>1, <1>2, <1>4, <1>5 DEF Typed

LEMMA LoadFails ==
  ASSUME Typed, phase = "load", NEW outcome \in {"failed", "starved"}, Fail(outcome)
  PROVE  Typed'
<1>1. Busy /\ ~Busy' /\ phase' \in Phases /\ phase' # "save" /\ open' = open - 1
      /\ UNCHANGED <<saved, upgraded, writes, file, off, stack, crashed>>
  BY DEF Fail, Busy, Phases
<1>2. open' = 0 /\ writes = <<>>
  BY <1>1 DEF Typed
<1> QED BY <1>1, <1>2 DEF Typed

LEMMA LoadingIs ==
  ASSUME Typed, phase = "load"
  PROVE  /\ Doing(todo, stack, Running(upgraded)) /\ saved \in Configs
         /\ stack \in Seq(Contexts) /\ Running(upgraded) \in {Schema, NewSchema}
         /\ off \in Nat /\ file \in Seq(Cells) /\ (stack # <<>> => Top \in Contexts)
<1>1. Running(upgraded) \in {Schema, NewSchema}
  BY RunningIs DEF Typed
<1>2. stack \in Seq(Contexts)
  BY DEF Typed
<1>3. stack # <<>> => Top \in Contexts
  BY <1>2, FrontIs DEF Top
<1> QED BY <1>1, <1>2, <1>3 DEF Typed, Busy

LEMMA LoadAggrTyped ==
  ASSUME Typed, LoadAggr
  PROVE  Typed'
<1> DEFINE t == Head(todo)
           one == Task("item", t.comp, t.path, 0)
           new == IF t.comp.name \in Volatile THEN <<>> ELSE <<one>>
           schema == Running(upgraded)
<1>1. /\ phase = "load" /\ todo # <<>> /\ t.do = "aggr" /\ todo' = new \o Tail(todo)
      /\ LoadFrame /\ UNCHANGED <<off, stack, ram>>
  BY DEF LoadAggr, Loading, Rest
<1>0. schema \in {Schema, NewSchema} /\ Doing(todo, stack, schema) /\ t.do # "item"
  BY <1>1, LoadingIs
<1>2. PICK ch : Walk(schema, ch, todo) /\ Len(stack) = Len(ch)
  <2> HIDE DEF schema
  <2> QED BY <1>0, <1>1, DoingItem
<1>3. /\ t.path = ch[Len(ch)] /\ t.comp \in Parts(schema, ch[Len(ch)])
      /\ t.comp.max \in Nat \ {0} /\ Chain(schema, ch) /\ schema \in {Schema, NewSchema}
  BY <1>1, <1>2, WalkHead, LoadingIs DEF Walk
<1> HIDE DEF t, schema
<1>4. 0 \in 0 .. t.comp.max - 1
  BY <1>3
<1>5. one \in Tasks /\ one.do # "OBJECT" /\ LevelOf(one) = Len(ch) /\ Fits(schema, ch, one)
  BY <1>3, <1>4, FitsTask
<1> HIDE DEF one
<1>6. Flat(schema, ch, new)
  <2>1. CASE new = <<>>
    <3> HIDE DEF new
    <3> QED BY <2>1, NoTask DEF Flat
  <2>2. CASE new = <<one>>
    <3> HIDE DEF new
    <3> QED BY <1>5, <2>2, OneTask DEF Flat
  <2> QED BY <2>1, <2>2
<1> HIDE DEF new
<1>7. Doing(new \o Tail(todo), stack, schema)
  BY <1>1, <1>2, <1>3, <1>6, DoingReplaces DEF t
<1> QED BY <1>1, <1>7, LoadingIs, LoadStays DEF schema

LEMMA LoadNotFoundTyped ==
  ASSUME Typed, LoadNotFound
  PROVE  Typed'
<1> DEFINE t == Head(todo)
<1>1. phase = "load" /\ todo # <<>> /\ t.do = "item"
  BY DEF LoadNotFound, Loading
<1>2. \/ todo' = Tail(todo) /\ LoadFrame /\ UNCHANGED <<off, stack, ram>>
      \/ Fail("failed")
  <2> DEFINE r == FindType(t.comp)
  <2>1. r.res \in {"success", "not found", "read fail"}
    BY <1>1, LoadingIs, FindTypeIs DEF Result
  <2>2. CASE r.res = "success"
    BY <2>2 DEF LoadNotFound
  <2>3. CASE r.res = "read fail"
    BY <2>3 DEF LoadNotFound
  <2>4. CASE r.res = "not found" /\ t.comp = Base
    BY <2>4 DEF LoadNotFound
  <2>5. CASE r.res = "not found" /\ t.comp # Base
    BY <2>5 DEF LoadNotFound, Rest
  <2> QED BY <2>1, <2>2, <2>3, <2>4, <2>5
<1>3. CASE todo' = Tail(todo) /\ LoadFrame /\ UNCHANGED <<off, stack, ram>>
  <2>1. Doing(Tail(todo), stack, Running(upgraded))
    BY <1>1, LoadingIs, DoingDone
  <2> QED BY <1>1, <1>3, <2>1, LoadingIs, LoadStays
<1>4. CASE Fail("failed")
  BY <1>1, <1>4, LoadFails
<1> QED BY <1>2, <1>3, <1>4

LEMMA FoundOff ==
  ASSUME Typed, phase = "load", NEW c, FindType(c).res = "success"
  PROVE  \E q \in Nat : FindType(c).off = q + 1 /\ q < Size /\ Matches(q, c)
<1>1. Result(c, FindType(c))
  BY LoadingIs, FindTypeIs
<1> QED BY <1>1 DEF Result

LEMMA LoadSimpleTyped ==
  ASSUME Typed, LoadSimple
  PROVE  Typed'
<1> DEFINE t == Head(todo)
           found == FindType(t.comp)
           len == LenOf[t.comp.name]
           schema == Running(upgraded)
<1>1. phase = "load" /\ todo # <<>> /\ t.do = "item" /\ t.comp.desc = Simple /\ found.res = "success"
  BY DEF LoadSimple, Loading
<1>2. CASE Fail("failed")
  BY <1>1, <1>2, LoadFails
<1>3. CASE off' = found.off + 1 + len /\ todo' = NextItem(t) \o Tail(todo) /\ LoadFrame /\ UNCHANGED stack
  <2>1. schema \in {Schema, NewSchema}
    BY <1>1, LoadingIs
  <2>2. PICK ch : Walk(schema, ch, todo) /\ Len(stack) = Len(ch)
    <3>1. t.comp # Base
      BY <1>1, BaseIs
    <3> QED BY <1>1, <3>1, LoadingIs, DoingBase
  <2>3. Doing(NextItem(t) \o Tail(todo), stack, schema)
    <3>1. Flat(schema, ch, NextItem(t))
      BY <1>1, <2>1, <2>2, NextIs
    <3> HIDE DEF schema
    <3> QED BY <1>1, <2>1, <2>2, <3>1, DoingReplaces
  <2>4. len \in Nat
    <3>1. t.comp \in Parts(schema, ch[Len(ch)]) /\ CompOf(ch[Len(ch)]).desc \in DOMAIN schema
      BY <1>1, <2>1, <2>2, WalkHead
    <3>2. t.comp \in All(schema)
      BY <2>1, <3>1, PartsAre DEF Parts
    <3>3. t.comp.name \in SimpleNames
      BY <1>1, <2>1, <3>2 DEF SimpleNames
    <3> QED BY <3>3, LenAssumption
  <2>5. off' \in Nat
    <3>1. found.off \in Nat
      <4>1. PICK q \in Nat : found.off = q + 1
        BY <1>1, FoundOff
      <4> QED BY <4>1
    <3> QED BY <1>3, <2>4, <3>1
  <2> HIDE DEF len, found
  <2> QED BY <1>1, <1>3, <2>3, <2>5, LoadingIs, LoadStays
<1>4. Fail("failed") \/ (off' = found.off + 1 + len /\ todo' = NextItem(t) \o Tail(todo) /\ LoadFrame /\ UNCHANGED stack)
  BY DEF LoadSimple, Rest
<1> QED BY <1>2, <1>3, <1>4

LEMMA LoadCompositeTyped ==
  ASSUME Typed, LoadComposite
  PROVE  Typed'
<1> DEFINE t == Head(todo)
           found == FindType(t.comp)
           schema == Running(upgraded)
           c == Components(schema, t.comp, PathOf(t))
           o == <<Task("OBJECT", t.comp, t.path, 0)>>
           next == NextItem(t)
           rest == Tail(todo)
<1>1. /\ phase = "load" /\ todo # <<>> /\ t.do = "item" /\ t.comp.desc # Simple
      /\ found.res = "success" /\ off' = found.off + 1 /\ LoadFrame
      /\ todo' = c \o o \o next \o rest
  BY DEF LoadComposite, Loading, Rest
<1>2. PICK len \in IF found.off < Size THEN {At(found.off).len} ELSE 0 .. LenMod - 1 :
        stack' = Append(stack, Context((found.off + 1) % LenMod, len))
  BY DEF LoadComposite
<1> DEFINE x == Context((found.off + 1) % LenMod, len)
<1>3. found.off \in Nat
  <2>1. PICK q \in Nat : found.off = q + 1
    BY <1>1, FoundOff
  <2> QED BY <2>1
<1>4. x \in Contexts
  <2>1. (found.off + 1) % LenMod \in Nat
    BY <1>3, LenAssumption
  <2>2. len \in Lens
    <3>1. CASE found.off < Size
      <4> DEFINE p == found.off
      <4>1. file \in Seq(Cells) /\ p \in Nat /\ p < Len(file)
        BY <1>1, <1>3, <3>1, LoadingIs DEF Size
      <4> HIDE DEF p
      <4>2. p + 1 \in 1 .. Len(file)
        BY <4>1
      <4>3. At(p) \in Cells
        BY <4>1, <4>2 DEF At
      <4>4. At(p).len \in Lens
        BY <4>3 DEF Cells
      <4> QED BY <1>2, <3>1, <4>4 DEF p
    <3>2. CASE ~(found.off < Size)
      BY <1>2, <3>2 DEF Lens
    <3> QED BY <3>1, <3>2
  <2> QED BY <2>1, <2>2 DEF Context, Contexts
<1>5. schema \in {Schema, NewSchema} /\ Doing(todo, stack, schema) /\ stack \in Seq(Contexts)
  BY <1>1, LoadingIs
<1> HIDE DEF x, found, schema
<1>6. Doing(c \o o \o (next \o rest), Append(stack, x), schema)
  BY <1>1, <1>4, <1>5, DoingOpens
<1>7. (c \o o) \o next \o rest = (c \o o) \o (next \o rest)
  <2>1. CASE \E ch : Walk(schema, ch, todo)
    <3>1. PICK ch : Walk(schema, ch, todo)
      BY <2>1
    <3>2. next \in Seq(Tasks) /\ rest \in Seq(Tasks)
      <4>1. Flat(schema, ch, next)
        BY <1>1, <1>5, <3>1, NextIs
      <4> QED BY <1>5, <3>1, <4>1, WalkHead DEF Flat
    <3>3. c \in Seq(Tasks) /\ o \in Seq(Tasks)
      <4> DEFINE n == Len(ch)
      <4>1. /\ t.path = ch[n] /\ t.comp \in Parts(schema, ch[n]) /\ t.comp # Base
            /\ t.comp.desc \in DOMAIN schema /\ t.comp.max \in Nat \ {0} /\ t.idx \in 0 .. t.comp.max - 1
            /\ Chain(schema, ch) /\ ch[n] \in Seq(Steps) /\ CompOf(ch[n]).desc \in DOMAIN schema
        BY <1>1, <1>5, <3>1, WalkHead DEF Walk
      <4>2. t.comp \in Known /\ t.idx \in Nat /\ PathOf(t) = Below(ch[n], t.comp, t.idx)
        BY <1>5, <4>1, PartsAre DEF Parts, PathOf
      <4> DEFINE up == Append(ch, Below(ch[n], t.comp, t.idx))
      <4>3. Chain(schema, up) /\ up[Len(up)] = Below(ch[n], t.comp, t.idx)
            /\ CompOf(Below(ch[n], t.comp, t.idx)) = t.comp
        <5> HIDE DEF t
        <5> DEFINE e == t.comp
                   k == t.idx
        <5>2. e \in Parts(schema, ch[Len(ch)]) /\ e.desc \in DOMAIN schema /\ k \in Nat
          BY <4>1, <4>2
        <5> HIDE DEF e, k
        <5>3. LET p == Below(ch[Len(ch)], e, k)
                  v == Append(ch, p)
              IN  Chain(schema, v) /\ Len(v) = Len(ch) + 1 /\ v[Len(ch) + 1] = p /\ CompOf(p) = e
          <6>1. Chain(schema, ch) /\ schema \in {Schema, NewSchema}
            BY <1>5, <4>1
          <6> QED BY ONLY <5>2, <6>1, ChainGrows
        <5>1. Chain(schema, up) /\ Len(up) = n + 1 /\ up[n + 1] = Below(ch[n], t.comp, t.idx)
              /\ CompOf(Below(ch[n], t.comp, t.idx)) = t.comp
          BY <5>3 DEF e, k
        <5> HIDE DEF up
        <5> QED BY <5>1
      <4> HIDE DEF up, t
      <4>4. c \in Seq(Tasks)
        BY <1>5, <4>2, <4>3, ComponentsAre DEF Flat
      <4>5. Task("OBJECT", t.comp, t.path, 0) \in Tasks
        BY <4>1, <4>2, TaskIs
      <4> QED BY <4>4, <4>5, OneTask
    <3> HIDE DEF c, o, next, rest
    <3>4. c \o o \in Seq(Tasks)
      BY ONLY <3>3, JoinedIs
    <3> DEFINE u == c \o o
    <3> HIDE DEF u
    <3>5. u \in Seq(Tasks)
      BY <3>4 DEF u
    <3>6. u \o next \o rest = u \o (next \o rest)
      BY ONLY <3>2, <3>5, ConcatAssociative
    <3> QED BY <3>6 DEF u
  <2>2. CASE t.comp = Base /\ rest = <<>> /\ t.idx = 0 /\ t.path = <<>>
    <3>1. next = <<>>
      BY <2>2, BaseIs DEF NextItem
    <3>2. PathOf(t) = <<>>
      BY <2>2 DEF PathOf
    <3>3. Walk(schema, <<<<>>>>, Components(schema, Base, <<>>) \o <<Task("OBJECT", Base, t.path, 0)>>)
      BY <1>5, <2>2, WalkStarts
    <3>4. c \o o \in Seq(Tasks)
      BY <2>2, <3>2, <3>3 DEF Walk
    <3>5. (c \o o) \o <<>> = c \o o /\ <<>> \o <<>> = <<>>
      BY <3>4, NoTask
    <3> QED BY <2>2, <3>1, <3>5
  <2> QED BY <1>1, <1>5, <2>1, <2>2, DoingBase
<1>8. Append(stack, x) \in Seq(Contexts) /\ stack' = Append(stack, x)
  BY <1>2, <1>4, <1>5 DEF x
<1>9. off' \in Nat
  BY <1>1, <1>3
<1>10. Doing(todo', stack', schema)
  BY <1>1, <1>6, <1>7, <1>8
<1> QED BY <1>1, <1>8, <1>9, <1>10, LoadStays DEF schema

LEMMA LoadCloseTyped ==
  ASSUME Typed, LoadClose
  PROVE  Typed'
<1>1. /\ phase = "load" /\ todo # <<>> /\ Head(todo).do = "OBJECT" /\ LoadFrame
      /\ off' = Top.at + Top.len /\ stack' = Front(stack) /\ todo' = Tail(todo)
  BY DEF LoadClose, Loading, Rest
<1>2. /\ Front(stack) \in Seq(Contexts) /\ Top \in Contexts
      /\ Doing(Tail(todo), Front(stack), Running(upgraded))
  BY <1>1, LoadingIs, DoingCloses DEF Top
<1>3. off' \in Nat
  BY <1>1, <1>2, LenAssumption DEF Contexts, Lens
<1> QED BY <1>1, <1>2, <1>3, LoadStays

LEMMA LoadNoMemoryTyped ==
  ASSUME Typed, LoadNoMemory
  PROVE  Typed'
<1>1. phase = "load" /\ Fail("starved")
  BY DEF LoadNoMemory, Loading
<1> QED BY <1>1, LoadFails

LEMMA LoadEndTyped ==
  ASSUME Typed, LoadEnd
  PROVE  Typed'
<1>1. /\ Busy /\ ~Busy' /\ phase = "load" /\ phase' \in Phases /\ phase' # "save" /\ open' = open - 1
      /\ UNCHANGED <<saved, upgraded, writes, file, off, stack, crashed>>
  BY DEF LoadEnd, Busy, Phases
<1>2. open' = 0 /\ writes = <<>>
  BY <1>1 DEF Typed
<1> QED BY <1>1, <1>2 DEF Typed

LEMMA StepTyped ==
  ASSUME Typed, [Next]_vars
  PROVE  Typed'
<1>1. CASE UNCHANGED vars
  BY <1>1 DEF vars, Typed, Busy
<1>2. CASE SaveStep
  BY <1>2, SaveAggrTyped, SaveSimpleTyped, SaveCompositeTyped, SaveCloseTyped, SaveEndTyped DEF SaveStep
<1>3. CASE LoadStep
  BY <1>3, LoadAggrTyped, LoadNotFoundTyped, LoadSimpleTyped, LoadCompositeTyped, LoadNoMemoryTyped,
     LoadCloseTyped, LoadEndTyped DEF LoadStep
<1> QED BY <1>1, <1>2, <1>3, SaveStartTyped, LoadStartTyped, LoadUnopenedTyped, CrashTyped DEF Next

(* At any moment, for any configurations, schemas and lengths, whatever a  *)
(* crash made of the file: every variable has its type, no save and no     *)
(* load opens more composites than the stacks have room for, and the file  *)
(* is open at most once.                                                   *)
THEOREM TlvTyped == Spec => []TypeOK
<1>1. Typed => TypeOK
  <2> SUFFICES ASSUME Typed PROVE TypeOK
    OBVIOUS
  <2>1. \A i \in DOMAIN stack : stack[i] \in [at : Nat, len : 0 .. LenMod - 1]
    <3>1. \A i \in DOMAIN stack : stack[i] \in Contexts
      BY DEF Typed
    <3> QED BY <3>1 DEF Contexts, Lens
  <2> QED BY <2>1 DEF TypeOK, Typed
<1> QED BY <1>1, TypedInit, StepTyped, PTL DEF Spec

-----------------------------------------------------------------------------
(* Where the items are.  An item has its header, then what is in it.       *)

(* Some items fill the space from a to b, in the order of the schema.      *)
Tile(X, at, end, a, b) ==
  /\ a <= b
  /\ \A q \in X : a <= at[q] /\ at[q] + Header <= end[q] /\ end[q] <= b
  /\ \A q, r \in X : Before(q, r) => end[q] <= at[r]
  /\ a = b \/ \E q \in X : at[q] = a
  /\ \A q \in X : end[q] = b \/ \E r \in X : at[r] = end[q]

(* An item and what is in it were written.                                 *)
Item(cells, K, at, end, q) ==
  /\ W(at[q], TypeCell(CompOf(q))) \in cells
  /\ W(at[q] + 1, LengthCell(end[q] - at[q] - Header)) \in cells
  /\ IF CompOf(q).desc = Simple
     THEN /\ end[q] = at[q] + Header + LenOf[CompOf(q).name]
          /\ \A o \in at[q] + Header .. end[q] - 1 : W(o, ValueCell(q)) \in cells
     ELSE Tile(Kin(K, q), at, end, at[q] + Header, end[q])

Layout(cells, K, at, end) == \A q \in K : Item(cells, K, at, end, q)

LEMMA TileNone ==
  ASSUME NEW at, NEW end, NEW a \in Nat
  PROVE  Tile({}, at, end, a, a)
BY DEF Tile

LEMMA TileSame ==
  ASSUME NEW X, NEW at, NEW end, NEW at2, NEW end2, NEW a, NEW b, Tile(X, at, end, a, b),
         \A q \in X : at2[q] = at[q] /\ end2[q] = end[q]
  PROVE  Tile(X, at2, end2, a, b)
<1>1. \A q \in X : a <= at2[q] /\ at2[q] + Header <= end2[q] /\ end2[q] <= b
  BY DEF Tile
<1>2. \A q, r \in X : Before(q, r) => end2[q] <= at2[r]
  BY DEF Tile
<1>3. a = b \/ \E q \in X : at2[q] = a
  BY DEF Tile
<1>4. \A q \in X : end2[q] = b \/ \E r \in X : at2[r] = end2[q]
  BY DEF Tile
<1> QED BY <1>1, <1>2, <1>3, <1>4 DEF Tile

LEMMA TileGrows ==
  ASSUME NEW X \in SUBSET Seq(Steps), NEW at \in Offsets, NEW end \in Offsets,
         NEW at2 \in Offsets, NEW end2 \in Offsets, NEW a \in Nat, NEW b \in Nat, NEW h \in Nat,
         Tile(X, at, end, a, b), \A q \in X : at2[q] = at[q] /\ end2[q] = end[q],
         NEW p \in Seq(Steps), at2[p] = b, end2[p] = h, b + Header <= h,
         ~Before(p, p), \A q \in X : ~Before(p, q)
  PROVE  Tile(X \cup {p}, at2, end2, a, h)
<1>1. Tile(X, at2, end2, a, b)
  BY TileSame
<1>2. \A q \in Seq(Steps) : at2[q] \in Nat /\ end2[q] \in Nat
  BY DEF Offsets
<1>3. b + 2 <= h /\ a <= b /\ b <= h /\ a <= h
  BY <1>1 DEF Tile, Header
<1>4. \A q \in X : a <= at2[q] /\ at2[q] + Header <= end2[q] /\ end2[q] <= b /\ end2[q] <= h
  BY <1>1, <1>2, <1>3 DEF Tile
<1>5. \A q \in X \cup {p} : a <= at2[q] /\ at2[q] + Header <= end2[q] /\ end2[q] <= h
  BY <1>3, <1>4
<1>6. \A q, r \in X \cup {p} : Before(q, r) => end2[q] <= at2[r]
  <2> TAKE q, r \in X \cup {p}
  <2>1. CASE q \in X /\ r \in X
    BY <1>1, <2>1 DEF Tile
  <2>2. CASE q \in X /\ r = p
    BY <1>4, <2>2
  <2>3. CASE q = p
    BY <2>3
  <2> QED BY <2>1, <2>2, <2>3
<1>7. a = h \/ \E q \in X \cup {p} : at2[q] = a
  <2>1. CASE a = b
    BY <2>1
  <2>2. CASE \E q \in X : at2[q] = a
    BY <2>2
  <2> QED BY <1>1, <2>1, <2>2 DEF Tile
<1>8. \A q \in X \cup {p} : end2[q] = h \/ \E r \in X \cup {p} : at2[r] = end2[q]
  <2> TAKE q \in X \cup {p}
  <2>1. CASE q = p
    BY <2>1
  <2>2. CASE q \in X /\ end2[q] = b
    BY <2>2
  <2>3. CASE q \in X /\ \E r \in X : at2[r] = end2[q]
    BY <2>3
  <2> QED BY <1>1, <2>1, <2>2, <2>3 DEF Tile
<1> QED BY <1>3, <1>5, <1>6, <1>7, <1>8 DEF Tile

LEMMA ItemSame ==
  ASSUME NEW cells, NEW more, cells \subseteq more, NEW K, NEW L, NEW q, Kin(L, q) = Kin(K, q),
         NEW at, NEW end, NEW at2, NEW end2, Item(cells, K, at, end, q),
         \A r \in Kin(K, q) \cup {q} : at2[r] = at[r] /\ end2[r] = end[r]
  PROVE  Item(more, L, at2, end2, q)
<1>1. at2[q] = at[q] /\ end2[q] = end[q]
  OBVIOUS
<1>2. CASE CompOf(q).desc = Simple
  BY <1>1, <1>2 DEF Item
<1>3. CASE CompOf(q).desc # Simple
  <2>1. Tile(Kin(K, q), at, end, at[q] + Header, end[q])
    BY <1>3 DEF Item
  <2>2. Tile(Kin(L, q), at2, end2, at2[q] + Header, end2[q])
    BY <1>1, <2>1, TileSame
  <2> QED BY <1>1, <1>3, <2>2 DEF Item
<1> QED BY <1>2, <1>3

-----------------------------------------------------------------------------
(* What a save has written.                                                *)

(* Where the innermost item that is open, at depth j, goes on.             *)
Cur(ch, at, j, o) == IF j = Len(ch) THEN o ELSE at[ch[j + 1]]

Levels(ch, D, at, end, st, o) ==
  /\ Len(st) = Len(ch)
  /\ \A j \in 1 .. Len(ch) :
       /\ Tile(Kin(D, ch[j]), at, end, at[ch[j]] + Header, Cur(ch, at, j, o))
       /\ st[j] = Context(at[ch[j]], Cur(ch, at, j, o) - (at[ch[j]] + Header))
       /\ at[ch[j]] + Header <= o
       /\ \A i \in 1 .. j - 1 : at[ch[i]] + Header <= at[ch[j]]

Once(ws) == \A i, j \in 1 .. Len(ws) : ws[i].at = ws[j].at => i = j
Made(ws) == {ws[i] : i \in 1 .. Len(ws)}

(* Nothing was written where the headers of the open items go.             *)
Laid(ws, D, at, end, ch, o) ==
  /\ at \in Offsets /\ end \in Offsets /\ at[<<>>] = 0
  /\ Once(ws) /\ Layout(Made(ws), D, at, end)
  /\ \A w \in Made(ws) : w.at < o /\ \A p \in Open(ch) : w.at # at[p] /\ w.at # at[p] + 1

LEMMA OffsetIs ==
  ASSUME NEW at \in Offsets, NEW q \in Seq(Steps), NEW o \in Nat
  PROVE  LET at2 == [at EXCEPT ![q] = o]
         IN  /\ at2 \in Offsets /\ at2[q] = o /\ at[q] \in Nat
             /\ \A r \in Seq(Steps) : at[r] \in Nat /\ (r # q => at2[r] = at[r])
BY DEF Offsets

LEMMA WritesJoin ==
  ASSUME NEW ws \in Seq(Writings), NEW new \in Seq(Writings), Once(ws), Once(new),
         \A i \in 1 .. Len(ws), j \in 1 .. Len(new) : ws[i].at # new[j].at
  PROVE  /\ Once(ws \o new) /\ Made(ws \o new) = Made(ws) \cup Made(new)
         /\ ws \o new \in Seq(Writings) /\ Len(ws \o new) = Len(ws) + Len(new)
<1> DEFINE all == ws \o new
           m == Len(ws)
           n == Len(new)
<1>1. /\ all \in Seq(Writings) /\ Len(all) = m + n /\ m \in Nat /\ n \in Nat
      /\ \A i \in 1 .. m + n : all[i] = IF i <= m THEN ws[i] ELSE new[i - m]
  BY ONLY ws \in Seq(Writings), new \in Seq(Writings), JoinedIs
<1> HIDE DEF all, m, n
<1>2. \A i \in 1 .. m : i \in 1 .. m + n /\ all[i] = ws[i]
  BY <1>1
<1>3. \A i \in 1 .. n : m + i \in 1 .. m + n /\ all[m + i] = new[i]
  <2> TAKE i \in 1 .. n
  <2>1. m + i \in 1 .. m + n /\ ~(m + i <= m) /\ (m + i) - m = i
    BY <1>1
  <2> QED BY <1>1, <2>1
<1>4. \A i \in 1 .. m + n : i \in 1 .. m \/ \E j \in 1 .. n : i = m + j
  <2> TAKE i \in 1 .. m + n
  <2>1. CASE i > m
    <3>1. i - m \in 1 .. n /\ i = m + (i - m)
      BY <1>1, <2>1
    <3> QED BY <3>1
  <2>2. CASE ~(i > m)
    BY <1>1, <2>2
  <2> QED BY <2>1, <2>2
<1>5. Made(all) = Made(ws) \cup Made(new)
  <2>1. ASSUME NEW r \in Made(all) PROVE r \in Made(ws) \cup Made(new)
    <3>1. PICK i \in 1 .. m + n : r = all[i]
      BY <1>1 DEF Made
    <3>2. CASE i \in 1 .. m
      BY <1>2, <3>1, <3>2 DEF Made, m
    <3>3. CASE \E j \in 1 .. n : i = m + j
      BY <1>3, <3>1, <3>3 DEF Made, n
    <3> QED BY <1>4, <3>2, <3>3
  <2>2. ASSUME NEW r \in Made(ws) PROVE r \in Made(all)
    <3>1. PICK i \in 1 .. m : r = ws[i]
      BY DEF Made, m
    <3> QED BY <1>1, <1>2, <3>1 DEF Made
  <2>3. ASSUME NEW r \in Made(new) PROVE r \in Made(all)
    <3>1. PICK i \in 1 .. n : r = new[i]
      BY DEF Made, n
    <3> QED BY <1>1, <1>3, <3>1 DEF Made
  <2> QED BY <2>1, <2>2, <2>3
<1>6. Once(all)
  <2> SUFFICES ASSUME NEW i \in 1 .. m + n, NEW j \in 1 .. m + n, all[i].at = all[j].at
               PROVE  i = j
    BY <1>1 DEF Once
  <2>1. CASE i \in 1 .. m /\ j \in 1 .. m
    BY <1>2, <2>1 DEF Once, m
  <2>2. CASE i \in 1 .. m /\ \E h \in 1 .. n : j = m + h
    BY <1>2, <1>3, <2>2 DEF m, n
  <2>3. CASE j \in 1 .. m /\ \E h \in 1 .. n : i = m + h
    BY <1>2, <1>3, <2>3 DEF m, n
  <2>4. CASE (\E h \in 1 .. n : i = m + h) /\ (\E h \in 1 .. n : j = m + h)
    <3>1. PICK h \in 1 .. n : i = m + h
      BY <2>4
    <3>2. PICK g \in 1 .. n : j = m + g
      BY <2>4
    <3>3. new[h].at = new[g].at
      BY <1>3, <3>1, <3>2
    <3> QED BY <3>1, <3>2, <3>3 DEF Once, n
  <2> QED BY <1>4, <2>1, <2>2, <2>3, <2>4
<1> QED BY <1>1, <1>5, <1>6 DEF all, m, n

(* The items that were saved stay where they are.                          *)
LEMMA LayoutGrows ==
  ASSUME NEW cells, NEW more, cells \subseteq more, NEW D, NEW q, q # <<>> => Front(q) \notin D,
         NEW at, NEW end, NEW at2, NEW end2, Layout(cells, D, at, end),
         \A r \in D : at2[r] = at[r] /\ end2[r] = end[r],
         Item(more, D \cup {q}, at2, end2, q)
  PROVE  Layout(more, D \cup {q}, at2, end2)
<1> SUFFICES ASSUME NEW p \in D PROVE Item(more, D \cup {q}, at2, end2, p)
  BY DEF Layout
<1>1. Kin(D \cup {q}, p) = Kin(D, p)
  BY DEF Kin
<1>2. \A r \in Kin(D, p) \cup {p} : at2[r] = at[r] /\ end2[r] = end[r]
  BY DEF Kin
<1>3. Item(cells, D, at, end, p)
  BY DEF Layout
<1> QED BY <1>1, <1>2, <1>3, ItemSame

(* A length that fits is not wrapped. *)
LEMMA Unwrapped ==
  ASSUME NEW n \in Nat \ {0}, NEW x \in 0 .. n - 1
  PROVE  x % n = x
BY ONLY n \in Nat \ {0}, x \in 0 .. n - 1

LEMMA LevelsSimple ==
  ASSUME NEW ch, Chain(Schema, ch), NEW D \in SUBSET Seq(Steps), NEW at \in Offsets, NEW end \in Offsets,
         NEW st \in Seq(Contexts), NEW o \in Nat, Levels(ch, D, at, end, st, o),
         NEW q \in Seq(Steps), q # <<>>, Front(q) = ch[Len(ch)], q \notin D, q \notin Open(ch),
         ~Before(q, q), \A r \in D : Front(r) = Front(q) => ~Before(q, r),
         NEW n \in Nat, NEW h \in Nat, h = o + Header + n, h < LenMod
  PROVE  Levels(ch, D \cup {q}, [at EXCEPT ![q] = o], [end EXCEPT ![q] = h], AddLength(st, n), h)
<1> DEFINE at2  == [at EXCEPT ![q] = o]
           end2 == [end EXCEPT ![q] = h]
           st2  == AddLength(st, n)
           E    == D \cup {q}
           m    == Len(ch)
<1>1. /\ at2 \in Offsets /\ at2[q] = o /\ \A r \in Seq(Steps) : at[r] \in Nat /\ (r # q => at2[r] = at[r])
      /\ end2 \in Offsets /\ end2[q] = h /\ \A r \in Seq(Steps) : end[r] \in Nat /\ (r # q => end2[r] = end[r])
  BY OffsetIs
<1>2. \A j \in 1 .. m : ch[j] \in Seq(Steps) /\ ch[j] # q /\ ch[j] \in Open(ch)
  <2>1. \A j \in 1 .. m : ch[j] \in Seq(Steps)
    BY ChainIs
  <2> QED BY <2>1 DEF Open
<1>3. m \in Nat \ {0} /\ m \in 1 .. m /\ Len(st) = m /\ m = Len(ch)
  BY LastOpen DEF Levels
<1>4. /\ st2 \in Seq(Contexts) /\ Len(st2) = m
      /\ \A j \in 1 .. m : st2[j] = IF j = m THEN [at |-> st[j].at, len |-> (st[j].len + n + Header) % LenMod]
                                    ELSE st[j]
  <2> HIDE DEF m
  <2> QED BY <1>3, AddedLength
<1>5. \A r \in D : at2[r] = at[r] /\ end2[r] = end[r]
  BY <1>1
<1>6. \A j \in 1 .. m : at2[ch[j]] = at[ch[j]]
  BY <1>1, <1>2
<1>7. \A j \in 1 .. m : j # m => j + 1 \in 1 .. m
  BY <1>3
<1>8. \A j \in 1 .. m : j # m => Cur(ch, at2, j, h) = Cur(ch, at, j, o)
  <2> TAKE j \in 1 .. m
  <2> HAVE j # m
  <2>1. j + 1 \in 1 .. m
    BY <1>7
  <2> HIDE DEF at2
  <2> QED BY <1>3, <1>6, <2>1 DEF Cur
<1>9. \A j \in 1 .. m : /\ Tile(Kin(D, ch[j]), at, end, at[ch[j]] + Header, Cur(ch, at, j, o))
                        /\ st[j] = Context(at[ch[j]], Cur(ch, at, j, o) - (at[ch[j]] + Header))
                        /\ at[ch[j]] + Header <= o
                        /\ \A i \in 1 .. j - 1 : at[ch[i]] + Header <= at[ch[j]]
  BY DEF Levels
<1> HIDE DEF at2, end2, st2, m
<1>10. ASSUME NEW j \in 1 .. m, j # m
       PROVE  /\ Tile(Kin(E, ch[j]), at2, end2, at2[ch[j]] + Header, Cur(ch, at2, j, h))
              /\ st2[j] = Context(at2[ch[j]], Cur(ch, at2, j, h) - (at2[ch[j]] + Header))
  <2>1. ch[j] # ch[m]
    <3>1. \A i \in 1 .. m : Len(ch[i]) = i - 1
      BY <1>3, ChainIs
    <3>2. Len(ch[j]) # Len(ch[m])
      BY <1>3, <1>10, <3>1
    <3> QED BY <3>2
  <2>2. Kin(E, ch[j]) = Kin(D, ch[j])
    <3>1. Front(q) # ch[j]
      BY <1>3, <2>1
    <3>2. Kin(D \cup {q}, ch[j]) = IF Front(q) = ch[j] THEN Kin(D, ch[j]) \cup {q} ELSE Kin(D, ch[j])
      BY ONLY q # <<>>, KinMore
    <3> QED BY <3>1, <3>2
  <2>3. \A r \in Kin(D, ch[j]) : at2[r] = at[r] /\ end2[r] = end[r]
    BY <1>5 DEF Kin
  <2>4. Tile(Kin(D, ch[j]), at2, end2, at[ch[j]] + Header, Cur(ch, at, j, o))
    BY <1>9, <2>3, TileSame
  <2>5. st2[j] = st[j]
    BY <1>4, <1>10
  <2> QED BY <1>6, <1>8, <1>9, <1>10, <2>2, <2>4, <2>5
<1>11. /\ Tile(Kin(E, ch[m]), at2, end2, at2[ch[m]] + Header, Cur(ch, at2, m, h))
       /\ st2[m] = Context(at2[ch[m]], Cur(ch, at2, m, h) - (at2[ch[m]] + Header))
  <2> DEFINE p == ch[m]
             a == at[p] + Header
  <2>1. Cur(ch, at, m, o) = o /\ Cur(ch, at2, m, h) = h
    BY <1>3 DEF Cur
  <2>2. Kin(E, p) = Kin(D, p) \cup {q}
    <3>1. Kin(D \cup {q}, p) = IF Front(q) = p THEN Kin(D, p) \cup {q} ELSE Kin(D, p)
      BY ONLY q # <<>>, KinMore
    <3> QED BY <1>3, <3>1
  <2>3. at[p] \in Nat /\ a \in Nat /\ a <= o /\ at2[p] = at[p] /\ p \in Seq(Steps)
    BY <1>1, <1>2, <1>3, <1>6, <1>9 DEF Header
  <2>4. Tile(Kin(D, p), at, end, a, o)
    BY <1>3, <1>9, <2>1
  <2>5. \A r \in Kin(D, p) : ~Before(q, r) /\ at2[r] = at[r] /\ end2[r] = end[r]
    BY <1>3, <1>5 DEF Kin
  <2>6. Kin(D, p) \in SUBSET Seq(Steps)
    BY DEF Kin
  <2>7. o + Header <= h
    BY DEF Header
  <2> DEFINE X == Kin(D, p)
  <2>8. Tile(X \cup {q}, at2, end2, a, h)
    <3>1. /\ X \in SUBSET Seq(Steps) /\ Tile(X, at, end, a, o)
          /\ \A r \in X : at2[r] = at[r] /\ end2[r] = end[r]
          /\ \A r \in X : ~Before(q, r)
      BY <2>4, <2>5, <2>6
    <3>2. at2 \in Offsets /\ end2 \in Offsets /\ at2[q] = o /\ end2[q] = h /\ a \in Nat
      BY <1>1, <2>3
    <3> HIDE DEF X, a, p
    <3> QED BY ONLY <3>1, <3>2, <2>7, ~Before(q, q), at \in Offsets, end \in Offsets, q \in Seq(Steps),
                    o \in Nat, h \in Nat, TileGrows
  <2> HIDE DEF a, p
  <2>9. st2[m] = [at |-> st[m].at, len |-> (st[m].len + n + Header) % LenMod]
    BY <1>3, <1>4
  <2>10. st[m].at = at[p] /\ st[m].len = o - a
    <3>1. st[m] = Context(at[ch[m]], Cur(ch, at, m, o) - (at[ch[m]] + Header))
      BY <1>3, <1>9
    <3>2. st[m] = Context(at[p], o - a)
      BY <2>1, <3>1 DEF a, p
    <3> QED BY <3>2 DEF Context
  <2>11. LenMod \in Nat \ {0} /\ Header = 2
    BY LenAssumption DEF Header
  <2> DEFINE x == o - a + n + Header
  <2>12. x = h - a /\ x \in 0 .. LenMod - 1
    BY <2>3, <2>11
  <2>13. x % LenMod = x
    <3> HIDE DEF x
    <3> QED BY <2>11, <2>12, Unwrapped
  <2> QED BY <2>1, <2>2, <2>3, <2>8, <2>9, <2>10, <2>12, <2>13 DEF a, p, Context
<1>12. \A j \in 1 .. m : /\ at2[ch[j]] + Header <= h
                         /\ \A i \in 1 .. j - 1 : at2[ch[i]] + Header <= at2[ch[j]]
  <2> TAKE j \in 1 .. m
  <2>1. at2[ch[j]] = at[ch[j]] /\ at[ch[j]] + Header <= o /\ at[ch[j]] \in Nat
    BY <1>1, <1>2, <1>6, <1>9
  <2>2. o <= h
    BY DEF Header
  <2>3. \A i \in 1 .. j - 1 : i \in 1 .. m
    BY <1>3
  <2>4. \A i \in 1 .. j - 1 : at2[ch[i]] + Header <= at2[ch[j]]
    BY <1>6, <1>9, <2>1, <2>3
  <2> QED BY <2>1, <2>2, <2>4 DEF Header
<1>13. Levels(ch, E, at2, end2, st2, h)
  BY <1>4, <1>10, <1>11, <1>12 DEF Levels, m
<1> QED BY <1>13 DEF at2, end2, st2

LEMMA WriteAt ==
  ASSUME NEW ws \in Seq(Writings), NEW i \in 1 .. Len(ws)
  PROVE  ws[i].at \in Nat
<1>1. ws[i] \in Writings
  OBVIOUS
<1> QED BY <1>1 DEF Writings

LEMMA LaidSimple ==
  ASSUME NEW ws \in Seq(Writings), NEW ch, NEW D \in SUBSET Seq(Steps), NEW at, NEW end, NEW o \in Nat,
         Laid(ws, D, at, end, ch, o), Open(ch) \subseteq Seq(Steps),
         \A p \in Open(ch) : at[p] + Header <= o,
         NEW q \in Seq(Steps), q # <<>>, Front(q) \notin D, q \notin D, q \notin Open(ch),
         CompOf(q).desc = Simple, NEW n \in Nat, n = LenOf[CompOf(q).name],
         NEW h \in Nat, h = o + Header + n,
         NEW new, ItemWritten(new, o, CompOf(q), n, q)
  PROVE  Laid(ws \o new, D \cup {q}, [at EXCEPT ![q] = o], [end EXCEPT ![q] = h], ch, h)
<1> DEFINE at2  == [at EXCEPT ![q] = o]
           end2 == [end EXCEPT ![q] = h]
           all  == ws \o new
           E    == D \cup {q}
<1>0. /\ new \in Seq(Writings) /\ Len(new) = n + 2
      /\ new[1] = W(o, TypeCell(CompOf(q))) /\ new[2] = W(o + 1, LengthCell(n))
      /\ \A i \in 3 .. n + 2 : new[i] = W(o + i - 1, ValueCell(q))
  BY DEF ItemWritten
<1>1. /\ at \in Offsets /\ end \in Offsets /\ at[<<>>] = 0 /\ Once(ws) /\ Layout(Made(ws), D, at, end)
      /\ \A w \in Made(ws) : w.at < o /\ \A p \in Open(ch) : w.at # at[p] /\ w.at # at[p] + 1
  BY DEF Laid
<1>2. /\ at2 \in Offsets /\ at2[q] = o /\ \A r \in Seq(Steps) : at[r] \in Nat /\ (r # q => at2[r] = at[r])
      /\ end2 \in Offsets /\ end2[q] = h /\ \A r \in Seq(Steps) : end[r] \in Nat /\ (r # q => end2[r] = end[r])
  BY ONLY <1>1, q \in Seq(Steps), o \in Nat, h \in Nat, OffsetIs
<1>3. ASSUME NEW i \in 1 .. n + 2 PROVE new[i].at = o + i - 1
  <2>1. CASE i = 1
    <3>1. o + 1 - 1 = o
      BY ONLY o \in Nat
    <3> QED BY <1>0, <2>1, <3>1 DEF W
  <2>2. CASE i = 2
    <3>1. o + 2 - 1 = o + 1
      BY ONLY o \in Nat
    <3> QED BY <1>0, <2>2, <3>1 DEF W
  <2>3. CASE i \in 3 .. n + 2
    <3>1. new[i] = W(o + i - 1, ValueCell(q))
      BY <1>0, <2>3
    <3> QED BY ONLY <3>1 DEF W
  <2>4. i = 1 \/ i = 2 \/ i \in 3 .. n + 2
    BY ONLY i \in 1 .. n + 2, n \in Nat
  <2> QED BY <2>1, <2>2, <2>3, <2>4
<1>4. Once(new)
  <2>1. ASSUME NEW i \in 1 .. n + 2, NEW j \in 1 .. n + 2, new[i].at = new[j].at
        PROVE  i = j
    <3>1. o + i - 1 = o + j - 1
      BY <1>3, <2>1
    <3> QED BY ONLY <3>1, i \in 1 .. n + 2, j \in 1 .. n + 2, o \in Nat, n \in Nat
  <2> QED BY <1>0, <2>1 DEF Once
<1>5. \A i \in 1 .. Len(ws) : ws[i].at < o
  BY <1>1 DEF Made
<1>6. \A i \in 1 .. Len(ws), j \in 1 .. Len(new) : ws[i].at # new[j].at
  <2> TAKE i \in 1 .. Len(ws), j \in 1 .. Len(new)
  <2>1. ws[i].at \in Nat
    BY WriteAt
  <2>2. j \in 1 .. n + 2 /\ new[j].at = o + j - 1 /\ ws[i].at < o
    BY <1>0, <1>3, <1>5
  <2> QED BY ONLY <2>1, <2>2, o \in Nat, n \in Nat
<1>7. /\ Once(all) /\ Made(all) = Made(ws) \cup Made(new)
  BY ONLY ws \in Seq(Writings), <1>0, <1>1, <1>4, <1>6, WritesJoin
<1>8. \A r \in D : at2[r] = at[r] /\ end2[r] = end[r]
  BY <1>2
<1> HIDE DEF at2, end2, all
<1>9. /\ W(o, TypeCell(CompOf(q))) \in Made(all) /\ W(o + 1, LengthCell(n)) \in Made(all)
      /\ \A i \in 3 .. n + 2 : W(o + i - 1, ValueCell(q)) \in Made(all)
  <2>1. \A i \in 1 .. n + 2 : new[i] \in Made(new)
    BY <1>0 DEF Made
  <2>2. 1 \in 1 .. n + 2 /\ 2 \in 1 .. n + 2 /\ \A i \in 3 .. n + 2 : i \in 1 .. n + 2
    OBVIOUS
  <2> QED BY <1>0, <1>7, <2>1, <2>2
<1>10. ASSUME NEW x \in o + Header .. h - 1 PROVE W(x, ValueCell(q)) \in Made(all)
  <2> DEFINE i == x - o + 1
  <2>1. i \in 3 .. n + 2 /\ o + i - 1 = x
    BY ONLY x \in o + Header .. h - 1, h = o + Header + n, o \in Nat, n \in Nat DEF Header, i
  <2> HIDE DEF i
  <2> QED BY <1>9, <2>1
<1>11. h - o - Header = n /\ h = o + Header + n
  BY ONLY h = o + Header + n, o \in Nat, n \in Nat DEF Header
<1>12. Item(Made(all), E, at2, end2, q)
  BY <1>2, <1>9, <1>10, <1>11 DEF Item
<1>13. Layout(Made(all), E, at2, end2)
  <2>1. Made(ws) \subseteq Made(all)
    BY <1>7
  <2> QED BY ONLY <1>1, <1>8, <1>12, <2>1, Front(q) \notin D, LayoutGrows
<1>14. ASSUME NEW w \in Made(all)
       PROVE  w.at < h /\ \A p \in Open(ch) : w.at # at2[p] /\ w.at # at2[p] + 1
  <2>1. \A p \in Open(ch) : at2[p] = at[p] /\ at[p] \in Nat /\ at[p] + Header <= o
    BY <1>2
  <2>2. o < h
    BY ONLY h = o + Header + n, o \in Nat, n \in Nat DEF Header
  <2>3. CASE w \in Made(ws)
    <3>1. w.at \in Nat
      <4>1. PICK i \in 1 .. Len(ws) : w = ws[i]
        BY <2>3 DEF Made
      <4> QED BY <4>1, WriteAt
    <3>2. w.at < o /\ \A p \in Open(ch) : w.at # at[p] /\ w.at # at[p] + 1
      BY <1>1, <2>3
    <3>3. w.at < h
      BY ONLY <2>2, <3>1, <3>2, o \in Nat, h \in Nat
    <3> QED BY <2>1, <3>2, <3>3
  <2>4. CASE w \in Made(new)
    <3>1. PICK i \in 1 .. n + 2 : w = new[i]
      BY <1>0, <2>4 DEF Made
    <3>2. w.at = o + i - 1
      BY <1>3, <3>1
    <3>3. ASSUME NEW p \in Open(ch) PROVE w.at # at2[p] /\ w.at # at2[p] + 1
      <4>1. at2[p] = at[p] /\ at[p] \in Nat /\ at[p] + Header <= o
        BY <2>1
      <4> QED BY ONLY <3>2, <4>1, o \in Nat, n \in Nat, i \in 1 .. n + 2 DEF Header
    <3>4. w.at < h
      BY ONLY <3>2, h = o + Header + n, o \in Nat, n \in Nat, i \in 1 .. n + 2 DEF Header
    <3> QED BY <3>3, <3>4
  <2> QED BY <1>7, <2>3, <2>4
<1>15. at2[<<>>] = 0
  BY <1>1, <1>2, Empties
<1>16. Laid(all, E, at2, end2, ch, h)
  BY <1>1, <1>2, <1>7, <1>13, <1>14, <1>15 DEF Laid
<1> QED BY <1>16 DEF at2, end2, all

(* A composite is opened, and nothing is in it yet.                        *)
LEMMA LevelsOpens ==
  ASSUME NEW ch, Chain(Schema, ch), NEW D \in SUBSET Seq(Steps), NEW at \in Offsets, NEW end \in Offsets,
         NEW st \in Seq(Contexts), NEW o \in Nat, Levels(ch, D, at, end, st, o),
         NEW q \in Seq(Steps), q \notin D, q \notin Open(ch), Kin(D, q) = {},
         NEW up, Len(up) = Len(ch) + 1, up[Len(ch) + 1] = q, \A j \in 1 .. Len(ch) : up[j] = ch[j]
  PROVE  Levels(up, D, [at EXCEPT ![q] = o], end, Append(st, Context(o, 0)), o + Header)
<1> DEFINE at2 == [at EXCEPT ![q] = o]
           x   == Context(o, 0)
           st2 == Append(st, x)
           m   == Len(ch)
           h   == o + Header
<1>1. /\ at2 \in Offsets /\ at2[q] = o /\ \A r \in Seq(Steps) : at[r] \in Nat /\ (r # q => at2[r] = at[r])
  BY OffsetIs
<1>2. \A j \in 1 .. m : ch[j] \in Seq(Steps) /\ ch[j] # q
  <2>1. \A j \in 1 .. m : ch[j] \in Seq(Steps)
    BY ChainIs
  <2> QED BY <2>1 DEF Open
<1>3. m \in Nat \ {0} /\ m \in 1 .. m /\ Len(st) = m /\ m = Len(ch) /\ h \in Nat /\ o <= h
  BY LastOpen DEF Levels, Header
<1>4. x \in Contexts
  BY LenAssumption DEF Context, Contexts, Lens
<1>5. Len(st2) = m + 1 /\ st2[m + 1] = x /\ \A j \in 1 .. m : st2[j] = st[j]
  <2> HIDE DEF x
  <2> QED BY <1>3, <1>4
<1>6. \A j \in 1 .. m : at2[ch[j]] = at[ch[j]] /\ at[ch[j]] \in Nat
  BY <1>1, <1>2
<1>7. \A r \in D : at2[r] = at[r]
  BY <1>1
<1>8. \A j \in 1 .. m : /\ Tile(Kin(D, ch[j]), at, end, at[ch[j]] + Header, Cur(ch, at, j, o))
                        /\ st[j] = Context(at[ch[j]], Cur(ch, at, j, o) - (at[ch[j]] + Header))
                        /\ at[ch[j]] + Header <= o
                        /\ \A i \in 1 .. j - 1 : at[ch[i]] + Header <= at[ch[j]]
  BY DEF Levels
<1> HIDE DEF at2, x, st2, m
<1>9. ASSUME NEW j \in 1 .. m PROVE Cur(up, at2, j, h) = Cur(ch, at, j, o)
  <2>1. Cur(up, at2, j, h) = at2[up[j + 1]]
    <3>1. j # Len(up)
      BY <1>3
    <3> QED BY <3>1 DEF Cur
  <2>2. CASE j = m
    BY <1>1, <1>3, <2>1, <2>2 DEF Cur
  <2>3. CASE j # m
    <3>1. j + 1 \in 1 .. m
      BY <1>3, <2>3
    <3> QED BY <1>3, <1>6, <2>1, <2>3, <3>1 DEF Cur
  <2> QED BY <2>2, <2>3
<1>10. ASSUME NEW j \in 1 .. m
       PROVE  /\ Tile(Kin(D, up[j]), at2, end, at2[up[j]] + Header, Cur(up, at2, j, h))
              /\ st2[j] = Context(at2[up[j]], Cur(up, at2, j, h) - (at2[up[j]] + Header))
              /\ at2[up[j]] + Header <= h
              /\ \A i \in 1 .. j - 1 : at2[up[i]] + Header <= at2[up[j]]
  <2>1. up[j] = ch[j] /\ at2[up[j]] = at[ch[j]] /\ at[ch[j]] \in Nat
    BY <1>3, <1>6
  <2>2. \A r \in Kin(D, ch[j]) : at2[r] = at[r] /\ end[r] = end[r]
    BY <1>7 DEF Kin
  <2>3. Tile(Kin(D, ch[j]), at2, end, at[ch[j]] + Header, Cur(ch, at, j, o))
    <3>1. Tile(Kin(D, ch[j]), at, end, at[ch[j]] + Header, Cur(ch, at, j, o))
      BY <1>8
    <3> QED BY ONLY <2>2, <3>1, TileSame
  <2>4. at[ch[j]] + Header <= h
    <3>1. at[ch[j]] + Header <= o
      BY <1>8
    <3> QED BY ONLY <1>3, <2>1, <3>1, o \in Nat DEF Header
  <2>5. \A i \in 1 .. j - 1 : i \in 1 .. m
    BY <1>3
  <2>6. \A i \in 1 .. j - 1 : at2[up[i]] + Header <= at2[up[j]]
    <3> TAKE i \in 1 .. j - 1
    <3>1. i \in 1 .. m
      BY <2>5
    <3>2. up[i] = ch[i] /\ at2[ch[i]] = at[ch[i]]
      BY <1>3, <1>6, <3>1
    <3>3. at[ch[i]] + Header <= at[ch[j]]
      BY <1>8
    <3> QED BY ONLY <2>1, <3>2, <3>3
  <2>7. st2[j] = Context(at2[up[j]], Cur(up, at2, j, h) - (at2[up[j]] + Header))
    BY <1>5, <1>8, <1>9, <2>1
  <2> QED BY <1>9, <2>1, <2>3, <2>4, <2>6, <2>7
<1>11. /\ Tile(Kin(D, up[m + 1]), at2, end, at2[up[m + 1]] + Header, Cur(up, at2, m + 1, h))
       /\ st2[m + 1] = Context(at2[up[m + 1]], Cur(up, at2, m + 1, h) - (at2[up[m + 1]] + Header))
       /\ at2[up[m + 1]] + Header <= h
       /\ \A i \in 1 .. (m + 1) - 1 : at2[up[i]] + Header <= at2[up[m + 1]]
  <2>1. up[m + 1] = q /\ at2[q] + Header = h /\ Cur(up, at2, m + 1, h) = h /\ h - h = 0
    BY <1>1, <1>3 DEF Cur
  <2>2. Tile({}, at2, end, h, h)
    BY <1>3, TileNone
  <2>3. \A i \in 1 .. (m + 1) - 1 : at2[up[i]] + Header <= o
    <3> TAKE i \in 1 .. (m + 1) - 1
    <3>1. i \in 1 .. m
      BY <1>3
    <3>2. up[i] = ch[i] /\ at2[ch[i]] = at[ch[i]]
      BY <1>3, <1>6, <3>1
    <3> QED BY <1>8, <3>1, <3>2
  <2> HIDE DEF h
  <2>4. st2[m + 1] = Context(at2[q], h - h)
    BY <1>1, <1>5, <2>1 DEF x
  <2>5. h <= h
    BY <1>3
  <2>6. Tile(Kin(D, q), at2, end, h, h)
    BY <2>2
  <2>7. \A i \in 1 .. (m + 1) - 1 : at2[up[i]] + Header <= at2[q]
    BY <1>1, <2>3
  <2> QED BY ONLY <2>1, <2>4, <2>5, <2>6, <2>7
<1>12. \A j \in 1 .. Len(up) : j \in 1 .. m \/ j = m + 1
  BY <1>3
<1> HIDE DEF h
<1>13. Levels(up, D, at2, end, st2, h)
  <2>1. Len(st2) = Len(up)
    BY <1>3, <1>5
  <2> QED BY <1>10, <1>11, <1>12, <2>1 DEF Levels
<1> QED BY <1>13 DEF at2, st2, x, h

(* Its header is written when it is closed. *)
LEMMA LaidOpens ==
  ASSUME NEW ws \in Seq(Writings), NEW ch, NEW D \in SUBSET Seq(Steps), NEW at, NEW end, NEW o \in Nat,
         Laid(ws, D, at, end, ch, o), Open(ch) \subseteq Seq(Steps),
         NEW q \in Seq(Steps), q # <<>>, q \notin D, q \notin Open(ch),
         NEW up, Open(up) = Open(ch) \cup {q}
  PROVE  Laid(ws, D, [at EXCEPT ![q] = o], end, up, o + Header)
<1> DEFINE at2 == [at EXCEPT ![q] = o]
<1>1. /\ at \in Offsets /\ end \in Offsets /\ at[<<>>] = 0 /\ Once(ws) /\ Layout(Made(ws), D, at, end)
      /\ \A w \in Made(ws) : w.at < o /\ \A p \in Open(ch) : w.at # at[p] /\ w.at # at[p] + 1
  BY DEF Laid
<1>2. /\ at2 \in Offsets /\ at2[q] = o /\ \A r \in Seq(Steps) : at[r] \in Nat /\ (r # q => at2[r] = at[r])
  BY <1>1, OffsetIs
<1> HIDE DEF at2
<1>3. Layout(Made(ws), D, at2, end)
  <2> SUFFICES ASSUME NEW p \in D PROVE Item(Made(ws), D, at2, end, p)
    BY DEF Layout
  <2>1. Item(Made(ws), D, at, end, p)
    BY <1>1 DEF Layout
  <2>2. \A r \in Kin(D, p) \cup {p} : at2[r] = at[r] /\ end[r] = end[r]
    BY <1>2 DEF Kin
  <2>3. Made(ws) \subseteq Made(ws)
    OBVIOUS
  <2> QED BY ONLY <2>1, <2>2, <2>3, ItemSame
<1>4. ASSUME NEW w \in Made(ws)
      PROVE  w.at < o + Header /\ \A p \in Open(up) : w.at # at2[p] /\ w.at # at2[p] + 1
  <2>1. w.at \in Nat
    <3>1. PICK i \in 1 .. Len(ws) : w = ws[i]
      BY DEF Made
    <3> QED BY <3>1, WriteAt
  <2>2. w.at < o
    BY <1>1
  <2>3. \A p \in Open(ch) : at2[p] = at[p]
    BY <1>2
  <2>4. w.at < o + Header /\ w.at # o /\ w.at # o + 1
    BY ONLY <2>1, <2>2, o \in Nat DEF Header
  <2> QED BY <1>1, <1>2, <2>3, <2>4
<1>5. at2[<<>>] = 0
  BY <1>1, <1>2, Empties
<1>6. Laid(ws, D, at2, end, up, o + Header)
  BY <1>1, <1>2, <1>3, <1>4, <1>5 DEF Laid
<1> QED BY <1>6 DEF at2

(* A composite is closed: its length is what is in it.                     *)
(* How much there is in an item that ends at o. *)
Inside(at, q, o) == o - (at[q] + Header)

LEMMA LastLevel ==
  ASSUME NEW ch, Chain(Schema, ch), NEW D, NEW at \in Offsets, NEW end,
         NEW st \in Seq(Contexts), NEW o \in Nat, Levels(ch, D, at, end, st, o),
         NEW q, q = ch[Len(ch)]
  PROVE  /\ st # <<>> /\ Last(st) = Context(at[q], Inside(at, q, o))
         /\ Inside(at, q, o) \in Nat
         /\ at[q] \in Nat /\ at[q] + Header <= o
         /\ Tile(Kin(D, q), at, end, at[q] + Header, o)
<1> DEFINE m == Len(ch)
<1>1. m \in Nat \ {0} /\ m \in 1 .. m /\ Len(st) = m /\ q \in Seq(Steps)
  BY LastOpen DEF Levels
<1>2. /\ Tile(Kin(D, ch[m]), at, end, at[ch[m]] + Header, Cur(ch, at, m, o))
      /\ st[m] = Context(at[ch[m]], Cur(ch, at, m, o) - (at[ch[m]] + Header))
      /\ at[ch[m]] + Header <= o
      /\ \A i \in 1 .. m - 1 : at[ch[i]] + Header <= at[ch[m]]
  BY <1>1 DEF Levels
<1>3. Cur(ch, at, m, o) = o
  BY DEF Cur
<1>4. st # <<>> /\ Last(st) = st[m]
  BY <1>1 DEF Last
<1>5. at[q] \in Nat
  BY <1>1 DEF Offsets
<1>7. o - (at[q] + Header) \in Nat
  BY <1>2, <1>5 DEF Header
<1> HIDE DEF m, Inside
<1>8. q = ch[m]
  BY DEF m, Inside
<1>9. Last(st) = Context(at[q], o - (at[q] + Header))
  BY <1>2, <1>3, <1>4, <1>8
<1>10. Last(st) = Context(at[q], Inside(at, q, o))
  BY <1>9 DEF Inside
<1>12. Tile(Kin(D, q), at, end, at[q] + Header, o) /\ at[q] + Header <= o
  BY <1>2, <1>3, <1>8
<1> QED BY <1>4, <1>5, <1>7, <1>10, <1>12 DEF m, Inside

LEMMA LevelsAbove ==
  ASSUME NEW ch, Chain(Schema, ch), NEW D, NEW at \in Offsets, NEW end,
         NEW st, NEW o, Levels(ch, D, at, end, st, o), NEW q, q = ch[Len(ch)]
  PROVE  \A j \in 1 .. Len(ch) - 1 : at[ch[j]] + Header <= at[q] /\ at[ch[j]] \in Nat
<1>1. Len(ch) \in 1 .. Len(ch) /\ Len(ch) \in Nat
  BY LastOpen
<1>2. \A i \in 1 .. Len(ch) - 1 : at[ch[i]] + Header <= at[ch[Len(ch)]]
  BY <1>1 DEF Levels
<1>3. \A j \in 1 .. Len(ch) : ch[j] \in Seq(Steps)
  BY ChainIs
<1>4. \A j \in 1 .. Len(ch) - 1 : j \in 1 .. Len(ch)
  BY <1>1
<1>5. \A j \in 1 .. Len(ch) - 1 : at[ch[j]] \in Nat
  BY <1>3, <1>4 DEF Offsets
<1> QED BY <1>2, <1>5

LEMMA LevelsCloses ==
  ASSUME NEW ch, Chain(Schema, ch), NEW D \in SUBSET Seq(Steps), NEW at \in Offsets, NEW end \in Offsets,
         NEW st \in Seq(Contexts), NEW o \in Nat, Levels(ch, D, at, end, st, o), o < LenMod,
         Len(ch) # 1, NEW q \in Seq(Steps), q = ch[Len(ch)], q # <<>>, q \notin D,
         NEW up, Len(up) = Len(ch) - 1, \A j \in 1 .. Len(ch) - 1 : up[j] = ch[j],
         Front(q) = up[Len(up)],
         ~Before(q, q), \A r \in D : Front(r) = Front(q) => ~Before(q, r)
  PROVE  Levels(up, D \cup {q}, at, [end EXCEPT ![q] = o], AddLength(Front(st), Last(st).len), o)
<1> DEFINE end2 == [end EXCEPT ![q] = o]
           low  == Front(st)
           n    == Last(st).len
           st2  == AddLength(low, n)
           m    == Len(up)
           E    == D \cup {q}
<1>1. /\ end2 \in Offsets /\ end2[q] = o /\ \A r \in Seq(Steps) : end[r] \in Nat /\ (r # q => end2[r] = end[r])
  BY OffsetIs
<1>2. /\ st # <<>> /\ n = o - (at[q] + Header) /\ n \in Nat
      /\ at[q] \in Nat /\ at[q] + Header <= o
      /\ \A j \in 1 .. Len(ch) - 1 : at[ch[j]] + Header <= at[q] /\ at[ch[j]] \in Nat
  <2> HIDE DEF end2, low, st2, m, E, n
  <2>1. /\ st # <<>> /\ Last(st) = Context(at[q], Inside(at, q, o)) /\ Inside(at, q, o) \in Nat
        /\ at[q] \in Nat /\ at[q] + Header <= o
    BY ONLY Chain(Schema, ch), at \in Offsets, st \in Seq(Contexts), o \in Nat,
            Levels(ch, D, at, end, st, o), q = ch[Len(ch)], LastLevel
  <2>2. \A j \in 1 .. Len(ch) - 1 : at[ch[j]] + Header <= at[q] /\ at[ch[j]] \in Nat
    BY ONLY Chain(Schema, ch), at \in Offsets, Levels(ch, D, at, end, st, o), q = ch[Len(ch)], LevelsAbove
  <2> QED BY ONLY <2>1, <2>2 DEF n, Inside, Context
<1>3. /\ m \in Nat \ {0} /\ m \in 1 .. m /\ Len(st) = m + 1 /\ Len(ch) = m + 1 /\ m = Len(up)
      /\ \A j \in 1 .. m : j \in 1 .. Len(ch) /\ j \in 1 .. Len(ch) - 1 /\ j # Len(ch)
  <2>1. Len(ch) \in Nat \ {0} /\ Len(st) = Len(ch)
    BY LastOpen DEF Levels
  <2> QED BY ONLY <2>1, Len(ch) # 1, Len(up) = Len(ch) - 1
<1>4. low \in Seq(Contexts) /\ Len(low) = m /\ \A j \in 1 .. m : low[j] = st[j]
  <2>1. low \in Seq(Contexts) /\ Len(low) = Len(st) - 1 /\ \A j \in 1 .. Len(st) - 1 : low[j] = st[j]
    BY <1>2, FrontIs
  <2>2. Len(st) - 1 = m
    BY <1>3
  <2> QED BY <2>1, <2>2
<1>5. /\ st2 \in Seq(Contexts) /\ Len(st2) = m
      /\ \A j \in 1 .. m : st2[j] = IF j = m THEN [at |-> low[j].at, len |-> (low[j].len + n + Header) % LenMod]
                                    ELSE low[j]
  <2> HIDE DEF low, n, m
  <2>1. /\ AddLength(low, n) \in Seq(Contexts) /\ Len(AddLength(low, n)) = Len(low)
        /\ \A j \in 1 .. Len(low) :
             AddLength(low, n)[j] =
               IF j = Len(low) THEN [at |-> low[j].at, len |-> (low[j].len + n + Header) % LenMod]
               ELSE low[j]
    BY ONLY <1>2, <1>4, AddedLength
  <2> QED BY ONLY <1>4, <2>1
<1>6. \A j \in 1 .. m : up[j] = ch[j]
  BY <1>3
<1>7. \A j \in 1 .. m : /\ Tile(Kin(D, ch[j]), at, end, at[ch[j]] + Header, Cur(ch, at, j, o))
                        /\ st[j] = Context(at[ch[j]], Cur(ch, at, j, o) - (at[ch[j]] + Header))
                        /\ at[ch[j]] + Header <= o
                        /\ \A i \in 1 .. j - 1 : at[ch[i]] + Header <= at[ch[j]]
  BY <1>3 DEF Levels
<1>8. \A j \in 1 .. m + 1 : Len(ch[j]) = j - 1
  BY <1>3, ChainIs
<1>9. q = ch[m + 1]
  BY <1>3
<1>10. \A r \in D : at[r] = at[r] /\ end2[r] = end[r]
  BY <1>1
<1> HIDE DEF end2, low, n, st2, m
<1>11. ASSUME NEW j \in 1 .. m, j # m
       PROVE  /\ Tile(Kin(E, up[j]), at, end2, at[up[j]] + Header, Cur(up, at, j, o))
              /\ st2[j] = Context(at[up[j]], Cur(up, at, j, o) - (at[up[j]] + Header))
  <2>1. Cur(up, at, j, o) = Cur(ch, at, j, o)
    <3>1. j + 1 \in 1 .. m /\ j # Len(ch) /\ j # Len(up)
      BY ONLY <1>3, <1>11, j \in 1 .. m
    <3> QED BY <1>6, <3>1 DEF Cur
  <2>2. Kin(E, up[j]) = Kin(D, up[j])
    <3>1. Front(q) # up[j]
      <4>1. Len(ch[j]) # Len(ch[m])
        <5>1. j \in 1 .. m + 1 /\ m \in 1 .. m + 1 /\ j - 1 # m - 1
          BY <1>3, <1>11
        <5> QED BY <1>8, <5>1
      <4> QED BY <1>3, <1>6, <4>1
    <3>2. Kin(D \cup {q}, up[j]) = IF Front(q) = up[j] THEN Kin(D, up[j]) \cup {q} ELSE Kin(D, up[j])
      BY ONLY q # <<>>, KinMore
    <3> QED BY <3>1, <3>2
  <2>3. \A r \in Kin(D, up[j]) : at[r] = at[r] /\ end2[r] = end[r]
    BY <1>10 DEF Kin
  <2>4. Tile(Kin(D, up[j]), at, end, at[up[j]] + Header, Cur(up, at, j, o))
    BY <1>6, <1>7, <2>1
  <2>5. Tile(Kin(D, up[j]), at, end2, at[up[j]] + Header, Cur(up, at, j, o))
    BY ONLY <2>3, <2>4, TileSame
  <2>6. st2[j] = st[j]
    BY <1>4, <1>5, <1>11
  <2> QED BY <1>6, <1>7, <2>1, <2>2, <2>5, <2>6
<1>12. /\ Tile(Kin(E, up[m]), at, end2, at[up[m]] + Header, Cur(up, at, m, o))
       /\ st2[m] = Context(at[up[m]], Cur(up, at, m, o) - (at[up[m]] + Header))
  <2> DEFINE p == up[m]
             a == at[p] + Header
             b == at[q]
             X == Kin(D, p)
             x == b - a + n + Header
  <2>1. p = ch[m] /\ at[p] \in Nat /\ a \in Nat /\ a <= b /\ b \in Nat /\ b + Header <= o
        /\ n = o - (b + Header) /\ n \in Nat
    <3>1. p = ch[m] /\ m \in 1 .. Len(ch) - 1
      BY <1>3, <1>6
    <3>2. at[p] + Header <= b /\ at[p] \in Nat
      BY <1>2, <3>1
    <3> HIDE DEF p
    <3> QED BY ONLY <1>2, <3>1, <3>2 DEF Header, a, b
  <2>2. Cur(up, at, m, o) = o /\ Cur(ch, at, m, o) = b
    BY <1>3, <1>9 DEF Cur
  <2>3. Kin(E, p) = X \cup {q}
    <3>1. Kin(D \cup {q}, p) = IF Front(q) = p THEN Kin(D, p) \cup {q} ELSE Kin(D, p)
      BY ONLY q # <<>>, KinMore
    <3> QED BY <1>3, <3>1
  <2>4. Tile(X, at, end, a, b) /\ st[m] = Context(at[p], b - a)
    <3>1. Tile(Kin(D, ch[m]), at, end, at[ch[m]] + Header, Cur(ch, at, m, o))
          /\ st[m] = Context(at[ch[m]], Cur(ch, at, m, o) - (at[ch[m]] + Header))
      BY <1>3, <1>7
    <3> QED BY <2>1, <2>2, <3>1
  <2>5. /\ X \in SUBSET Seq(Steps) /\ \A r \in X : at[r] = at[r] /\ end2[r] = end[r]
        /\ \A r \in X : ~Before(q, r)
    BY <1>3, <1>10 DEF Kin
  <2>6. at[q] = b
    OBVIOUS
  <2> HIDE DEF X, a, p, b
  <2>7. Tile(X \cup {q}, at, end2, a, o)
    BY ONLY <1>1, <2>1, <2>4, <2>5, <2>6, ~Before(q, q), at \in Offsets, end \in Offsets,
            q \in Seq(Steps), o \in Nat, TileGrows
  <2>8. st2[m] = [at |-> low[m].at, len |-> (low[m].len + n + Header) % LenMod] /\ low[m] = st[m]
    BY <1>3, <1>4, <1>5
  <2>9. st[m].at = at[p] /\ st[m].len = b - a
    BY <2>4 DEF Context
  <2>10. LenMod \in Nat \ {0} /\ Header = 2
    BY LenAssumption DEF Header
  <2>11. x = o - a /\ x \in 0 .. LenMod - 1
    BY ONLY <2>1, <2>10, o \in Nat, o < LenMod DEF x
  <2>12. x % LenMod = x
    <3> HIDE DEF x
    <3> QED BY <2>10, <2>11, Unwrapped
  <2>13. st2[m] = [at |-> at[p], len |-> x]
    BY <2>8, <2>9, <2>12
  <2> QED BY <2>2, <2>3, <2>7, <2>11, <2>13 DEF a, p, Context
<1>13. \A j \in 1 .. m : /\ at[up[j]] + Header <= o
                         /\ \A i \in 1 .. j - 1 : at[up[i]] + Header <= at[up[j]]
  <2> TAKE j \in 1 .. m
  <2>1. \A i \in 1 .. j - 1 : i \in 1 .. m
    BY <1>3
  <2> QED BY <1>6, <1>7, <2>1
<1>14. Levels(up, E, at, end2, st2, o)
  BY <1>5, <1>11, <1>12, <1>13 DEF Levels, m
<1> QED BY <1>14 DEF end2, st2, low, n

(* What the header of an open item at q, with all that is in it, makes.     *)
Closed(all, ws, new, D, at, end, ch, q, o) ==
  /\ all \in Seq(Writings) /\ Len(all) = Len(ws) + 2 /\ Once(all) /\ Made(all) = Made(ws) \cup Made(new)
  /\ end \in Offsets /\ end[q] = o /\ at \in Offsets /\ at[<<>>] = 0
  /\ Layout(Made(all), D \cup {q}, at, end)
  /\ \A w \in Made(all) : w.at < o
  /\ \A w \in Made(all) : \A p \in Open(ch) \ {q} : w.at # at[p] /\ w.at # at[p] + 1

LEMMA LaidCloses ==
  ASSUME NEW ws \in Seq(Writings), NEW ch, Chain(Schema, ch), NEW D \in SUBSET Seq(Steps), NEW at, NEW end,
         NEW st \in Seq(Contexts), NEW o \in Nat,
         Laid(ws, D, at, end, ch, o), Levels(ch, D, at, end, st, o),
         NEW q \in Seq(Steps), q = ch[Len(ch)], q \notin D, q # <<>> => Front(q) \notin D,
         NEW new, HeaderWritten(new, at[q], CompOf(q), Inside(at, q, o)),
         NEW all, all = ws \o new, NEW end2, end2 = [end EXCEPT ![q] = o]
  PROVE  Closed(all, ws, new, D, at, end2, ch, q, o)
<1> DEFINE E == D \cup {q}
           b == at[q]
<1>0. /\ new \in Seq(Writings) /\ Len(new) = 2
      /\ new[1] = W(b, TypeCell(CompOf(q))) /\ new[2] = W(b + 1, LengthCell(Inside(at, q, o)))
  BY DEF HeaderWritten
<1>1. /\ at \in Offsets /\ end \in Offsets /\ at[<<>>] = 0 /\ Once(ws) /\ Layout(Made(ws), D, at, end)
      /\ \A w \in Made(ws) : w.at < o /\ \A p \in Open(ch) : w.at # at[p] /\ w.at # at[p] + 1
  BY DEF Laid
<1>2. /\ end2 \in Offsets /\ end2[q] = o /\ \A r \in Seq(Steps) : end[r] \in Nat /\ (r # q => end2[r] = end[r])
  <2> DEFINE f == [end EXCEPT ![q] = o]
  <2>1. /\ f \in Offsets /\ f[q] = o /\ \A r \in Seq(Steps) : end[r] \in Nat /\ (r # q => f[r] = end[r])
    BY ONLY <1>1, q \in Seq(Steps), o \in Nat, OffsetIs
  <2> HIDE DEF f
  <2>2. end2 = f
    BY DEF f
  <2> QED BY <2>1, <2>2
<1>3. /\ Inside(at, q, o) \in Nat /\ b \in Nat /\ b + Header <= o
      /\ Tile(Kin(D, q), at, end, b + Header, o)
  BY <1>1, LastLevel
<1>4. \A j \in 1 .. Len(ch) - 1 : at[ch[j]] + Header <= b /\ at[ch[j]] \in Nat
  BY <1>1, LevelsAbove
<1>5. q \in Open(ch)
  BY LastOpen
<1> HIDE DEF b
<1>6. new[1].at = b /\ new[2].at = b + 1 /\ 1 \in 1 .. 2 /\ 2 \in 1 .. 2
  BY <1>0 DEF W
<1>7. Once(new)
  <2>1. \A i, j \in 1 .. 2 : (i = 1 \/ i = 2) /\ (j = 1 \/ j = 2)
    OBVIOUS
  <2> QED BY <1>0, <1>3, <1>6, <2>1 DEF Once
<1>8. \A i \in 1 .. Len(ws), j \in 1 .. Len(new) : ws[i].at # new[j].at
  <2> TAKE i \in 1 .. Len(ws), j \in 1 .. Len(new)
  <2>1. ws[i].at # b /\ ws[i].at # b + 1
    BY <1>1, <1>5 DEF Made, b
  <2>2. j = 1 \/ j = 2
    BY <1>0
  <2> QED BY <1>6, <2>1, <2>2
<1>9. /\ all \in Seq(Writings) /\ Len(all) = Len(ws) + 2 /\ Once(all) /\ Made(all) = Made(ws) \cup Made(new)
  <2>1. /\ Once(ws \o new) /\ Made(ws \o new) = Made(ws) \cup Made(new)
        /\ ws \o new \in Seq(Writings) /\ Len(ws \o new) = Len(ws) + Len(new)
    BY ONLY ws \in Seq(Writings), <1>0, <1>1, <1>7, <1>8, WritesJoin
  <2> QED BY <1>0, <2>1
<1>10. new[1] \in Made(all) /\ new[2] \in Made(all)
  BY <1>0, <1>6, <1>9 DEF Made
<1>11. \A r \in D : at[r] = at[r] /\ end2[r] = end[r]
  BY <1>2
<1>12. Item(Made(all), E, at, end2, q)
  <2>1. CompOf(q).desc # Simple
    <3>1. CompOf(q).desc \in DOMAIN Schema
      BY ChainIs
    <3> QED BY <3>1, SchemaAssumption
  <2>2. Kin(E, q) = Kin(D, q)
    <3>1. q # <<>> => Front(q) # q
      <4> HAVE q # <<>>
      <4>1. Len(Front(q)) = Len(q) - 1
        BY ONLY q \in Seq(Steps), q # <<>>, FrontIs
      <4>2. Len(q) \in Nat
        BY ONLY q \in Seq(Steps)
      <4>3. Len(Front(q)) # Len(q)
        BY ONLY <4>1, <4>2
      <4> QED BY <4>3
    <3> QED BY <3>1 DEF Kin
  <2>3. \A r \in Kin(D, q) : at[r] = at[r] /\ end2[r] = end[r]
    BY <1>11 DEF Kin
  <2>4. Tile(Kin(D, q), at, end2, b + Header, o)
    BY ONLY <1>3, <2>3, TileSame
  <2>5. end2[q] - at[q] - Header = Inside(at, q, o)
    BY <1>2, <1>3 DEF Inside, b, Header
  <2> QED BY <1>0, <1>2, <1>10, <2>1, <2>2, <2>4, <2>5 DEF Item, b
<1>13. Layout(Made(all), E, at, end2)
  <2>1. Made(ws) \subseteq Made(all)
    BY <1>9
  <2> QED BY ONLY <1>1, <1>11, <1>12, <2>1, q # <<>> => Front(q) \notin D, LayoutGrows
<1>14. \A w \in Made(new) : w.at = b \/ w.at = b + 1
  <2> TAKE w \in Made(new)
  <2>1. PICK i \in 1 .. 2 : w = new[i]
    BY <1>0 DEF Made
  <2>2. i = 1 \/ i = 2
    OBVIOUS
  <2> QED BY <1>6, <2>1, <2>2
<1>15. \A w \in Made(all) : w.at < o
  <2>1. b < o /\ b + 1 < o
    BY ONLY <1>3, o \in Nat DEF Header
  <2> QED BY <1>1, <1>9, <1>14, <2>1
<1>16. ASSUME NEW w \in Made(all), NEW p \in Open(ch) \ {q} PROVE w.at # at[p] /\ w.at # at[p] + 1
  <2>1. PICK j \in 1 .. Len(ch) : p = ch[j]
    BY DEF Open
  <2>2. j \in 1 .. Len(ch) - 1
    <3>1. j # Len(ch) /\ Len(ch) \in Nat
      BY <2>1, LastOpen
    <3> QED BY <3>1
  <2>3. at[p] + Header <= b /\ at[p] \in Nat
    BY <1>4, <2>1, <2>2
  <2>4. b # at[p] /\ b # at[p] + 1 /\ b + 1 # at[p] /\ b + 1 # at[p] + 1
    BY ONLY <1>3, <2>3 DEF Header
  <2> QED BY <1>1, <1>9, <1>14, <2>4
<1> QED BY <1>1, <1>2, <1>9, <1>13, <1>15, <1>16 DEF Closed

(* All of the configuration was written, the length of it at last.         *)
Written(ws, K) ==
  /\ <<>> \in K /\ Once(ws) /\ ws # <<>>
  /\ \A i \in 1 .. Len(ws) - 1 : ws[i].at # 1
  /\ \E at, end \in Offsets : at[<<>>] = 0 /\ end[<<>>] < LenMod /\ Layout(Made(ws), K, at, end)

(* In the composites of a chain, what comes before in the order was saved. *)
Under(paths, ch, s, st, ws, o, D, at, end) ==
  /\ Walk(Schema, ch, s) /\ Ordered(paths, D, ch) /\ Queued(paths, D, ch, s)
  /\ Levels(ch, D, at, end, st, o) /\ Laid(ws, D, at, end, ch, o)

SaveAt(paths, s, st, ws, o) ==
  \/ s = <<Task("item", Base, <<>>, 0)>> /\ st = <<>> /\ ws = <<>> /\ o = 0
  \/ s = <<>> /\ ws = <<>> /\ Kept(paths) = {}
  \/ s = <<>> /\ Written(ws, Kept(paths))
  \/ \E ch, D, at, end : Under(paths, ch, s, st, ws, o, D, at, end)

LEMMA UnderIs ==
  ASSUME NEW paths \in Configs, NEW ch, NEW s, NEW st, NEW ws, NEW o, NEW D, NEW at, NEW end,
         Under(paths, ch, s, st, ws, o, D, at, end)
  PROVE  /\ Walk(Schema, ch, s) /\ Ordered(paths, D, ch) /\ Queued(paths, D, ch, s)
         /\ Levels(ch, D, at, end, st, o) /\ Laid(ws, D, at, end, ch, o)
         /\ Chain(Schema, ch) /\ D \in SUBSET Seq(Steps) /\ D \subseteq Kept(paths)
         /\ at \in Offsets /\ end \in Offsets /\ Open(ch) \subseteq Seq(Steps)
         /\ Open(ch) \subseteq Kept(paths)
         /\ \A p \in Open(ch) : at[p] + Header <= o /\ p \notin D
<1>1. /\ Walk(Schema, ch, s) /\ Ordered(paths, D, ch) /\ Queued(paths, D, ch, s)
      /\ Levels(ch, D, at, end, st, o) /\ Laid(ws, D, at, end, ch, o)
  BY DEF Under
<1>2. Chain(Schema, ch)
  BY <1>1 DEF Walk
<1>3. D \subseteq Kept(paths) /\ Open(ch) \subseteq Kept(paths) /\ \A p \in Open(ch) : p \notin D
  BY <1>1 DEF Ordered
<1>4. \A q \in Kept(paths) : q \in Seq(Steps)
  BY KeptIs
<1>5. at \in Offsets /\ end \in Offsets
  BY <1>1 DEF Laid
<1>6. ASSUME NEW p \in Open(ch) PROVE at[p] + Header <= o
  <2>1. PICK j \in 1 .. Len(ch) : p = ch[j]
    BY DEF Open
  <2>2. at[ch[j]] + Header <= o
    BY <1>1 DEF Levels
  <2> QED BY <2>1, <2>2
<1> QED BY <1>1, <1>2, <1>3, <1>4, <1>5, <1>6

(* The first task of a save, or one in a composite. *)
LEMMA SaveHead ==
  ASSUME NEW paths, NEW s, NEW st, NEW ws, NEW o, SaveAt(paths, s, st, ws, o), s # <<>>
  PROVE  \/ /\ Head(s) = Task("item", Base, <<>>, 0) /\ Tail(s) = <<>> /\ st = <<>> /\ ws = <<>> /\ o = 0
            /\ Head(s).comp = Base /\ Head(s).path = <<>> /\ Head(s).idx = 0 /\ Head(s).do = "item"
         \/ \E ch, D, at, end : Under(paths, ch, s, st, ws, o, D, at, end)
<1>1. CASE s = <<Task("item", Base, <<>>, 0)>> /\ st = <<>> /\ ws = <<>> /\ o = 0
  <2> DEFINE t == Task("item", Base, <<>>, 0)
  <2>1. t.comp = Base /\ t.path = <<>> /\ t.idx = 0 /\ t.do = "item"
    BY DEF Task
  <2>2. s = <<t>>
    BY <1>1
  <2> HIDE DEF t
  <2>3. Head(s) = t /\ Tail(s) = <<>>
    BY <2>2
  <2> QED BY <1>1, <2>1, <2>3 DEF t
<1>2. CASE \E ch, D, at, end : Under(paths, ch, s, st, ws, o, D, at, end)
  BY <1>2
<1> QED BY <1>1, <1>2 DEF SaveAt

LEMMA SaveAggrAt ==
  ASSUME NEW paths \in Configs, NEW s, NEW st, NEW ws, NEW o, SaveAt(paths, s, st, ws, o), s # <<>>,
         Head(s).do = "aggr"
  PROVE  LET t   == Head(s)
             new == IF Skipped(paths, t.comp, t.path) THEN <<>> ELSE SaveItems(paths, t.comp, t.path)
         IN  SaveAt(paths, new \o Tail(s), st, ws, o)
<1>1. PICK ch, D, at, end : Under(paths, ch, s, st, ws, o, D, at, end)
  BY SaveHead
<1> DEFINE t   == Head(s)
           new == IF Skipped(paths, t.comp, t.path) THEN <<>> ELSE SaveItems(paths, t.comp, t.path)
           v   == new \o Tail(s)
<1>2. Walk(Schema, ch, v) /\ Queued(paths, D, ch, v)
  BY <1>1, QueuedAggr DEF Under
<1> HIDE DEF v
<1>3. Under(paths, ch, v, st, ws, o, D, at, end)
  BY <1>1, <1>2 DEF Under
<1>4. SaveAt(paths, v, st, ws, o)
  BY <1>3 DEF SaveAt
<1> QED BY <1>4 DEF v

LEMMA SaveDropAt ==
  ASSUME NEW paths \in Configs, NEW s, NEW st, NEW ws, NEW o, SaveAt(paths, s, st, ws, o), s # <<>>,
         Head(s).do = "item", ~HasContent(paths, PathOf(Head(s)))
  PROVE  SaveAt(paths, Tail(s), st, ws, o)
<1>1. CASE /\ Head(s).comp = Base /\ Tail(s) = <<>> /\ ws = <<>>
  <2>1. PathOf(Head(s)) = <<>>
    BY <1>1 DEF PathOf
  <2>2. ASSUME NEW q \in Kept(paths) PROVE FALSE
    <3>1. HasContent(paths, q)
      BY KeptIs
    <3>2. PICK p \in paths \ {<<>>} : Last(p)[1] \in SimpleNames \ Volatile /\ IsPrefix(q, p)
      BY <3>1 DEF HasContent
    <3> DEFINE e == <<>>
    <3>3. p \in Seq(Steps) /\ e \in Seq(Steps) /\ Len(e) = 0 /\ Len(p) \in Nat
      BY ConfigAssumption, Empties
    <3>4. PathOf(Head(s)) = e
      BY <2>1
    <3> HIDE DEF e
    <3>5. 0 <= Len(p) /\ \A i \in 1 .. 0 : e[i] = p[i]
      BY <3>3
    <3>6. IsPrefix(e, p)
      BY <3>3, <3>5, PrefixIs
    <3> QED BY <3>2, <3>4, <3>6 DEF HasContent
  <2> QED BY <1>1, <2>2 DEF SaveAt
<1>2. CASE \E ch, D, at, end : Under(paths, ch, s, st, ws, o, D, at, end)
  <2>1. PICK ch, D, at, end : Under(paths, ch, s, st, ws, o, D, at, end)
    BY <1>2
  <2>2. PathOf(Head(s)) \notin Kept(paths)
    BY DEF Kept
  <2>3. Walk(Schema, ch, Tail(s)) /\ Queued(paths, D, ch, Tail(s))
    BY <2>1, <2>2, QueuedDrop DEF Under
  <2>4. Under(paths, ch, Tail(s), st, ws, o, D, at, end)
    BY <2>1, <2>3 DEF Under
  <2> QED BY <2>4 DEF SaveAt
<1> QED BY <1>1, <1>2, SaveHead

(* Nothing that was saved comes behind the item that is next.              *)
LEMMA NotBehind ==
  ASSUME NEW paths \in Configs, NEW D, NEW ch, NEW s, Walk(Schema, ch, s), Ordered(paths, D, ch),
         Queued(paths, D, ch, s), NEW q \in Pending(s), q \in Kept(paths), q # <<>>
  PROVE  ~Before(q, q) /\ q \notin D /\ q \notin Open(ch) /\ \A r \in D : Front(r) = Front(q) => ~Before(q, r)
<1>1. q \notin D /\ q \notin Open(ch) /\ ~Before(q, q)
  BY PendingNew
<1>2. ASSUME NEW r \in D, Front(r) = Front(q) PROVE ~Before(q, r)
  <2>1. r # <<>> /\ r \in Kept(paths)
    BY DEF Ordered
  <2>2. Before(r, q)
    BY <1>2, <2>1 DEF Queued
  <2> QED BY <1>2, <2>1, <2>2, KeptOrder
<1> QED BY <1>1, <1>2

LEMMA SaveSimpleAt ==
  ASSUME NEW paths \in Configs, NEW s, NEW st \in Seq(Contexts), NEW ws \in Seq(Writings), NEW o \in Nat,
         SaveAt(paths, s, st, ws, o), s # <<>>,
         Head(s).do = "item", NEW c, c = Head(s).comp, c.desc = Simple, NEW q, q = PathOf(Head(s)),
         NEW n, n = LenOf[c.name], NEW new, new = Writes(o, ItemCells(c, n, q)),
         NEW h, h = o + Header + n, h < LenMod
  PROVE  SaveAt(paths, Tail(s), AddLength(st, n), ws \o new, h)
<1>1. PICK ch, D, at, end : Under(paths, ch, s, st, ws, o, D, at, end)
  BY SaveHead, BaseIs
<1> DEFINE E   == D \cup {q}
           at2 == [at EXCEPT ![q] = o]
           end2 == [end EXCEPT ![q] = h]
<1>2. /\ Walk(Schema, ch, s) /\ Ordered(paths, D, ch) /\ Queued(paths, D, ch, s)
      /\ Levels(ch, D, at, end, st, o) /\ Laid(ws, D, at, end, ch, o)
      /\ Chain(Schema, ch) /\ D \in SUBSET Seq(Steps) /\ D \subseteq Kept(paths)
      /\ at \in Offsets /\ end \in Offsets /\ Open(ch) \subseteq Seq(Steps)
      /\ \A p \in Open(ch) : at[p] + Header <= o /\ p \notin D
  BY <1>1, UnderIs
<1>3. /\ q \in Pending(s) /\ q \in Seq(Steps) /\ q # <<>> /\ Front(q) = ch[Len(ch)] /\ CompOf(q) = c
      /\ c \in Known /\ c # Base /\ c \in Parts(Schema, ch[Len(ch)]) /\ ch[Len(ch)] \in Open(ch)
      /\ CompOf(ch[Len(ch)]).desc \in DOMAIN Schema
  BY <1>2, ItemHead
<1>4. q \in Kept(paths)
  BY <1>2, ItemKept
<1>5. Walk(Schema, ch, Tail(s)) /\ Ordered(paths, E, ch) /\ Queued(paths, E, ch, Tail(s))
  BY <1>2, OrderSimple
<1>6. n \in Lens /\ n \in Nat
  <2>1. c \in All(Schema)
    BY <1>3, PartsAre DEF Parts
  <2>2. c.name \in SimpleNames
    BY <2>1 DEF SimpleNames
  <2> QED BY <2>2, LenAssumption DEF Lens
<1>7. ~Before(q, q) /\ q \notin D /\ q \notin Open(ch) /\ \A r \in D : Front(r) = Front(q) => ~Before(q, r)
  BY <1>2, <1>3, <1>4, NotBehind
<1>8. h \in Nat /\ h = o + Header + n /\ h < LenMod
  BY <1>6 DEF Header
<1>9. ItemWritten(new, o, CompOf(q), n, q)
  BY <1>3, <1>6, ItemWrites
<1>10. Levels(ch, E, at2, end2, AddLength(st, n), h)
  BY ONLY <1>2, <1>3, <1>6, <1>7, <1>8, st \in Seq(Contexts), o \in Nat, LevelsSimple
<1>11. Laid(ws \o new, E, at2, end2, ch, h)
  <2>1. CompOf(q).desc = Simple /\ n = LenOf[CompOf(q).name]
    BY <1>3
  <2>2. Front(q) \notin D
    BY <1>2, <1>3
  <2> QED BY ONLY <1>2, <1>3, <1>6, <1>7, <1>8, <1>9, <2>1, <2>2, ws \in Seq(Writings), o \in Nat, LaidSimple
<1> HIDE DEF at2, end2, E
<1>12. Under(paths, ch, Tail(s), AddLength(st, n), ws \o new, h, E, at2, end2)
  BY <1>5, <1>10, <1>11 DEF Under
<1>13. SaveAt(paths, Tail(s), AddLength(st, n), ws \o new, h)
  BY <1>12 DEF SaveAt
<1> QED BY <1>13

(* The space for the header of the outermost composite is reserved.        *)
LEMMA SaveBeginsAt ==
  ASSUME NEW paths \in Configs, HasContent(paths, <<>>), NEW s,
         s = Components(Schema, Base, <<>>) \o <<Task("OBJECT", Base, <<>>, 0)>>
  PROVE  SaveAt(paths, s, <<Context(0, 0)>>, <<>>, Header)
<1> DEFINE e  == <<>>
           at == [p \in Seq(Steps) |-> 0]
           ch == <<e>>
           x  == Context(0, 0)
           st == <<x>>
<1>1. Walk(Schema, ch, s) /\ Ordered(paths, {}, ch) /\ Queued(paths, {}, ch, s)
  BY OrderStarts
<1>2. e \in Seq(Steps) /\ e \in Seq(Writings) /\ Len(e) = 0
  BY Empties
<1>3. at \in Offsets /\ at[e] = 0
  BY <1>2 DEF Offsets
<1> HIDE DEF e, at, x
<1>4. Len(ch) = 1 /\ ch[1] = e /\ Len(st) = 1 /\ st[1] = x
  OBVIOUS
<1>5. Open(ch) = {e}
  <2>1. \A j \in 1 .. 1 : j = 1
    OBVIOUS
  <2>2. 1 \in 1 .. 1
    OBVIOUS
  <2> HIDE DEF ch
  <2> QED BY <1>4, <2>1, <2>2 DEF Open
<1> HIDE DEF ch, st
<1>6. Levels(ch, {}, at, at, st, Header)
  <2>1. Tile({}, at, at, Header, Header)
    BY TileNone DEF Header
  <2>2. Kin({}, e) = {}
    BY DEF Kin
  <2>3. Cur(ch, at, 1, Header) = Header
    BY <1>4 DEF Cur
  <2>4. at[e] + Header = Header /\ Header - (at[e] + Header) = 0 /\ Header <= Header
    BY <1>3 DEF Header
  <2>5. \A j \in 1 .. 1 : j = 1 /\ 1 .. j - 1 = {}
    OBVIOUS
  <2>6. st[1] = Context(at[e], Header - (at[e] + Header))
    BY <1>3, <1>4, <2>4 DEF x
  <2> QED BY <1>4, <2>1, <2>2, <2>3, <2>4, <2>5, <2>6 DEF Levels
<1>7. Laid(e, {}, at, at, ch, Header)
  <2>1. Made(e) = {}
    BY <1>2 DEF Made
  <2>2. Once(e)
    BY <1>2 DEF Once
  <2>3. Layout(Made(e), {}, at, at)
    BY DEF Layout
  <2> QED BY <1>3, <2>1, <2>2, <2>3 DEF Laid, e
<1>8. Under(paths, ch, s, st, e, Header, {}, at, at)
  BY <1>1, <1>6, <1>7 DEF Under
<1>9. SaveAt(paths, s, st, e, Header)
  BY <1>8 DEF SaveAt
<1> QED BY <1>9 DEF st, x, e

(* TlvWriter::startWriteComposite, in a composite.                         *)
LEMMA SaveOpensAt ==
  ASSUME NEW paths \in Configs, NEW ch, NEW s, NEW st \in Seq(Contexts), NEW ws \in Seq(Writings),
         NEW o \in Nat, NEW D, NEW at, NEW end, Under(paths, ch, s, st, ws, o, D, at, end),
         Head(s).do = "item", Head(s).comp.desc # Simple, NEW q, q = PathOf(Head(s)), HasContent(paths, q),
         NEW v, v = Components(Schema, Head(s).comp, q)
                      \o <<Task("OBJECT", Head(s).comp, Head(s).path, 0)>> \o Tail(s)
  PROVE  SaveAt(paths, v, Append(st, Context(o, 0)), ws, o + Header)
<1> DEFINE up == Append(ch, q)
           at2 == [at EXCEPT ![q] = o]
           st2 == Append(st, Context(o, 0))
           h == o + Header
<1>1. /\ Walk(Schema, ch, s) /\ Ordered(paths, D, ch) /\ Queued(paths, D, ch, s)
      /\ Levels(ch, D, at, end, st, o) /\ Laid(ws, D, at, end, ch, o)
      /\ Chain(Schema, ch) /\ D \in SUBSET Seq(Steps) /\ D \subseteq Kept(paths)
      /\ at \in Offsets /\ end \in Offsets /\ Open(ch) \subseteq Seq(Steps)
  BY UnderIs
<1>2. /\ q \in Pending(s) /\ q \in Seq(Steps) /\ q # <<>> /\ Len(q) = Len(ch)
  BY <1>1, ItemHead
<1>3. q \in Kept(paths)
  BY <1>1, ItemKept
<1>4. Walk(Schema, up, v) /\ Ordered(paths, D, up) /\ Queued(paths, D, up, v) /\ Kin(D, q) = {}
  BY <1>1, <1>3, OrderOpens
<1>5. ~Before(q, q) /\ q \notin D /\ q \notin Open(ch)
  BY <1>1, <1>2, <1>3, NotBehind
<1>6. ch \in Seq(Seq(Steps)) /\ Len(ch) \in Nat
  BY <1>1, ChainIs
<1>7. Len(up) = Len(ch) + 1 /\ up[Len(ch) + 1] = q /\ \A j \in 1 .. Len(ch) : up[j] = ch[j]
  BY <1>2, <1>6
<1> HIDE DEF up
<1>8. Open(up) = Open(ch) \cup {q}
  <2>1. \A j \in 1 .. Len(ch) + 1 : j \in 1 .. Len(ch) \/ j = Len(ch) + 1
    BY <1>6
  <2>2. Len(ch) + 1 \in 1 .. Len(ch) + 1 /\ \A j \in 1 .. Len(ch) : j \in 1 .. Len(ch) + 1
    BY <1>6
  <2> QED BY <1>7, <2>1, <2>2 DEF Open
<1>9. Levels(up, D, at2, end, st2, h)
  BY <1>1, <1>2, <1>4, <1>5, <1>7, LevelsOpens
<1>10. Laid(ws, D, at2, end, up, h)
  BY <1>1, <1>2, <1>5, <1>8, LaidOpens
<1> HIDE DEF at2, st2, h
<1>11. Under(paths, up, v, st2, ws, h, D, at2, end)
  BY <1>4, <1>9, <1>10 DEF Under
<1>12. SaveAt(paths, v, st2, ws, h)
  BY <1>11 DEF SaveAt
<1> QED BY <1>12 DEF st2, h

(* TlvWriter::endWriteComposite                                            *)
LEMMA SaveClosesAt ==
  ASSUME NEW paths \in Configs, NEW ch, NEW s, NEW st \in Seq(Contexts), NEW ws \in Seq(Writings),
         NEW o \in Nat, NEW D, NEW at, NEW end, Under(paths, ch, s, st, ws, o, D, at, end),
         Head(s).do = "OBJECT", o < LenMod, NEW h, Len(ch) # 1 => h = o,
         NEW new, new = Writes(Last(st).at, <<TypeCell(Head(s).comp), LengthCell(Last(st).len)>>)
  PROVE  SaveAt(paths, Tail(s), AddLength(Front(st), Last(st).len), ws \o new, h)
<1> DEFINE q == ch[Len(ch)]
           all == ws \o new
           end2 == [end EXCEPT ![q] = o]
           E == D \cup {q}
           up == Front(ch)
           st2 == AddLength(Front(st), Last(st).len)
<1>1. /\ Walk(Schema, ch, s) /\ Ordered(paths, D, ch) /\ Queued(paths, D, ch, s)
      /\ Levels(ch, D, at, end, st, o) /\ Laid(ws, D, at, end, ch, o)
      /\ Chain(Schema, ch) /\ D \in SUBSET Seq(Steps) /\ D \subseteq Kept(paths)
      /\ at \in Offsets /\ end \in Offsets /\ Open(ch) \subseteq Seq(Steps) /\ Open(ch) \subseteq Kept(paths)
      /\ \A p \in Open(ch) : p \notin D
  BY UnderIs
<1>2. q \in Open(ch) /\ q \in Seq(Steps) /\ q \notin D /\ q \in Kept(paths) /\ (Len(ch) # 1 => q # <<>>)
  BY <1>1, LastOpen
<1>3. st # <<>> /\ Last(st) = Context(at[q], Inside(at, q, o)) /\ at[q] \in Nat
  BY <1>1, LastLevel
<1>4. Last(st) \in Contexts /\ Last(st).at = at[q] /\ Last(st).len = Inside(at, q, o)
      /\ Inside(at, q, o) \in Lens
  <2>1. Last(st) \in Contexts
    BY <1>3, FrontIs
  <2>2. Last(st).at = at[q] /\ Last(st).len = Inside(at, q, o)
    BY <1>3 DEF Context
  <2>3. Last(st).len \in Lens
    BY <2>1 DEF Contexts
  <2> QED BY <2>1, <2>2, <2>3
<1>5. Head(s).comp = CompOf(q) /\ CompOf(q) \in Known
  BY <1>1, WalkHead
<1>6. HeaderWritten(new, at[q], CompOf(q), Inside(at, q, o))
  BY <1>3, <1>4, <1>5, HeaderWrites
<1>7. q # <<>> => Front(q) \notin D
  BY <1>1, <1>2, OpenIs
<1> HIDE DEF all, end2, q, st2, up
<1>11. Closed(all, ws, new, D, at, end2, ch, q, o)
  <2>1. q = ch[Len(ch)] /\ all = ws \o new /\ end2 = [end EXCEPT ![q] = o]
    BY DEF all, end2, q
  <2> QED BY ONLY <1>1, <1>2, <1>6, <1>7, <2>1, ws \in Seq(Writings), st \in Seq(Contexts), o \in Nat, LaidCloses
<1>8. /\ all \in Seq(Writings) /\ Len(all) = Len(ws) + 2 /\ Once(all) /\ Made(all) = Made(ws) \cup Made(new)
      /\ end2 \in Offsets /\ end2[q] = o /\ at \in Offsets /\ at[<<>>] = 0
      /\ Layout(Made(all), D \cup {q}, at, end2)
      /\ \A w \in Made(all) : w.at < o
      /\ \A w \in Made(all) : \A p \in Open(ch) \ {q} : w.at # at[p] /\ w.at # at[p] + 1
  BY <1>11 DEF Closed
<1>9. CASE Len(ch) # 1
  <2>1. /\ Walk(Schema, up, Tail(s)) /\ Ordered(paths, E, up) /\ Queued(paths, E, up, Tail(s))
        /\ Front(q) = up[Len(up)] /\ q # <<>>
        /\ Len(up) = Len(ch) - 1 /\ \A j \in 1 .. Len(ch) - 1 : up[j] = ch[j]
        /\ Open(ch) = Open(up) \cup {q}
        /\ \A r \in D : Front(r) = Front(q) => Before(r, q) /\ ~Before(q, r)
        /\ ~Before(q, q)
    BY <1>1, <1>9, OrderCloses DEF q, up
  <2>2. Levels(up, E, at, end2, st2, o)
    <3>1. q = ch[Len(ch)]
      BY DEF q
    <3>2. Levels(up, D \cup {q}, at, [end EXCEPT ![q] = o], AddLength(Front(st), Last(st).len), o)
      BY ONLY <1>1, <1>2, <1>9, <2>1, <3>1, o < LenMod, o \in Nat, st \in Seq(Contexts), LevelsCloses
    <3> QED BY <3>2 DEF end2, st2
  <2>3. q \notin Open(up)
    <3>1. Chain(Schema, up)
      BY <2>1 DEF Walk
    <3>2. q \in Open(up) => Len(q) \in 0 .. Len(up) - 1
      BY <3>1, OpenIs
    <3>3. Len(q) = Len(ch) - 1 /\ Len(ch) \in Nat
      BY <1>1, LastOpen DEF q
    <3> QED BY <2>1, <3>2, <3>3
  <2>4. Laid(all, E, at, end2, up, o)
    <3>1. \A p \in Open(up) : p \in Open(ch) \ {q}
      BY <2>1, <2>3
    <3> QED BY <1>8, <3>1 DEF Laid
  <2>5. Under(paths, up, Tail(s), st2, all, h, E, at, end2)
    BY <1>9, <2>1, <2>2, <2>4 DEF Under
  <2>6. SaveAt(paths, Tail(s), st2, all, h)
    BY <2>5 DEF SaveAt
  <2> QED BY <2>6 DEF st2, all
<1>10. CASE Len(ch) = 1
  <2>1. Tail(s) = <<>> /\ q = <<>> /\ D \cup {<<>>} = Kept(paths)
    BY <1>1, <1>10, OrderDone DEF q
  <2>2. Layout(Made(all), Kept(paths), at, end2) /\ end2[<<>>] < LenMod /\ at[<<>>] = 0
    BY <1>8, <2>1
  <2>3. all[Len(all)].at = 1 /\ all # <<>> /\ Len(all) \in Nat
    <3>1. new[2] = W(at[q] + 1, LengthCell(Inside(at, q, o))) /\ new \in Seq(Writings) /\ Len(new) = 2
      BY <1>6 DEF HeaderWritten
    <3>5. at[q] = 0
      BY <1>8, <2>1
    <3>6. at[q] + 1 = 1
      BY <3>5
    <3>2. new[2].at = 1
      BY <3>1, <3>6 DEF W
    <3>3. all[Len(ws) + 2] = new[2]
      <4>1. \A i \in 1 .. Len(ws) + Len(new) : (ws \o new)[i] = IF i <= Len(ws) THEN ws[i] ELSE new[i - Len(ws)]
        BY ONLY ws \in Seq(Writings), <3>1, JoinedIs
      <4>2. Len(ws) \in Nat
        OBVIOUS
      <4> DEFINE m == Len(ws)
      <4> HIDE DEF m
      <4>3. m + 2 \in 1 .. m + 2 /\ ~(m + 2 <= m) /\ (m + 2) - m = 2
        BY <4>2 DEF m
      <4> QED BY <3>1, <4>1, <4>3 DEF all, m
    <3>4. Len(ws) + 2 # 0 /\ Len(ws) + 2 \in Nat
      OBVIOUS
    <3> QED BY <1>8, <3>2, <3>3, <3>4
  <2>4. \A i \in 1 .. Len(all) - 1 : all[i].at # 1
    <3>1. \A i \in 1 .. Len(all) - 1 : i \in 1 .. Len(all) /\ Len(all) \in 1 .. Len(all) /\ i # Len(all)
      BY <2>3
    <3> QED BY <1>8, <2>3, <3>1 DEF Once
  <2>5. Written(all, Kept(paths))
    BY <1>8, <2>1, <2>2, <2>3, <2>4 DEF Written
  <2>6. SaveAt(paths, Tail(s), st2, all, h)
    BY <2>1, <2>5 DEF SaveAt
  <2> QED BY <2>6 DEF st2, all
<1> QED BY <1>9, <1>10

(* What was saved so far is laid out as a load will look for it, as long   *)
(* as a length has room for the offsets.                                   *)
SaveInv == phase = "save" => SaveAt(saved, todo, stack, writes, off)

(* The offsets of a save fit in the length of a composite. *)
Fitting == phase = "save" => off < LenMod

LEMMA SaveStartAt ==
  ASSUME Typed, SaveStart
  PROVE  SaveInv'
<1>1. /\ phase # "save" /\ writes' = writes
      /\ off' = 0 /\ stack' = <<>> /\ todo' = <<Task("item", Base, <<>>, 0)>>
  BY DEF SaveStart, Idle
<1>2. writes' = <<>>
  BY <1>1 DEF Typed
<1> QED BY <1>1, <1>2 DEF SaveInv, SaveAt

LEMMA SaveAggrSaves ==
  ASSUME Typed, SaveAggr, SaveInv
  PROVE  SaveInv'
<1> DEFINE t == Head(todo)
           new == IF Skipped(saved, t.comp, t.path) THEN <<>> ELSE SaveItems(saved, t.comp, t.path)
<1>1. /\ phase = "save" /\ todo # <<>> /\ t.do = "aggr" /\ todo' = new \o Tail(todo)
      /\ UNCHANGED <<writes, off, stack>> /\ UNCHANGED saved
  BY DEF SaveAggr, Saving, Rest, SaveFrame
<1>2. saved \in Configs
  BY <1>1, SavingIs
<1>3. SaveAt(saved, todo, stack, writes, off)
  BY <1>1 DEF SaveInv
<1>4. SaveAt(saved, new \o Tail(todo), stack, writes, off)
  BY <1>1, <1>2, <1>3, SaveAggrAt
<1> HIDE DEF new, t
<1> QED BY <1>1, <1>4 DEF SaveInv

LEMMA SaveSimpleSaves ==
  ASSUME Typed, SaveSimple, SaveInv, Fitting'
  PROVE  SaveInv'
<1> DEFINE t == Head(todo)
           c == t.comp
           q == PathOf(t)
           n == LenOf[c.name]
           new == Writes(off, ItemCells(c, n, q))
           h == off + Header + n
<1>1. /\ phase = "save" /\ todo # <<>> /\ t.do = "item" /\ c.desc = Simple
      /\ UNCHANGED saved /\ phase' = phase
      /\ writes' = writes \o new /\ off' = h
      /\ stack' = AddLength(stack, n) /\ todo' = Tail(todo)
  BY DEF SaveSimple, Saving, Rest, SaveFrame, ItemCells
<1>2. saved \in Configs /\ stack \in Seq(Contexts) /\ writes \in Seq(Writings) /\ off \in Nat
  BY <1>1, SavingIs DEF Typed
<1>3. SaveAt(saved, todo, stack, writes, off)
  BY <1>1 DEF SaveInv
<1>4. h < LenMod
  BY <1>1 DEF Fitting
<1> HIDE DEF h
<1>5. h = off + Header + n
  BY DEF h
<1> HIDE DEF new, n
<1>6. n = LenOf[c.name] /\ new = Writes(off, ItemCells(c, n, q))
  BY DEF n, new
<1> HIDE DEF q, c
<1>7. c = Head(todo).comp /\ q = PathOf(Head(todo)) /\ Head(todo).do = "item"
  BY <1>1 DEF c, q
<1>8. SaveAt(saved, Tail(todo), AddLength(stack, n), writes \o new, h)
  BY ONLY <1>1, <1>2, <1>3, <1>4, <1>5, <1>6, <1>7, SaveSimpleAt
<1> QED BY <1>1, <1>8 DEF SaveInv

LEMMA SaveCompositeSaves ==
  ASSUME Typed, SaveComposite, SaveInv
  PROVE  SaveInv'
<1> DEFINE t == Head(todo)
           q == PathOf(t)
           u == Components(Schema, t.comp, q) \o <<Task("OBJECT", t.comp, t.path, 0)>>
<1>1. /\ phase = "save" /\ todo # <<>> /\ t.do = "item" /\ t.comp.desc # Simple
      /\ UNCHANGED saved /\ UNCHANGED writes
      /\ IF HasContent(saved, q)
         THEN stack' = Append(stack, Context(off, 0)) /\ off' = off + Header /\ todo' = u \o Tail(todo)
         ELSE todo' = Tail(todo) /\ UNCHANGED <<off, stack>>
  BY DEF SaveComposite, Saving, Rest, SaveFrame
<1>2. saved \in Configs /\ stack \in Seq(Contexts) /\ writes \in Seq(Writings) /\ off \in Nat
  BY <1>1, SavingIs DEF Typed
<1>3. SaveAt(saved, todo, stack, writes, off)
  BY <1>1 DEF SaveInv
<1>4. CASE ~HasContent(saved, q)
  <2>1. SaveAt(saved, Tail(todo), stack, writes, off)
    BY <1>1, <1>2, <1>3, <1>4, SaveDropAt
  <2> QED BY <1>1, <1>4, <2>1 DEF SaveInv
<1>5. CASE HasContent(saved, q)
  <2>1. CASE /\ t = Task("item", Base, <<>>, 0) /\ Tail(todo) = <<>> /\ stack = <<>> /\ writes = <<>> /\ off = 0
             /\ t.comp = Base /\ t.path = <<>>
    <3>1. q = <<>>
      BY <2>1 DEF PathOf
    <3>2. u = Components(Schema, Base, <<>>) \o <<Task("OBJECT", Base, <<>>, 0)>>
      BY <2>1, <3>1
    <3>3. u \in Seq(Tasks)
      <4>1. Walk(Schema, <<<<>>>>, u)
        BY <3>2, WalkStarts
      <4> QED BY <4>1 DEF Walk
    <3>4. u \o Tail(todo) = u
      BY <2>1, <3>3, NoTask
    <3>5. HasContent(saved, <<>>)
      BY <1>5, <3>1
    <3>6. SaveAt(saved, u, <<Context(0, 0)>>, <<>>, Header)
      BY <1>2, <3>2, <3>5, SaveBeginsAt
    <3>7. stack' = <<Context(0, 0)>>
      <4> DEFINE x == Context(0, 0)
      <4>1. stack' = Append(<<>>, x)
        BY <1>1, <1>5, <2>1
      <4> HIDE DEF x
      <4>2. Append(<<>>, x) = <<x>>
        OBVIOUS
      <4> QED BY <4>1, <4>2 DEF x
    <3>8. off' = Header
      BY <1>1, <1>5, <2>1 DEF Header
    <3> HIDE DEF u, t, q
    <3>9. todo' = u /\ writes' = <<>> /\ saved' = saved
      BY <1>1, <1>5, <2>1, <3>4
    <3> QED BY <3>6, <3>7, <3>8, <3>9 DEF SaveInv
  <2>2. CASE \E ch, D, at, end : Under(saved, ch, todo, stack, writes, off, D, at, end)
    <3>1. PICK ch, D, at, end : Under(saved, ch, todo, stack, writes, off, D, at, end)
      BY <2>2
    <3> DEFINE v == u \o Tail(todo)
    <3>2. v = Components(Schema, Head(todo).comp, q)
                \o <<Task("OBJECT", Head(todo).comp, Head(todo).path, 0)>> \o Tail(todo)
      OBVIOUS
    <3>3. q = PathOf(Head(todo)) /\ Head(todo).do = "item" /\ Head(todo).comp.desc # Simple
      BY <1>1
    <3> HIDE DEF v, u, q, t
    <3>4. SaveAt(saved, v, Append(stack, Context(off, 0)), writes, off + Header)
      BY ONLY <1>2, <1>5, <3>1, <3>2, <3>3, SaveOpensAt
    <3>5. todo' = v /\ writes' = writes /\ saved' = saved /\ stack' = Append(stack, Context(off, 0))
          /\ off' = off + Header
      BY <1>1, <1>5 DEF v
    <3> QED BY <3>4, <3>5 DEF SaveInv
  <2> QED BY <1>1, <1>3, <2>1, <2>2, SaveHead
<1> QED BY <1>4, <1>5

LEMMA SaveCloseSaves ==
  ASSUME Typed, SaveClose, SaveInv, Fitting
  PROVE  SaveInv'
<1> DEFINE t == Head(todo)
           new == Writes(Last(stack).at, <<TypeCell(Head(todo).comp), LengthCell(Last(stack).len)>>)
           st2 == AddLength(Front(stack), Last(stack).len)
           h == IF st2 = <<>> THEN Last(stack).at + Header ELSE off
<1>1. /\ phase = "save" /\ todo # <<>> /\ Head(todo).do = "OBJECT" /\ UNCHANGED saved
      /\ writes' = writes \o new /\ stack' = st2
      /\ off' = h /\ todo' = Tail(todo)
  BY DEF SaveClose, Saving, Rest, SaveFrame, Top
<1>2. saved \in Configs /\ stack \in Seq(Contexts) /\ writes \in Seq(Writings) /\ off \in Nat /\ off < LenMod
  BY <1>1, SavingIs DEF Typed, Fitting
<1>3. SaveAt(saved, todo, stack, writes, off)
  BY <1>1 DEF SaveInv
<1>4. PICK ch, D, at, end : Under(saved, ch, todo, stack, writes, off, D, at, end)
  BY <1>1, <1>3, SaveHead
<1>5. Len(ch) # 1 => h = off
  <2> HAVE Len(ch) # 1
  <2>1. Len(stack) = Len(ch) /\ Chain(Schema, ch)
    BY <1>2, <1>4, UnderIs DEF Levels
  <2>2. Len(ch) \in Nat \ {0}
    BY <2>1, LastOpen
  <2>3. Doing(todo, stack, Schema)
    BY <1>1, SavingIs
  <2>4. Front(stack) \in Seq(Contexts) /\ Len(Front(stack)) = Len(stack) - 1 /\ Last(stack) \in Contexts
    BY <1>1, <1>2, <2>3, DoingCloses
  <2>5. Last(stack).len \in Nat
    BY <2>4, LenAssumption DEF Contexts, Lens
  <2>6. Len(st2) = Len(Front(stack))
    BY <2>4, <2>5, AddedLength
  <2>7. Len(st2) # 0
    BY <2>1, <2>2, <2>4, <2>6
  <2> HIDE DEF st2
  <2> QED BY <2>7
<1> HIDE DEF h, st2, new
<1>6. new = Writes(Last(stack).at, <<TypeCell(Head(todo).comp), LengthCell(Last(stack).len)>>)
  BY DEF new
<1>7. SaveAt(saved, Tail(todo), AddLength(Front(stack), Last(stack).len), writes \o new, h)
  BY ONLY <1>1, <1>2, <1>4, <1>5, <1>6, SaveClosesAt
<1> QED BY <1>1, <1>7 DEF SaveInv, st2

LEMMA LoadNotFoundIs ==
  ASSUME Typed, LoadNotFound
  PROVE  /\ phase = "load" /\ todo # <<>> /\ Head(todo).do = "item"
         /\ \/ /\ FindType(Head(todo).comp).res = "not found" /\ Head(todo).comp # Base
               /\ todo' = Tail(todo) /\ LoadFrame /\ UNCHANGED <<off, stack, ram>>
            \/ /\ FindType(Head(todo).comp).res # "success" /\ Fail("failed")
<1> DEFINE t == Head(todo)
           r == FindType(t.comp)
<1>1. phase = "load" /\ todo # <<>> /\ t.do = "item"
  BY DEF LoadNotFound, Loading
<1>2. r.res \in {"success", "not found", "read fail"}
  BY <1>1, LoadingIs, FindTypeIs DEF Result
<1>3. CASE r.res = "success"
  BY <1>3 DEF LoadNotFound
<1>4. CASE r.res = "read fail"
  BY <1>1, <1>4 DEF LoadNotFound
<1>5. CASE r.res = "not found" /\ t.comp = Base
  BY <1>1, <1>5 DEF LoadNotFound
<1>6. CASE r.res = "not found" /\ t.comp # Base
  BY <1>1, <1>6 DEF LoadNotFound, Rest
<1> QED BY <1>2, <1>3, <1>4, <1>5, <1>6

(* A step of a load. *)
LEMMA LoadStepIs ==
  ASSUME Typed, LoadStep
  PROVE  /\ phase = "load" /\ phase' \in {"load", "failed", "starved", "loaded"}
         /\ UNCHANGED <<saved, upgraded, writes, file, crashed>>
<1>1. phase = "load" /\ (LoadFrame \/ Fail("failed") \/ Fail("starved") \/ LoadEnd)
  <2>1. CASE LoadAggr
    BY <2>1 DEF LoadAggr, Loading
  <2>2. CASE LoadNotFound
    BY <2>2, LoadNotFoundIs
  <2>3. CASE LoadSimple
    <3> DEFINE f == FindType(Head(todo).comp)
    <3>1. CASE f.off + 1 + LenOf[Head(todo).comp.name] > Size \/ At(f.off).len # LenOf[Head(todo).comp.name]
      BY <2>3, <3>1 DEF LoadSimple, Loading
    <3>2. CASE ~(f.off + 1 + LenOf[Head(todo).comp.name] > Size \/ At(f.off).len # LenOf[Head(todo).comp.name])
      BY <2>3, <3>2 DEF LoadSimple, Loading
    <3> QED BY <3>1, <3>2
  <2>4. CASE LoadComposite
    BY <2>4 DEF LoadComposite, Loading
  <2>5. CASE LoadNoMemory
    BY <2>5 DEF LoadNoMemory, Loading
  <2>6. CASE LoadClose
    BY <2>6 DEF LoadClose, Loading
  <2>7. CASE LoadEnd
    BY <2>7 DEF LoadEnd
  <2> QED BY <2>1, <2>2, <2>3, <2>4, <2>5, <2>6, <2>7 DEF LoadStep
<1>2. CASE LoadFrame
  BY <1>1, <1>2 DEF LoadFrame
<1>3. CASE Fail("failed") \/ Fail("starved")
  BY <1>1, <1>3 DEF Fail
<1>4. CASE LoadEnd
  BY <1>1, <1>4 DEF LoadEnd
<1> QED BY <1>1, <1>2, <1>3, <1>4

LEMMA SaveKeeps ==
  ASSUME Typed, [Next]_vars, SaveInv, Fitting, Fitting'
  PROVE  SaveInv'
<1>1. CASE UNCHANGED vars
  BY <1>1 DEF vars, SaveInv
<1>2. CASE phase' # "save"
  BY <1>2 DEF SaveInv
<1>3. CASE LoadStep \/ LoadStart \/ LoadUnopened \/ Crash \/ SaveEnd
  <2>1. phase' # "save"
    BY <1>3, LoadStepIs DEF LoadStart, LoadUnopened, Crash, SaveEnd
  <2> QED BY <1>2, <2>1
<1> QED BY <1>1, <1>3, SaveStartAt, SaveAggrSaves, SaveSimpleSaves, SaveCompositeSaves, SaveCloseSaves DEF Next, SaveStep

LEMMA ContentInside ==
  ASSUME Typed, SaveInv, \A c \in Known : c.desc # Simple => c.name \notin Volatile
  PROVE  NoEmptyComposite
<1> SUFFICES ASSUME phase = "save", todo # <<>>, Head(todo).do = "OBJECT"
             PROVE  Top.len > 0
  BY DEF NoEmptyComposite, Saving
<1>1. saved \in Configs /\ stack \in Seq(Contexts) /\ off \in Nat
  BY SavingIs DEF Typed
<1>2. PICK ch, D, at, end : Under(saved, ch, todo, stack, writes, off, D, at, end)
  BY SaveHead DEF SaveInv
<1> DEFINE q == ch[Len(ch)]
<1>3. /\ Walk(Schema, ch, todo) /\ Ordered(saved, D, ch) /\ Queued(saved, D, ch, todo)
      /\ Levels(ch, D, at, end, stack, off) /\ Chain(Schema, ch) /\ at \in Offsets /\ end \in Offsets
      /\ Open(ch) \subseteq Kept(saved)
  BY <1>1, <1>2, UnderIs
<1>4. q \in Kept(saved) /\ CompOf(q).desc \in DOMAIN Schema
  BY <1>3, LastOpen, ChainIs
<1>5. PICK r \in Kept(saved) : r # <<>> /\ Front(r) = q
  BY <1>1, <1>4, KidKept
<1>6. r \in D
  BY <1>1, <1>3, <1>5, OrderInside
<1>7. /\ Last(stack) = Context(at[q], Inside(at, q, off)) /\ at[q] \in Nat
      /\ Tile(Kin(D, q), at, end, at[q] + Header, off)
  BY <1>1, <1>3, LastLevel
<1>8. r \in Kin(D, q) /\ r \in Seq(Steps)
  BY <1>1, <1>5, <1>6, KeptIs DEF Kin
<1>9. at[r] \in Nat /\ end[r] \in Nat
  BY <1>3, <1>8 DEF Offsets
<1>10. at[q] + Header <= at[r] /\ at[r] + Header <= end[r] /\ end[r] <= off
  BY <1>7, <1>8 DEF Tile
<1>11. Inside(at, q, off) > 0
  BY ONLY <1>1, <1>7, <1>9, <1>10 DEF Inside, Header
<1> QED BY <1>7, <1>11 DEF Top, Context

(* "startWriteComposite/endWriteComposite not called if empty": where only *)
(* simple components may be not persistent, a composite that is started    *)
(* gets something in it before its header is written, in every save of     *)
(* which the offsets fit in a length.                                      *)
THEOREM NothingEmpty ==
  ASSUME Lasting
  PROVE  Spec /\ []Fitting => []NoEmptyComposite
<1>1. Init => SaveInv
  BY DEF Init, SaveInv
<1>2. Typed /\ SaveInv => NoEmptyComposite
  BY ContentInside DEF Lasting
<1> QED BY <1>1, <1>2, TypedInit, StepTyped, SaveKeeps, PTL DEF Spec

-----------------------------------------------------------------------------
(* The file that a load finds.                                             *)

(* The cells of a file, each with its offset. *)
Contents(f) == {W(o, f[o + 1]) : o \in 0 .. Len(f) - 1}

(* A whole configuration: its items lie in one another from the start.     *)
Whole(paths, f, at, end) ==
  /\ <<>> \in Kept(paths) /\ at \in Offsets /\ end \in Offsets
  /\ at[<<>>] = 0 /\ end[<<>>] < LenMod
  /\ Layout(Contents(f), Kept(paths), at, end)

(* What else there is gives nothing: the length at its start is not there  *)
(* yet, or is zero.                                                        *)
Hollow(f) == Len(f) < 2 \/ f[2].len = 0

FileAt(paths, f, cut) ==
  \/ \E at, end : Whole(paths, f, at, end)
  \/ Hollow(f) /\ cut
  \/ f = <<>> /\ Kept(paths) = {}

FileInv == saved # Nothing /\ phase # "save" => FileAt(saved, file, crashed)

LEMMA LayoutMore ==
  ASSUME NEW cells, NEW more, cells \subseteq more, NEW K, NEW at, NEW end, Layout(cells, K, at, end)
  PROVE  Layout(more, K, at, end)
<1> SUFFICES ASSUME NEW q \in K PROVE Item(more, K, at, end, q)
  BY DEF Layout
<1>1. Item(cells, K, at, end, q)
  BY DEF Layout
<1> QED BY <1>1, ItemSame

(* What was written once is in the file. *)
LEMMA MadeIs ==
  ASSUME NEW ws \in Seq(Writings), Once(ws), NEW f, f = FileOf(ws)
  PROVE  Made(ws) \subseteq Contents(f)
<1>1. /\ f \in Seq(Cells) /\ Len(f) \in Nat
      /\ \A i \in 1 .. Len(ws) : ws[i].at < Len(f)
      /\ \A o \in 1 .. Len(f) :
           IF \A i \in 1 .. Len(ws) : ws[i].at + 1 # o THEN f[o] = Zeros
           ELSE \E i \in 1 .. Len(ws) :
                  /\ ws[i].at + 1 = o /\ f[o] = ws[i].cell
                  /\ \A j \in 1 .. Len(ws) : ws[j].at + 1 = o => j <= i
  BY FileIs
<1> SUFFICES ASSUME NEW i \in 1 .. Len(ws) PROVE ws[i] \in Contents(f)
  BY DEF Made
<1> DEFINE o == ws[i].at
<1>2. ws[i] \in Writings /\ o \in Nat /\ \A j \in 1 .. Len(ws) : ws[j].at \in Nat
  BY WriteAt
<1>3. o < Len(f)
  BY <1>1
<1>4. o + 1 \in 1 .. Len(f) /\ o \in 0 .. Len(f) - 1
  BY <1>1, <1>2, <1>3
<1>5. PICK j \in 1 .. Len(ws) : ws[j].at + 1 = o + 1 /\ f[o + 1] = ws[j].cell
  BY <1>1, <1>4
<1>6. ws[j].at = o
  BY <1>2, <1>5
<1>7. j = i
  BY <1>6 DEF Once
<1>8. ws[i] = W(o, f[o + 1])
  BY <1>2, <1>5, <1>7 DEF Writings, W
<1> QED BY <1>4, <1>8 DEF Contents

(* Some first writes of a save, without the length at the start.           *)
LEMMA HollowIs ==
  ASSUME NEW ws \in Seq(Writings), \A i \in 1 .. Len(ws) : ws[i].at # 1, NEW f, f = FileOf(ws)
  PROVE  Hollow(f)
<1>1. /\ f \in Seq(Cells) /\ Len(f) \in Nat
      /\ \A o \in 1 .. Len(f) : (\A i \in 1 .. Len(ws) : ws[i].at + 1 # o) => f[o] = Zeros
  BY FileIs
<1>2. CASE Len(f) < 2
  BY <1>2 DEF Hollow
<1>3. CASE ~(Len(f) < 2)
  <2>1. 2 \in 1 .. Len(f)
    BY <1>1, <1>3
  <2>2. \A i \in 1 .. Len(ws) : ws[i].at + 1 # 2
    <3> TAKE i \in 1 .. Len(ws)
    <3>1. ws[i].at \in Nat /\ ws[i].at # 1
      BY WriteAt
    <3> QED BY <3>1
  <2>3. f[2] = Zeros
    BY <1>1, <2>1, <2>2
  <2> QED BY <2>3 DEF Zeros, Cell, Hollow
<1> QED BY <1>2, <1>3

LEMMA NoWrites == FileOf(<<>>) = <<>>
<1>1. <<>> \in Seq(Writings) /\ Len(<<>>) = 0
  BY Empties
<1> DEFINE e == <<>>
           f == FileOf(e)
<1> HIDE DEF e, f
<1>2. f \in Seq(Cells) /\ Len(f) \in Nat /\ (Len(f) # 0 => \E i \in 1 .. Len(e) : TRUE)
  BY <1>1, FileIs DEF e, f
<1>3. Len(f) = 0
  BY <1>1, <1>2 DEF e
<1>4. f = <<>>
  BY <1>2, <1>3
<1> QED BY <1>4 DEF f, e

(* The first writes of a save, or all of them. *)
LEMMA SomeWrites ==
  ASSUME NEW ws \in Seq(Writings), NEW n \in 0 .. Len(ws), NEW v, v = SubSeq(ws, 1, n)
  PROVE  v \in Seq(Writings) /\ Len(v) = n /\ \A i \in 1 .. n : v[i] = ws[i]
<1>1. n \in Nat /\ n <= Len(ws) /\ Len(ws) \in Nat
  OBVIOUS
<1> QED BY <1>1

LEMMA SavedWhole ==
  ASSUME NEW paths, NEW ws \in Seq(Writings), Written(ws, Kept(paths)), NEW f, f = FileOf(ws)
  PROVE  \E at, end : Whole(paths, f, at, end)
<1>1. /\ <<>> \in Kept(paths) /\ Once(ws)
      /\ \E at, end \in Offsets : at[<<>>] = 0 /\ end[<<>>] < LenMod /\ Layout(Made(ws), Kept(paths), at, end)
  BY DEF Written
<1>2. PICK at \in Offsets, end \in Offsets :
        at[<<>>] = 0 /\ end[<<>>] < LenMod /\ Layout(Made(ws), Kept(paths), at, end)
  BY <1>1
<1>3. Made(ws) \subseteq Contents(f)
  BY <1>1, MadeIs
<1>4. Layout(Contents(f), Kept(paths), at, end)
  BY <1>2, <1>3, LayoutMore
<1>5. Whole(paths, f, at, end)
  BY <1>1, <1>2, <1>4 DEF Whole
<1> QED BY <1>5

LEMMA SaveEndFile ==
  ASSUME Typed, SaveEnd, SaveInv
  PROVE  FileInv'
<1>1. phase = "save" /\ todo = <<>> /\ file' = FileOf(writes) /\ saved' = saved /\ crashed' = crashed
  BY DEF SaveEnd
<1>2. SaveAt(saved, todo, stack, writes, off) /\ writes \in Seq(Writings)
  BY <1>1 DEF SaveInv, Typed
<1>3. CASE writes = <<>> /\ Kept(saved) = {}
  BY <1>1, <1>3, NoWrites DEF FileInv, FileAt
<1>4. CASE Written(writes, Kept(saved))
  <2>1. \E at, end : Whole(saved, FileOf(writes), at, end)
    BY <1>2, <1>4, SavedWhole
  <2> QED BY <1>1, <2>1 DEF FileInv, FileAt
<1>5. ~\E ch, D, at, end : Under(saved, ch, todo, stack, writes, off, D, at, end)
  BY <1>1 DEF Under, Walk
<1>6. todo # <<Task("item", Base, <<>>, 0)>>
  BY <1>1
<1> QED BY <1>2, <1>3, <1>4, <1>5, <1>6 DEF SaveAt

LEMMA CutFile ==
  ASSUME NEW paths \in Configs, NEW s, NEW st, NEW ws \in Seq(Writings), NEW o, SaveAt(paths, s, st, ws, o),
         NEW n \in 0 .. Len(ws), NEW f, f = FileOf(SubSeq(ws, 1, n))
  PROVE  FileAt(paths, f, TRUE)
<1> DEFINE v == SubSeq(ws, 1, n)
<1>1. v \in Seq(Writings) /\ Len(v) = n /\ (\A i \in 1 .. n : v[i] = ws[i]) /\ n \in Nat /\ Len(ws) \in Nat /\ n <= Len(ws)
  BY SomeWrites
<1> HIDE DEF v
<1>2. ASSUME \A i \in 1 .. n : ws[i].at # 1 PROVE FileAt(paths, f, TRUE)
  <2>1. \A i \in 1 .. Len(v) : v[i].at # 1
    BY <1>1, <1>2
  <2>2. f = FileOf(v)
    BY DEF v
  <2>3. Hollow(f)
    BY <1>1, <2>1, <2>2, HollowIs
  <2> QED BY <2>3 DEF FileAt
<1>3. CASE ws = <<>>
  <2>1. Len(ws) = 0
    BY <1>3, Empties
  <2>2. n = 0
    BY <1>1, <2>1
  <2>3. \A i \in 1 .. n : ws[i].at # 1
    BY <2>2
  <2> QED BY <1>2, <2>3
<1>4. CASE Written(ws, Kept(paths))
  <2>1. CASE n = Len(ws)
    <3>1. v = ws
      BY <1>1, <2>1
    <3>2. f = FileOf(ws)
      BY <3>1 DEF v
    <3>3. \E at, end : Whole(paths, f, at, end)
      BY <1>4, <3>2, SavedWhole
    <3> QED BY <3>3 DEF FileAt
  <2>2. CASE n # Len(ws)
    <3>1. \A i \in 1 .. n : i \in 1 .. Len(ws) - 1
      BY <1>1, <2>2
    <3> QED BY <1>2, <1>4, <3>1 DEF Written
  <2> QED BY <2>1, <2>2
<1>5. CASE \E ch, D, at, end : Under(paths, ch, s, st, ws, o, D, at, end)
  <2>1. PICK ch, D, at, end : Under(paths, ch, s, st, ws, o, D, at, end)
    BY <1>5
  <2>2. Laid(ws, D, at, end, ch, o) /\ Chain(Schema, ch)
    BY <2>1, UnderIs
  <2> DEFINE e == <<>>
  <2>3. e \in Open(ch)
    <3>1. ch[1] = e /\ Len(ch) \in Nat \ {0}
      BY <2>2, ChainIs
    <3>2. 1 \in 1 .. Len(ch)
      BY <3>1
    <3> HIDE DEF e
    <3> QED BY <3>1, <3>2 DEF Open
  <2>4. at[e] = 0
    BY <2>2 DEF Laid
  <2> HIDE DEF e
  <2>5. \A w \in Made(ws) : w.at # at[e] + 1
    BY <2>2, <2>3 DEF Laid
  <2>6. at[e] + 1 = 1
    BY <2>4
  <2>7. \A i \in 1 .. n : i \in 1 .. Len(ws)
    BY <1>1
  <2>8. \A i \in 1 .. n : ws[i].at # 1
    BY <2>5, <2>6, <2>7 DEF Made
  <2> QED BY <1>2, <2>8
<1> QED BY <1>3, <1>4, <1>5 DEF SaveAt

LEMMA CrashFile ==
  ASSUME Typed, Crash, SaveInv, FileInv
  PROVE  FileInv'
<1>1. CASE phase # "save"
  BY <1>1 DEF Crash, FileInv
<1>2. CASE phase = "save"
  <2>1. crashed' = TRUE /\ saved' = saved
    BY <1>2 DEF Crash
  <2>2. PICK n \in 0 .. Len(writes) : file' = FileOf(SubSeq(writes, 1, n))
    BY <1>2 DEF Crash
  <2>3. SaveAt(saved, todo, stack, writes, off) /\ writes \in Seq(Writings) /\ saved \in Configs
    BY <1>2, SavingIs DEF SaveInv, Typed
  <2>4. FileAt(saved, file', TRUE)
    BY <2>2, <2>3, CutFile
  <2> QED BY <2>1, <2>4 DEF FileInv
<1> QED BY <1>1, <1>2

LEMMA FileKeeps ==
  ASSUME Typed, [Next]_vars, SaveInv, FileInv
  PROVE  FileInv'
<1>1. CASE UNCHANGED vars
  BY <1>1 DEF vars, FileInv
<1>2. CASE phase' = "save"
  BY <1>2 DEF FileInv
<1>3. CASE LoadStep
  <2>1. phase = "load" /\ UNCHANGED <<saved, file, crashed>>
    BY <1>3, LoadStepIs
  <2> QED BY <2>1 DEF FileInv
<1>4. CASE LoadStart \/ LoadUnopened
  <2>1. phase # "save" /\ UNCHANGED <<saved, file, crashed>>
    BY <1>4 DEF LoadStart, LoadUnopened, Idle
  <2> QED BY <2>1 DEF FileInv
<1>5. CASE SaveStart \/ SaveAggr \/ SaveSimple \/ SaveComposite \/ SaveClose
  <2>1. phase' = "save"
    BY <1>5, Zenon DEF SaveStart, SaveAggr, SaveSimple, SaveComposite, SaveClose, SaveFrame, Saving
  <2> QED BY <1>2, <2>1
<1> QED BY <1>1, <1>3, <1>4, <1>5, SaveEndFile, CrashFile DEF Next, SaveStep

-----------------------------------------------------------------------------
(* The search of a load in a whole file.                                   *)

(* Where an item that is searched for may begin: at an item, or where      *)
(* there is nothing more.                                                  *)
Spot(K, p, at, end, x) == x = end[p] \/ \E r \in Kin(K, p) : at[r] = x

NoneOf(K, p, c, at, end, x) ==
  \A q \in Kin(K, p) : CompOf(q) = c /\ x <= at[q] => end[q] = at[q] + Header
Answer(K, p, c, at, end, x, found) ==
  \/ found.res = "success" /\ FirstOf(K, p, c, at, x, found.off)
  \/ found.res = "not found" /\ NoneOf(K, p, c, at, end, x)

LEMMA FoundHas ==
  ASSUME NEW r, NEW o, NEW found, found = Found(r, o)
  PROVE  found.res = r /\ found.off = o
<1> QED BY DEF Found

(* CompositeLoadContext of an item. *)
Extent(at, end, p) == Context(at[p] + Header, Inside(at, p, end[p]))

Lays(paths, f, at, end) ==
  /\ at \in Offsets /\ end \in Offsets /\ f \in Seq(Cells)
  /\ Layout(Contents(f), Kept(paths), at, end)

LEMMA ContentIs ==
  ASSUME NEW o, NEW c, W(o, c) \in Contents(file), file \in Seq(Cells)
  PROVE  o \in Nat /\ o < Size /\ At(o) = c
<1>1. PICK i \in 0 .. Len(file) - 1 : W(o, c) = W(i, file[i + 1])
  BY DEF Contents
<1>2. o = i /\ c = file[i + 1]
  BY <1>1 DEF W
<1> QED BY <1>2 DEF Size, At

(* The cells of an item's header. *)
LEMMA HeaderIs ==
  ASSUME NEW paths, NEW at, NEW end, Lays(paths, file, at, end), NEW r \in Kept(paths), r \in Seq(Steps)
  PROVE  /\ at[r] \in Nat /\ end[r] \in Nat /\ at[r] < Size /\ at[r] + 1 < Size
         /\ At(at[r]).type = CompOf(r).name /\ At(at[r] + 1).len = Inside(at, r, end[r])
<1>1. Item(Contents(file), Kept(paths), at, end, r) /\ file \in Seq(Cells)
  BY DEF Lays, Layout
<1>2. at[r] \in Nat /\ end[r] \in Nat
  BY DEF Lays, Offsets
<1>3. at[r] < Size /\ At(at[r]) = TypeCell(CompOf(r))
  BY <1>1, ContentIs DEF Item
<1>4. at[r] + 1 < Size /\ At(at[r] + 1) = LengthCell(end[r] - at[r] - Header)
  BY <1>1, ContentIs DEF Item
<1>5. end[r] - at[r] - Header = Inside(at, r, end[r])
  BY <1>2 DEF Inside, Header
<1> QED BY <1>2, <1>3, <1>4, <1>5 DEF TypeCell, LengthCell, Cell

(* An item lies in the one it is of, and where it ends is a spot again.    *)
LEMMA KidLies ==
  ASSUME NEW paths \in Configs, NEW at, NEW end, NEW f, Lays(paths, f, at, end),
         NEW p \in Kept(paths), CompOf(p).desc # Simple, NEW r \in Kin(Kept(paths), p)
  PROVE  /\ r \in Kept(paths) /\ r \in Seq(Steps) /\ r # <<>> /\ Front(r) = p
         /\ at[p] \in Nat /\ end[p] \in Nat /\ at[r] \in Nat /\ end[r] \in Nat
         /\ at[p] + Header <= at[r] /\ at[r] + Header <= end[r] /\ end[r] <= end[p]
         /\ Spot(Kept(paths), p, at, end, end[r])
         /\ \A q \in Kin(Kept(paths), p) : Before(r, q) => end[r] <= at[q]
<1>1. r \in Kept(paths) /\ r # <<>> /\ Front(r) = p
  BY DEF Kin
<1>2. r \in Seq(Steps) /\ p \in Seq(Steps)
  BY <1>1, KeptIs
<1>3. Item(Contents(f), Kept(paths), at, end, p)
  BY DEF Lays, Layout
<1>4. Tile(Kin(Kept(paths), p), at, end, at[p] + Header, end[p])
  BY <1>3 DEF Item
<1>5. at[p] \in Nat /\ end[p] \in Nat /\ at[r] \in Nat /\ end[r] \in Nat
  BY <1>2 DEF Lays, Offsets
<1> QED BY <1>1, <1>2, <1>4, <1>5 DEF Tile, Spot

(* What is left of a search from the next item on is a search itself.      *)
LEMMA FindsKid ==
  ASSUME NEW paths \in Configs, NEW K, K = Kept(paths), NEW at, NEW end, Lays(paths, file, at, end),
         NEW p \in K, CompOf(p).desc # Simple, NEW c \in Known,
         Searchable, Top = Extent(at, end, p), NEW find, Searching(c, find),
         NEW x \in Nat, Spot(K, p, at, end, x), at[p] + Header <= x,
         \A y \in Nat : x < y /\ Spot(K, p, at, end, y) => Answer(K, p, c, at, end, y, find[y])
  PROVE  Answer(K, p, c, at, end, x, find[x])
<1>1. \A r \in Kin(K, p) :
         /\ r \in K /\ r \in Seq(Steps) /\ r # <<>> /\ Front(r) = p
         /\ at[p] \in Nat /\ end[p] \in Nat /\ at[r] \in Nat /\ end[r] \in Nat
         /\ at[p] + Header <= at[r] /\ at[r] + Header <= end[r] /\ end[r] <= end[p]
         /\ Spot(K, p, at, end, end[r])
         /\ \A q \in Kin(K, p) : Before(r, q) => end[r] <= at[q]
  BY KidLies
<1>2. p \in Seq(Steps)
  BY KeptIs
<1>3. at[p] \in Nat /\ end[p] \in Nat
  BY <1>2 DEF Lays, Offsets
<1>4. Top.at = at[p] + Header /\ Top.len = end[p] - (at[p] + Header)
  BY DEF Extent, Context, Inside
<1>5. Room(x) <=> x + Header < end[p]
  BY <1>3, <1>4, RoomIs DEF Header
<1>6. find[x] = Finds(c, find, x)
  BY DEF Searching
<1>7. CASE ~Room(x)
  <2>1. find[x] = Found("not found", off)
    BY <1>6, <1>7 DEF Finds
  <2>2. NoneOf(K, p, c, at, end, x)
    BY <1>1, <1>3, <1>5, <1>7 DEF NoneOf, Header
  <2>3. find[x].res = "not found"
    <3> DEFINE r == find[x]
               o == off
    <3>1. r = Found("not found", o)
      BY <2>1
    <3> HIDE DEF r, o
    <3>2. r.res = "not found"
      BY <3>1 DEF Found
    <3> QED BY <3>2 DEF r
  <2> QED BY <2>2, <2>3 DEF Answer
<1>8. CASE Room(x)
  <2>1. x # end[p]
    BY <1>3, <1>5, <1>8 DEF Header
  <2>2. PICK r \in Kin(K, p) : at[r] = x
    BY <2>1 DEF Spot
  <2>3. /\ x < Size /\ x + 1 < Size
        /\ At(x).type = CompOf(r).name /\ At(x + 1).len = end[r] - (x + Header)
    BY <1>1, <2>2, HeaderIs DEF Inside
  <2>4. CompOf(r) \in Known
    BY <1>1, KeptPart
  <2>5. Matches(x, c) <=> CompOf(r) = c
    BY <2>3, <2>4, NamesAssumption DEF Matches
  <2>6. Size \in Nat
    BY RoomIs
  <2>7. CASE CompOf(r) = c
    <3>1. find[x] = Found("success", x + 1)
      BY <1>6, <1>8, <2>3, <2>5, <2>6, <2>7 DEF Finds
    <3>2. FirstOf(K, p, c, at, x, x + 1)
      BY <2>2, <2>7 DEF FirstOf
    <3>3. find[x].res = "success" /\ find[x].off = x + 1
      BY <3>1, FoundHas
    <3> QED BY <3>2, <3>3 DEF Answer
  <2>8. CASE CompOf(r) # c
    <3>1. ~(x >= Size) /\ ~(x + 1 >= Size)
      BY <2>3, <2>6
    <3>2. find[x] = find[x + Header + At(x + 1).len]
      BY <1>6, <1>8, <2>5, <2>8, <2>3, <3>1 DEF Finds
    <3>3. x + Header + At(x + 1).len = end[r]
      BY <1>1, <2>3 DEF Header
    <3>4. end[r] \in Nat /\ x < end[r] /\ Spot(K, p, at, end, end[r])
      BY <1>1, <2>2 DEF Header
    <3>5. Answer(K, p, c, at, end, end[r], find[end[r]])
      BY <3>4
    <3>6. \A q \in Kin(K, p) : CompOf(q) = c => (x <= at[q] <=> end[r] <= at[q])
      <4> SUFFICES ASSUME NEW q \in Kin(K, p), CompOf(q) = c PROVE x <= at[q] <=> end[r] <= at[q]
        OBVIOUS
      <4>1. q # r /\ q \in K /\ r \in K /\ q # <<>> /\ r # <<>> /\ Front(q) = Front(r)
        BY <1>1, <2>8
      <4>2. Before(q, r) \/ Before(r, q)
        BY <4>1, KeptOrder
      <4>3. end[r] <= at[q] \/ end[q] <= x
        BY <1>1, <2>2, <4>2
      <4>4. at[q] + 2 <= end[q] /\ x + 2 <= end[r] /\ at[q] \in Nat /\ end[q] \in Nat /\ end[r] \in Nat
        BY <1>1, <2>2 DEF Header
      <4> QED BY ONLY <4>3, <4>4, x \in Nat
    <3>7. ASSUME NEW o, FirstOf(K, p, c, at, end[r], o) PROVE FirstOf(K, p, c, at, x, o)
      BY <3>6, <3>7 DEF FirstOf
    <3>8. NoneOf(K, p, c, at, end, end[r]) => NoneOf(K, p, c, at, end, x)
      BY <3>6 DEF NoneOf
    <3>9. find[x] = find[end[r]]
      BY <3>2, <3>3
    <3> QED BY <3>5, <3>7, <3>8, <3>9 DEF Answer
  <2> QED BY <2>7, <2>8
<1> QED BY <1>7, <1>8

(* The search finds the next item of a component.                          *)
LEMMA FindsNext ==
  ASSUME NEW paths \in Configs, NEW at, NEW end, Lays(paths, file, at, end),
         NEW p \in Kept(paths), CompOf(p).desc # Simple, NEW c \in Known,
         Searchable, Top = Extent(at, end, p), NEW o \in Nat, Spot(Kept(paths), p, at, end, o),
         at[p] + Header <= o, o <= end[p]
  PROVE  Answer(Kept(paths), p, c, at, end, o, FindInComposite(c, o))
<1>1. PICK find : Searching(c, find)
  BY Searches
<1> DEFINE K == Kept(paths)
           Goal(y) == Answer(K, p, c, at, end, y, find[y])
           T == {i \in Nat : \A y \in Nat :
                   /\ o <= y /\ y <= end[p] /\ end[p] - y <= i /\ Spot(K, p, at, end, y) => Goal(y)}
<1>2. p \in Seq(Steps)
  BY KeptIs
<1>3. at[p] \in Nat /\ end[p] \in Nat
  BY <1>2 DEF Lays, Offsets
<1>4. \A y \in Nat : Spot(K, p, at, end, y) => y <= end[p]
  <2> SUFFICES ASSUME NEW r \in Kin(K, p) PROVE at[r] <= end[p]
    BY <1>3 DEF Spot
  <2> HIDE DEF K
  <2>1. /\ at[r] \in Nat /\ end[r] \in Nat
        /\ at[r] + Header <= end[r] /\ end[r] <= end[p]
    BY KidLies DEF K
  <2> QED BY <1>3, <2>1 DEF Header
<1> HIDE DEF K
<1>5. ASSUME NEW x \in Nat, o <= x, Spot(K, p, at, end, x),
             \A y \in Nat : x < y /\ Spot(K, p, at, end, y) => Goal(y)
      PROVE  Goal(x)
  <2>1. at[p] + Header <= x
    BY <1>3, <1>5 DEF Header
  <2>2. p \in K /\ K = Kept(paths)
    BY DEF K
  <2> QED BY <1>1, <1>5, <2>1, <2>2, FindsKid
<1> HIDE DEF Goal
<1>6. 0 \in T
  <2> SUFFICES ASSUME NEW y \in Nat, o <= y, y <= end[p], end[p] - y <= 0, Spot(K, p, at, end, y)
               PROVE  Goal(y)
    OBVIOUS
  <2>1. \A z \in Nat : y < z => ~Spot(K, p, at, end, z)
    BY <1>3, <1>4
  <2> QED BY <1>5, <2>1
<1> DEFINE m == end[p] - o
<1>7. m \in Nat
  BY <1>3
<1>8. ASSUME NEW i \in 0 .. m, i \in T, i # m PROVE i + 1 \in T
  <2> SUFFICES ASSUME NEW y \in Nat, o <= y, y <= end[p], end[p] - y <= i + 1, Spot(K, p, at, end, y)
               PROVE  Goal(y)
    OBVIOUS
  <2>1. ASSUME NEW z \in Nat, y < z, Spot(K, p, at, end, z) PROVE Goal(z)
    <3>1. z <= end[p] /\ o <= z /\ end[p] - z <= i
      BY <1>3, <1>4, <2>1
    <3> QED BY <1>8, <2>1, <3>1
  <2> QED BY <1>5, <2>1
<1>9. m \in T
  <2> HIDE DEF T, m
  <2> QED BY <1>6, <1>7, <1>8, Upwards
<1>10. Goal(o)
  <2>1. o <= o /\ end[p] - o <= m
    BY <1>3
  <2> HIDE DEF m
  <2>2. Spot(K, p, at, end, o)
    BY DEF K
  <2> QED BY <1>9, <2>1, <2>2
<1> QED BY <1>1, <1>10 DEF Goal, Searching, K

-----------------------------------------------------------------------------
(* The stack of a load.                                                    *)

Stacked(ch, at, end, st) ==
  /\ Len(st) = Len(ch)
  /\ \A j \in 1 .. Len(ch) :
       /\ st[j] = Extent(at, end, ch[j]) /\ end[ch[j]] < LenMod
       /\ \A i \in 1 .. j : at[ch[i]] <= at[ch[j]] /\ end[ch[j]] <= end[ch[i]]

LEMMA StackedOpens ==
  ASSUME NEW ch, ch \in Seq(Seq(Steps)), ch # <<>>, NEW at \in Offsets, NEW end \in Offsets, NEW st \in Seq(Contexts),
         Stacked(ch, at, end, st), NEW r \in Seq(Steps), NEW p, p = ch[Len(ch)],
         at[p] <= at[r], at[r] <= end[r], end[r] <= end[p], NEW up, up = Append(ch, r),
         NEW x \in Contexts, x = Extent(at, end, r)
  PROVE  Stacked(up, at, end, Append(st, x))
<1>1. /\ Len(ch) \in Nat \ {0} /\ Len(up) = Len(ch) + 1 /\ up[Len(ch) + 1] = r
      /\ \A j \in 1 .. Len(ch) : up[j] = ch[j] /\ ch[j] \in Seq(Steps)
  OBVIOUS
<1> DEFINE sx == Append(st, x)
<1>2. Len(st) = Len(ch)
  BY DEF Stacked
<1>3. Len(sx) = Len(up) /\ sx[Len(up)] = x /\ \A j \in 1 .. Len(ch) : sx[j] = st[j]
  BY <1>1, <1>2
<1> HIDE DEF sx
<1>4. \A j \in 1 .. Len(ch) : at[ch[j]] \in Nat /\ end[ch[j]] \in Nat
  BY <1>1 DEF Offsets
<1>5. at[r] \in Nat /\ end[r] \in Nat /\ LenMod \in Nat
  BY LenAssumption DEF Offsets
<1>6. ASSUME NEW j \in 1 .. Len(ch)
      PROVE  /\ sx[j] = Extent(at, end, up[j]) /\ end[up[j]] < LenMod
             /\ \A i \in 1 .. j : at[up[i]] <= at[up[j]] /\ end[up[j]] <= end[up[i]]
  <2>1. /\ st[j] = Extent(at, end, ch[j]) /\ end[ch[j]] < LenMod
        /\ \A i \in 1 .. j : at[ch[i]] <= at[ch[j]] /\ end[ch[j]] <= end[ch[i]]
    BY DEF Stacked
  <2>2. up[j] = ch[j] /\ \A i \in 1 .. j : i \in 1 .. Len(ch)
    BY <1>1
  <2> QED BY <1>1, <1>3, <2>1, <2>2
<1>7. Len(ch) \in 1 .. Len(ch) /\ p \in Seq(Steps) /\ at[p] \in Nat /\ end[p] \in Nat
  BY <1>1, <1>4
<1>8. /\ end[p] < LenMod /\ \A i \in 1 .. Len(ch) : at[ch[i]] <= at[p] /\ end[p] <= end[ch[i]]
  BY <1>7 DEF Stacked
<1>9. end[r] < LenMod
  BY <1>5, <1>7, <1>8
<1>10. \A i \in 1 .. Len(up) : at[up[i]] <= at[r] /\ end[r] <= end[up[i]]
  <2> TAKE i \in 1 .. Len(up)
  <2>1. CASE i = Len(up)
    BY <1>1, <1>5, <2>1
  <2>2. CASE i # Len(up)
    <3>1. i \in 1 .. Len(ch) /\ up[i] = ch[i]
      BY <1>1, <2>2
    <3>2. at[ch[i]] <= at[p] /\ end[p] <= end[ch[i]] /\ at[ch[i]] \in Nat /\ end[ch[i]] \in Nat
      BY <1>4, <1>8, <3>1
    <3> QED BY ONLY <1>5, <1>7, <3>1, <3>2, at[p] <= at[r], end[r] <= end[p]
  <2> QED BY <2>1, <2>2
<1>11. ASSUME NEW j \in 1 .. Len(up)
       PROVE  /\ sx[j] = Extent(at, end, up[j]) /\ end[up[j]] < LenMod
              /\ \A i \in 1 .. j : at[up[i]] <= at[up[j]] /\ end[up[j]] <= end[up[i]]
  <2>1. CASE j = Len(up)
    <3>1. up[j] = r /\ sx[j] = x
      BY <1>1, <1>3, <2>1
    <3> QED BY <1>9, <1>10, <2>1, <3>1
  <2>2. CASE j # Len(up)
    <3>1. j \in 1 .. Len(ch)
      BY <1>1, <2>2
    <3> QED BY <1>6, <3>1
  <2> QED BY <2>1, <2>2
<1>12. Stacked(up, at, end, sx)
  BY <1>3, <1>11 DEF Stacked
<1> QED BY <1>12 DEF sx

LEMMA StackedCloses ==
  ASSUME NEW ch, NEW at, NEW end, NEW st \in Seq(Contexts), Stacked(ch, at, end, st),
         NEW up, Len(up) = Len(ch) - 1, Len(ch) \in Nat, Len(ch) # 0,
         \A j \in 1 .. Len(up) : up[j] = ch[j] /\ j \in 1 .. Len(ch)
  PROVE  Stacked(up, at, end, Front(st))
<1>1. Len(st) = Len(ch) /\ st # <<>>
  BY Empties DEF Stacked
<1>2. Len(Front(st)) = Len(st) - 1 /\ \A i \in 1 .. Len(st) - 1 : Front(st)[i] = st[i]
  BY <1>1, FrontIs
<1>3. Len(Front(st)) = Len(up) /\ \A i \in 1 .. Len(up) : Front(st)[i] = st[i]
  BY <1>1, <1>2
<1>4. \A j \in 1 .. Len(up) : \A i \in 1 .. j : i \in 1 .. Len(up)
  OBVIOUS
<1> QED BY <1>3, <1>4 DEF Stacked

-----------------------------------------------------------------------------
(* A load under way.                                                       *)

Loads(paths, f, schema, ch, s, st, o, at, end, ram1) ==
  /\ Whole(paths, f, at, end) /\ f \in Seq(Cells)
  /\ Walk(schema, ch, s) /\ Open(ch) \subseteq DOMAIN ram1
  /\ Loaded(paths, schema, ram1) /\ Completes(paths, schema, s, ram1)
  /\ Placed(Kept(paths), at, end, ch, s, o) /\ Lined(Kept(paths), s)
  /\ Stacked(ch, at, end, st) /\ o \in Nat
  /\ Spot(Kept(paths), ch[Len(ch)], at, end, o)

(* Where a load is: somewhere in the innermost composite.                  *)
Inner(paths, f, schema, ch, st, o, at, end, p) ==
  /\ Lays(paths, f, at, end) /\ p \in Kept(paths) /\ p \in Seq(Steps) /\ CompOf(p).desc # Simple
  /\ Chain(schema, ch) /\ Open(ch) \subseteq Kept(paths) /\ Open(ch) \subseteq Seq(Steps)
  /\ at[p] \in Nat /\ end[p] \in Nat /\ at[p] + Header <= o /\ o <= end[p]
  /\ st # <<>> /\ Last(st) = Extent(at, end, p) /\ Last(st) \in Contexts

LEMMA LoadsIs ==
  ASSUME NEW paths \in Configs, NEW f, NEW schema \in {Schema, NewSchema}, NEW ch, NEW s, NEW st \in Seq(Contexts),
         NEW o, NEW at, NEW end, NEW ram1, Loads(paths, f, schema, ch, s, st, o, at, end, ram1),
         NEW p, p = ch[Len(ch)]
  PROVE  Inner(paths, f, schema, ch, st, o, at, end, p)
<1>1. Lays(paths, f, at, end)
  BY DEF Loads, Whole, Lays
<1>2. Chain(schema, ch)
  BY DEF Loads, Walk
<1>3. Open(ch) \subseteq Kept(paths)
  BY DEF Loads, Loaded
<1>4. Open(ch) \subseteq Seq(Steps)
  BY <1>3, KeptIs
<1>5. Len(ch) \in Nat \ {0} /\ Len(ch) \in 1 .. Len(ch) /\ p \in Open(ch)
  BY <1>2, LastOpen
<1>6. CompOf(p).desc \in DOMAIN schema
  BY <1>2, <1>5, ChainIs
<1>7. CompOf(p).desc # Simple
  BY <1>6, SchemaAssumption
<1>8. p \in Kept(paths) /\ p \in Seq(Steps)
  BY <1>3, <1>4, <1>5
<1>9. at[p] \in Nat /\ end[p] \in Nat
  BY <1>1, <1>8 DEF Lays, Offsets
<1>10. at[p] + Header <= o /\ o <= end[p]
  <2>1. CASE o = end[p]
    <3>1. Item(Contents(f), Kept(paths), at, end, p)
      BY <1>1, <1>8 DEF Lays, Layout
    <3>2. at[p] + Header <= end[p]
      BY <1>7, <3>1 DEF Item, Tile
    <3> QED BY <1>9, <2>1, <3>2
  <2>2. CASE o # end[p]
    <3>1. PICK r \in Kin(Kept(paths), p) : at[r] = o
      BY <2>2 DEF Loads, Spot
    <3>2. /\ at[r] \in Nat /\ end[r] \in Nat
          /\ at[p] + Header <= at[r] /\ at[r] + Header <= end[r] /\ end[r] <= end[p]
      BY <1>1, <1>7, <1>8, KidLies
    <3> QED BY <1>9, <3>1, <3>2 DEF Header
  <2> QED BY <2>1, <2>2
<1>11. Len(st) = Len(ch) /\ st[Len(ch)] = Extent(at, end, p)
  BY <1>5 DEF Loads, Stacked
<1>12. st # <<>>
  BY <1>5, <1>11, Empties
<1>13. Last(st) = st[Len(ch)] /\ Last(st) \in Contexts
  BY <1>11, <1>12, FrontIs
<1> QED BY <1>1, <1>2, <1>3, <1>4, <1>7, <1>8, <1>9, <1>10, <1>11, <1>12, <1>13 DEF Inner

(* The search for the next item to load.                                   *)
LEMMA Finding ==
  ASSUME Typed, phase = "load", NEW schema \in {Schema, NewSchema}, NEW ch, NEW at, NEW end,
         Loads(saved, file, schema, ch, todo, stack, off, at, end, ram), Head(todo).do = "item",
         NEW c, c = Head(todo).comp
  PROVE  Answer(Kept(saved), ch[Len(ch)], c, at, end, off, FindType(c))
<1>1. saved \in Configs /\ stack \in Seq(Contexts) /\ off \in Nat /\ file \in Seq(Cells)
  BY LoadingIs
<1> DEFINE p == ch[Len(ch)]
<1>2. /\ Lays(saved, file, at, end) /\ p \in Kept(saved) /\ CompOf(p).desc # Simple
      /\ at[p] + Header <= off /\ off <= end[p]
      /\ stack # <<>> /\ Last(stack) = Extent(at, end, p) /\ Last(stack) \in Contexts
  <2>1. Inner(saved, file, schema, ch, stack, off, at, end, p)
    BY <1>1, LoadsIs
  <2> QED BY <2>1 DEF Inner
<1>3. Searchable /\ Top = Extent(at, end, p)
  BY <1>1, <1>2 DEF Searchable, Top
<1>4. Spot(Kept(saved), p, at, end, off)
  BY DEF Loads
<1>5. c \in Known
  <2>1. Walk(schema, ch, todo)
    BY DEF Loads
  <2> QED BY <2>1, ItemHead
<1>6. Answer(Kept(saved), p, c, at, end, off, FindInComposite(c, off))
  <2> HIDE DEF p
  <2> QED BY <1>1, <1>2, <1>3, <1>4, <1>5, FindsNext
<1> QED BY <1>2, <1>6 DEF FindType

(* What is found is the item that the task is for.                         *)
LEMMA FoundItem ==
  ASSUME Packed, NEW paths \in Configs, NEW f, NEW schema \in {Schema, NewSchema}, NEW ch, NEW s,
         NEW st \in Seq(Contexts), NEW o, NEW at, NEW end, NEW ram1,
         Loads(paths, f, schema, ch, s, st, o, at, end, ram1), Head(s).do = "item",
         NEW x, FirstOf(Kept(paths), ch[Len(ch)], Head(s).comp, at, o, x), NEW q, q = PathOf(Head(s))
  PROVE  Meets(paths, at, o, x, q)
<1> DEFINE K == Kept(paths)
           p == ch[Len(ch)]
           t == Head(s)
<1>1. /\ Lays(paths, f, at, end) /\ p \in K /\ p \in Seq(Steps) /\ CompOf(p).desc # Simple /\ Chain(schema, ch)
  <2>1. Inner(paths, f, schema, ch, st, o, at, end, p)
    BY LoadsIs
  <2> QED BY <2>1 DEF Inner
<1>2. PICK r \in Kin(K, p) :
        /\ CompOf(r) = t.comp /\ o <= at[r] /\ x = at[r] + 1
        /\ \A y \in Kin(K, p) : CompOf(y) = t.comp /\ o <= at[y] => at[r] <= at[y]
  BY DEF FirstOf
<1>3. Walk(schema, ch, s) /\ Placed(K, at, end, ch, s, o) /\ o \in Nat
  BY DEF Loads
<1>4. /\ q = Below(p, t.comp, t.idx) /\ q # <<>> /\ Front(q) = p /\ CompOf(q) = t.comp /\ t.path = p
      /\ q \in Seq(Steps) /\ Last(q) = <<t.comp.name, t.idx>> /\ t.idx \in Nat
  BY <1>3, ItemHead
<1>5. t \in Each(s) /\ t \in Tasks /\ Fits(schema, ch, t)
  BY <1>3, EachFits
<1>6. \A y \in Kin(K, p) : CompOf(y) = t.comp => y \in Stored(K, t)
  BY <1>4 DEF Stored
<1>7. r \in Stored(K, t) /\ From(t) = t.idx
  BY <1>2, <1>6 DEF From
<1>8. /\ r \in K /\ r # <<>> /\ Front(r) = p /\ t.comp \in Parts(Schema, p)
      /\ CompOf(p).desc \in DOMAIN Schema /\ Index(r) \in Nat /\ r = Below(p, t.comp, Index(r))
  BY <1>1, <1>4, <1>5, <1>7, StoredIs
<1> HIDE DEF K, p, t
<1>9. \A y \in Kin(K, p) :
        /\ at[y] \in Nat /\ end[y] \in Nat /\ at[y] + Header <= end[y]
        /\ \A z \in Kin(K, p) : Before(y, z) => end[y] <= at[z]
  BY <1>1, KidLies DEF K
<1>10. at[r] \in Nat /\ end[r] \in Nat /\ at[r] + 2 <= end[r]
  BY <1>9 DEF Header
<1>11. ~(Index(r) < t.idx)
  <2> SUFFICES ASSUME Index(r) < t.idx PROVE FALSE
    OBVIOUS
  <2>1. Behind(end, ch, o, r)
    BY <1>3, <1>5, <1>7 DEF Placed
  <2>2. end[r] <= o
    BY <1>8, <2>1 DEF Behind, p
  <2> QED BY ONLY <1>2, <1>3, <1>10, <2>2
<1>12. q \in K
  <2>1. t.idx \in 0 .. Index(r)
    BY <1>4, <1>8, <1>11
  <2>2. Below(Front(r), CompOf(r), t.idx) \in K
    BY <1>8, <2>1, PackedIs DEF K
  <2> QED BY <1>2, <1>4, <1>8, <2>2
<1>13. q \in Kin(K, p) /\ q \in Stored(K, t) /\ Index(q) = t.idx
  BY <1>4, <1>6, <1>12 DEF Kin, Index
<1>14. o <= at[q]
  <2>1. Ahead(at, end, ch, o, q)
    BY <1>3, <1>4, <1>5, <1>7, <1>13 DEF Placed
  <2> QED BY <1>4, <2>1 DEF Ahead, p
<1>15. q = r
  <2> SUFFICES ASSUME q # r PROVE FALSE
    OBVIOUS
  <2>1. t.idx < Index(r)
    BY <1>4, <1>8, <1>11
  <2>2. Before(q, r)
    BY <1>1, <1>4, <1>8, <2>1, BeforeOne
  <2>3. end[q] <= at[r] /\ at[q] + 2 <= end[q] /\ at[q] \in Nat /\ end[q] \in Nat
    BY <1>9, <1>13, <2>2 DEF Header
  <2>4. at[r] <= at[q]
    BY <1>2, <1>4, <1>13, <1>14
  <2> QED BY ONLY <1>10, <2>3, <2>4
<1> QED BY <1>2, <1>12, <1>14, <1>15 DEF K, Meets

LEMMA AggrAt ==
  ASSUME NEW paths \in Configs, NEW f, NEW schema \in {Schema, NewSchema}, NEW ch, NEW s,
         NEW st, NEW o, NEW at, NEW end, NEW ram1,
         Loads(paths, f, schema, ch, s, st, o, at, end, ram1), Head(s).do = "aggr",
         NEW new, new = IF Head(s).comp.name \in Volatile THEN <<>>
                        ELSE <<Task("item", Head(s).comp, Head(s).path, 0)>>,
         NEW v, v = new \o Tail(s)
  PROVE  Loads(paths, f, schema, ch, v, st, o, at, end, ram1)
<1> DEFINE K == Kept(paths)
           t == Head(s)
<1>1. /\ Walk(schema, ch, s) /\ Placed(K, at, end, ch, s, o) /\ Lined(K, s)
      /\ Completes(paths, schema, s, ram1)
  BY DEF Loads
<1>2. /\ Chain(schema, ch) /\ s \in Seq(Tasks) /\ s # <<>> /\ Tail(s) \in Seq(Tasks) /\ t \in Tasks
      /\ \A u \in Each(s) : u \in Tasks /\ Fits(schema, ch, u)
      /\ Each(s) = {t} \cup Each(Tail(s))
  BY <1>1, EachFits
<1>3. /\ Instead(t, new) /\ Flat(schema, ch, new)
      /\ \A u \in Each(new) : From(u) = 0
      /\ t.comp.name \notin Volatile => \E u \in Each(new) : TRUE
  BY <1>1, AggrInstead
<1>4. Walk(schema, ch, v)
  BY <1>1, <1>3, WalkReplaces
<1>5. Lined(K, v)
  BY <1>1, <1>2, <1>3, LinedReplaces
<1>6. /\ new \in Seq(Tasks) /\ \A u \in Each(new) : Stored(K, u) = Stored(K, t)
  BY <1>2, <1>3, InsteadIs
<1>7. Each(v) = Each(new) \cup Each(Tail(s))
  BY <1>2, <1>6, EachJoin
<1>8. From(t) = 0 /\ t \in Each(s) /\ Fits(schema, ch, t)
  BY <1>2 DEF From
<1>9. \A q \in Stored(K, t) : t.comp.name \notin Volatile /\ Index(q) \in Nat
  BY <1>2, <1>8, StoredIs
<1> HIDE DEF K, t
<1>10. Placed(K, at, end, ch, v, o)
  <2> SUFFICES ASSUME NEW u \in Each(v), NEW q \in Stored(K, u)
               PROVE  IF Index(q) < From(u) THEN Behind(end, ch, o, q) ELSE Ahead(at, end, ch, o, q)
    BY DEF Placed
  <2>1. CASE u \in Each(new)
    <3>1. q \in Stored(K, t) /\ From(u) = From(t)
      BY <1>3, <1>6, <1>8, <2>1
    <3> QED BY <1>1, <1>8, <3>1 DEF Placed
  <2>2. CASE u \in Each(Tail(s))
    BY <1>1, <1>2, <2>2 DEF Placed
  <2> QED BY <1>7, <2>1, <2>2
<1>11. \A q \in Due(K, s) : q \in Due(K, v)
  <2> TAKE q \in Due(K, s)
  <2>1. PICK u \in Each(s) : q \in Stored(K, u) /\ From(u) <= Index(q)
    BY DueIs
  <2>2. CASE u = t
    <3>1. PICK w \in Each(new) : TRUE
      BY <1>3, <1>9, <2>1, <2>2 DEF t
    <3>2. q \in Stored(K, w) /\ From(w) <= Index(q) /\ w \in Each(v)
      BY <1>3, <1>6, <1>7, <1>9, <2>1, <2>2, <3>1
    <3> QED BY <3>2, DueIs
  <2>3. CASE u # t
    <3>1. u \in Each(v)
      BY <1>2, <1>7, <2>3
    <3> QED BY <2>1, <3>1, DueIs
  <2> QED BY <2>2, <2>3
<1>12. Completes(paths, schema, v, ram1)
  BY <1>1, <1>11, CompleteMoves DEF K
<1> QED BY <1>4, <1>5, <1>10, <1>12 DEF Loads, K

(* No item that was saved is a header alone.                               *)
LEMMA ItemLong ==
  ASSUME Lasting, NEW paths \in Configs, NEW f, NEW at, NEW end, Lays(paths, f, at, end), NEW q \in Kept(paths)
  PROVE  end[q] # at[q] + Header
<1>1. q \in Seq(Steps)
  BY KeptIs
<1>2. at[q] \in Nat /\ end[q] \in Nat
  BY <1>1 DEF Lays, Offsets
<1>3. Item(Contents(f), Kept(paths), at, end, q)
  BY DEF Lays, Layout
<1>4. CASE CompOf(q).desc = Simple
  <2>1. q # <<>>
    BY <1>4, BaseIs
  <2>2. CompOf(q) \in All(Schema)
    BY <2>1, PathPart, KeptIs
  <2>3. CompOf(q).name \in SimpleNames
    BY <1>4, <2>2 DEF SimpleNames
  <2>4. LenOf[CompOf(q).name] \in 1 .. LenMod - 1 /\ LenMod \in Nat
    BY <2>3, LenAssumption
  <2>5. end[q] = at[q] + Header + LenOf[CompOf(q).name]
    BY <1>3, <1>4 DEF Item
  <2> QED BY <1>2, <2>4, <2>5 DEF Header
<1>5. CASE CompOf(q).desc # Simple
  <2>1. CompOf(q).desc \in DOMAIN Schema
    <3>1. CASE q = <<>>
      BY <3>1, BaseIs
    <3>2. CASE q # <<>>
      <4>1. CompOf(q) \in All(Schema)
        BY <3>2, PathPart, KeptIs
      <4> QED BY <1>5, <4>1, SchemaAssumption
    <3> QED BY <3>1, <3>2
  <2>2. PICK r \in Kept(paths) : r # <<>> /\ Front(r) = q
    BY <2>1, KidKept DEF Lasting
  <2>3. r \in Kin(Kept(paths), q)
    BY <2>2 DEF Kin
  <2>4. /\ at[r] \in Nat /\ end[r] \in Nat
        /\ at[q] + Header <= at[r] /\ at[r] + Header <= end[r] /\ end[r] <= end[q]
    BY <1>5, <2>3, KidLies
  <2> QED BY <1>2, <2>4 DEF Header
<1> QED BY <1>4, <1>5

LEMMA DropAt ==
  ASSUME NEW paths \in Configs, NEW f, NEW schema \in {Schema, NewSchema}, NEW ch, NEW s,
         NEW st, NEW o, NEW at, NEW end, NEW ram1,
         Loads(paths, f, schema, ch, s, st, o, at, end, ram1), Head(s).do = "item",
         NoneOf(Kept(paths), ch[Len(ch)], Head(s).comp, at, end, o)
  PROVE  Loads(paths, f, schema, ch, Tail(s), st, o, at, end, ram1)
<1> DEFINE K == Kept(paths)
           t == Head(s)
           v == Tail(s)
<1>1. /\ Walk(schema, ch, s) /\ Placed(K, at, end, ch, s, o) /\ Lined(K, s)
      /\ Completes(paths, schema, s, ram1) /\ Lays(paths, f, at, end)
  BY DEF Loads, Whole, Lays
<1>2. /\ Chain(schema, ch) /\ s \in Seq(Tasks) /\ s # <<>> /\ t \in Tasks
      /\ \A u \in Each(s) : u \in Tasks /\ Fits(schema, ch, u)
      /\ Each(s) = {t} \cup Each(v)
  BY <1>1, EachFits
<1>3. Walk(schema, ch, v)
  BY <1>1, WalkDone
<1>4. Lined(K, v)
  BY <1>1, <1>2, LinedHead
<1>5. t.path = ch[Len(ch)] /\ t.idx \in Nat
  BY <1>1, ItemHead
<1> HIDE DEF K, t, v
<1>6. Placed(K, at, end, ch, v, o)
  BY <1>1, <1>2 DEF Placed
<1>7. ASSUME Lasting, NEW q \in Due(K, s) PROVE q \in Due(K, v)
  <2>1. PICK u \in Each(s) : q \in Stored(K, u) /\ From(u) <= Index(q)
    BY <1>7, DueIs
  <2>2. CASE u = t
    <3>1. /\ q \in K /\ q \in Kin(K, t.path) /\ Front(q) = t.path /\ CompOf(q) = t.comp /\ Index(q) \in Nat
      BY <1>2, <2>1, <2>2, StoredIs DEF K
    <3>2. From(u) \in Nat
      BY <1>5, <2>2 DEF From
    <3>3. Ahead(at, end, ch, o, q)
      BY <1>1, <2>1, <3>1, <3>2 DEF Placed
    <3>4. o <= at[q]
      BY <1>5, <3>1, <3>3 DEF Ahead
    <3>5. end[q] = at[q] + Header
      BY <1>5, <3>1, <3>4 DEF NoneOf, K, t
    <3> QED BY <1>1, <1>7, <3>1, <3>5, ItemLong DEF K
  <2>3. CASE u # t
    <3>1. u \in Each(v)
      BY <1>2, <2>3
    <3> QED BY <2>1, <3>1, DueIs
  <2> QED BY <2>2, <2>3
<1>8. Completes(paths, schema, v, ram1)
  BY <1>1, <1>7, CompleteMoves DEF K
<1> QED BY <1>3, <1>4, <1>6, <1>8 DEF Loads, K, v

(* The item that was found, and where it lies in the file.                 *)
Hit(paths, at, end, ch, t, o, q, x) ==
  /\ x = at[q] + 1
  /\ q \in Kept(paths) /\ q \in Seq(Steps) /\ q # <<>> /\ CompOf(q) = t.comp /\ Front(q) = ch[Len(ch)]
  /\ Len(q) = Len(ch) /\ t.comp \in Known /\ t.idx \in Nat /\ Last(q)[1] = t.comp.name
  /\ t.path = ch[Len(ch)] /\ t.comp \in Parts(Schema, t.path)
  /\ at[q] \in Nat /\ end[q] \in Nat /\ o <= at[q] /\ at[q] + Header <= end[q] /\ o <= end[q]
  /\ end[q] <= end[Front(q)] /\ at[Front(q)] <= at[q]
  /\ q \in Kin(Kept(paths), Front(q))
  /\ \A r \in Kin(Kept(paths), Front(q)) :
       (Before(q, r) => end[q] <= at[r]) /\ (Before(r, q) => end[r] <= end[q])
  /\ Spot(Kept(paths), Front(q), at, end, end[q])

LEMMA HitIs ==
  ASSUME Packed, NEW paths \in Configs, NEW f, NEW schema \in {Schema, NewSchema}, NEW ch, NEW s,
         NEW st \in Seq(Contexts), NEW o, NEW at, NEW end, NEW ram1,
         Loads(paths, f, schema, ch, s, st, o, at, end, ram1), Head(s).do = "item",
         NEW x, FirstOf(Kept(paths), ch[Len(ch)], Head(s).comp, at, o, x), NEW q, q = PathOf(Head(s))
  PROVE  Hit(paths, at, end, ch, Head(s), o, q, x)
<1> DEFINE p == ch[Len(ch)]
           t == Head(s)
           K == Kept(paths)
<1>1. q \in Kept(paths) /\ o <= at[q] /\ x = at[q] + 1
  <2>1. Meets(paths, at, o, x, q)
    BY FoundItem
  <2> QED BY <2>1 DEF Meets
<1>2. Inner(paths, f, schema, ch, st, o, at, end, p)
  BY LoadsIs
<1>3. Walk(schema, ch, s) /\ o \in Nat
  BY DEF Loads
<1>4. /\ q = Below(p, t.comp, t.idx) /\ q # <<>> /\ Front(q) = p /\ CompOf(q) = t.comp /\ Len(q) = Len(ch)
      /\ q \in Seq(Steps) /\ Last(q) = <<t.comp.name, t.idx>> /\ t.idx \in Nat /\ t.comp \in Known
      /\ t.path = p
  BY <1>3, ItemHead
<1>5. t.comp \in Parts(Schema, t.path)
  <2>1. \E c \in Parts(Schema, Front(q)) : CompOf(q) = c
    BY <1>1, <1>4, KeptPart
  <2> QED BY <1>4, <2>1
<1> HIDE DEF p, t
<1>6. q \in Kin(K, p) /\ Last(q)[1] = t.comp.name
  BY <1>1, <1>4 DEF Kin
<1>7. \A r \in Kin(K, p) :
         /\ at[p] \in Nat /\ end[p] \in Nat /\ at[r] \in Nat /\ end[r] \in Nat
         /\ at[p] + Header <= at[r] /\ at[r] + Header <= end[r] /\ end[r] <= end[p]
         /\ Spot(K, p, at, end, end[r])
         /\ \A y \in Kin(K, p) : Before(r, y) => end[r] <= at[y]
  BY <1>2, KidLies DEF Inner
<1> HIDE DEF K
<1>8. /\ at[q] \in Nat /\ end[q] \in Nat /\ at[q] + Header <= end[q] /\ end[q] <= end[p]
      /\ at[p] \in Nat /\ at[p] + Header <= at[q] /\ Spot(K, p, at, end, end[q])
  BY <1>6, <1>7
<1>9. o <= end[q] /\ at[p] <= at[q]
  BY <1>1, <1>3, <1>8 DEF Header
<1>10. \A r \in Kin(K, p) : (Before(q, r) => end[q] <= at[r]) /\ (Before(r, q) => end[r] <= end[q])
  <2> TAKE r \in Kin(K, p)
  <2>1. Before(r, q) => end[r] <= at[q]
    BY <1>6, <1>7
  <2>2. end[r] \in Nat /\ (Before(q, r) => end[q] <= at[r])
    BY <1>6, <1>7
  <2> QED BY ONLY <1>8, <2>1, <2>2 DEF Header
<1> QED BY <1>1, <1>4, <1>5, <1>6, <1>8, <1>9, <1>10 DEF Hit, K, p, t

(* The value of a simple item in the file is that of the item.             *)
LEMMA ValueIs ==
  ASSUME NEW paths, NEW at, NEW end, Lays(paths, file, at, end), NEW q \in Kept(paths), q \in Seq(Steps),
         q # <<>>, CompOf(q).desc = Simple, CompOf(q) \in All(Schema), Last(q)[1] = CompOf(q).name,
         NEW h, h = at[q] + 1 + 1 + LenOf[CompOf(q).name]
  PROVE  h = end[q] /\ At(at[q] + 1 + 1).val = Value(q)
<1>1. CompOf(q).name \in SimpleNames
  BY DEF SimpleNames
<1>2. LenOf[CompOf(q).name] \in 1 .. LenMod - 1 /\ LenMod \in Nat
  BY <1>1, LenAssumption
<1>3. at[q] \in Nat /\ end[q] \in Nat /\ file \in Seq(Cells)
  BY DEF Lays, Offsets
<1>4. Item(Contents(file), Kept(paths), at, end, q)
  BY DEF Lays, Layout
<1>5. /\ end[q] = at[q] + Header + LenOf[CompOf(q).name]
      /\ \A o \in at[q] + Header .. end[q] - 1 : W(o, ValueCell(q)) \in Contents(file)
  BY <1>4 DEF Item
<1> DEFINE o == at[q] + 1 + 1
<1>6. o \in at[q] + Header .. end[q] - 1
  <2> DEFINE a == at[q]
             n == LenOf[CompOf(q).name]
  <2>1. a \in Nat /\ n \in Nat /\ 1 <= n /\ end[q] = a + 2 + n
    BY <1>2, <1>3, <1>5 DEF Header
  <2> HIDE DEF a, n
  <2>2. a + 1 + 1 \in a + 2 .. (a + 2 + n) - 1
    BY ONLY <2>1
  <2> QED BY <2>1, <2>2 DEF Header, a
<1>7. W(o, ValueCell(q)) \in Contents(file)
  BY <1>5, <1>6
<1>8. At(o) = ValueCell(q)
  <2> HIDE DEF o
  <2> QED BY <1>3, <1>7, ContentIs
<1>9. At(o).val = q
  BY <1>8 DEF ValueCell, Cell
<1>10. Value(q) = q
  BY <1>1 DEF Value
<1>11. h = end[q]
  BY <1>2, <1>3, <1>5 DEF Header
<1> QED BY <1>9, <1>10, <1>11

(* After a simple item the load goes on behind it.                         *)
LEMMA SimpleAt ==
  ASSUME Packed, NEW paths \in Configs, NEW schema \in {Schema, NewSchema}, NEW ch, NEW s,
         NEW st \in Seq(Contexts), NEW o, NEW at, NEW end, NEW ram1,
         Loads(paths, file, schema, ch, s, st, o, at, end, ram1), Head(s).do = "item",
         NEW c, c = Head(s).comp, c.desc = Simple,
         NEW x, FirstOf(Kept(paths), ch[Len(ch)], c, at, o, x), NEW q, q = PathOf(Head(s)),
         NEW h, h = x + 1 + LenOf[c.name], NEW val, val = At(x + 1).val,
         NEW ram2, ram2 = Put(ram1, q, val), NEW v, v = NextItem(Head(s)) \o Tail(s)
  PROVE  Loads(paths, file, schema, ch, v, st, h, at, end, ram2)
<1> DEFINE K == Kept(paths)
<1>1. /\ Whole(paths, file, at, end) /\ file \in Seq(Cells)
      /\ Walk(schema, ch, s) /\ Open(ch) \subseteq DOMAIN ram1
      /\ Loaded(paths, schema, ram1) /\ Completes(paths, schema, s, ram1)
      /\ Placed(Kept(paths), at, end, ch, s, o) /\ Lined(Kept(paths), s)
      /\ Stacked(ch, at, end, st) /\ o \in Nat
  BY DEF Loads
<1>2. Hit(paths, at, end, ch, Head(s), o, q, x)
  <2>1. FirstOf(Kept(paths), ch[Len(ch)], Head(s).comp, at, o, x)
    OBVIOUS
  <2> QED BY <2>1, HitIs
<1>3. Lays(paths, file, at, end) /\ at \in Offsets /\ end \in Offsets
  <2>1. Inner(paths, file, schema, ch, st, o, at, end, ch[Len(ch)])
    BY LoadsIs
  <2> QED BY <2>1 DEF Inner, Lays
<1>4. q \in Kept(paths) /\ q \in Seq(Steps) /\ q # <<>> /\ CompOf(q) = c
  BY <1>2 DEF Hit
<1>5. CompOf(q) \in All(Schema) /\ Last(q)[1] = CompOf(q).name
  <2>1. q \in paths
    BY <1>4, KeptIs
  <2> QED BY <1>4, <2>1, PathPart
<1>6. h = end[q] /\ val = Value(q)
  <2> DEFINE y == at[q] + 1 + 1 + LenOf[CompOf(q).name]
  <2>1. y = end[q] /\ At(at[q] + 1 + 1).val = Value(q)
    <3> HIDE DEF y
    <3>1. y = at[q] + 1 + 1 + LenOf[CompOf(q).name]
      BY DEF y
    <3>2. CompOf(q).desc = Simple
      BY <1>4
    <3> QED BY <1>3, <1>4, <1>5, <3>1, <3>2, ValueIs
  <2>2. h = y
    BY <1>2, <1>4 DEF Hit
  <2>3. val = At(at[q] + 1 + 1).val
    BY <1>2 DEF Hit
  <2> QED BY <2>1, <2>2, <2>3
<1>7. Named(schema, q)
  <2>1. Named(schema, ch[Len(ch)])
    <3>1. ch[Len(ch)] \in Open(ch)
      BY <1>1, LastOpen DEF Walk
    <3> QED BY <1>1, <3>1 DEF Loaded
  <2> QED BY <1>1, <2>1, NamedItem
<1>8. Loaded(paths, schema, ram2) /\ DOMAIN ram2 = DOMAIN ram1 \cup {q}
  <2>1. val = Value(q) /\ Loaded(paths, schema, ram1) /\ q \in Kept(paths)
    BY <1>1, <1>4, <1>6
  <2>2. Grown(paths, schema, ram1, ram2, q)
    BY ONLY <2>1, <1>7, ram2 = Put(ram1, q, val), LoadedGrows
  <2> QED BY <2>2 DEF Grown
<1>9. h \in Nat /\ o <= h
  BY <1>2, <1>6 DEF Hit
<1>10. /\ \A r \in Kin(K, Front(q)) : (Before(q, r) => h <= at[r]) /\ (Before(r, q) => end[r] <= h)
       /\ Spot(K, ch[Len(ch)], at, end, h)
  BY <1>2, <1>6 DEF Hit
<1>11. Placed(K, at, end, ch, v, h) /\ Lined(K, v) /\ Each(v) = Each(NextItem(Head(s))) \cup Each(Tail(s))
  <2> HIDE DEF K
  <2>1. /\ K = Kept(paths) /\ Walk(schema, ch, s) /\ at \in Offsets /\ end \in Offsets /\ o \in Nat
        /\ Placed(K, at, end, ch, s, o) /\ Lined(K, s) /\ Between(K, at, end, q, h)
        /\ q \in K /\ h \in Nat /\ h = end[q] /\ o <= h
    BY <1>1, <1>3, <1>4, <1>6, <1>9, <1>10 DEF K, Between
  <2>2. Passed(K, at, end, ch, NextItem(Head(s)), Tail(s), v, h)
    BY ONLY paths \in Configs, schema \in {Schema, NewSchema}, Head(s).do = "item", q = PathOf(Head(s)),
            <2>1, v = NextItem(Head(s)) \o Tail(s), PassItem
  <2> QED BY <2>2 DEF Passed
<1>12. Walk(schema, ch, v)
  <2>1. Flat(schema, ch, NextItem(Head(s)))
    BY <1>1, NextIs
  <2> QED BY <1>1, <2>1, WalkReplaces
<1>13. Completes(paths, schema, v, ram2)
  <2>1. \A r \in Due(K, s) : r \in DOMAIN ram2 \cup Due(K, v)
    <3>1. \A r \in Due(K, s) : r = q \/ r \in Due(K, v)
      BY <1>1, <1>11, DueNext
    <3> QED BY <1>8, <3>1
  <2>2. \A r \in K : r # <<>> /\ Named(schema, r) /\ Front(r) \in DOMAIN ram2 => Front(r) \in DOMAIN ram1
    <3>1. \A r \in K : r # <<>> => Front(r) # q
      BY <1>4, SimpleBare
    <3> QED BY <1>8, <3>1
  <2> HIDE DEF K
  <2>3. K = Kept(paths) /\ DOMAIN ram1 \subseteq DOMAIN ram2
    BY <1>8 DEF K
  <2>4. /\ \A r \in Due(Kept(paths), s) : r \in DOMAIN ram2 \cup Due(Kept(paths), v)
        /\ \A r \in Kept(paths) : r # <<>> /\ Named(schema, r) /\ Front(r) \in DOMAIN ram2 => Front(r) \in DOMAIN ram1
    BY <2>1, <2>2, <2>3
  <2> QED BY <1>1, <2>3, <2>4, CompleteMoves
<1>14. Open(ch) \subseteq DOMAIN ram2
  BY <1>1, <1>8
<1> QED BY <1>1, <1>8, <1>9, <1>10, <1>11, <1>12, <1>13, <1>14 DEF Loads

(* What is in a composite begins behind its header.                        *)
LEMMA SpotFirst ==
  ASSUME NEW paths, NEW f, NEW at, NEW end, Lays(paths, f, at, end), NEW q \in Kept(paths),
         CompOf(q).desc # Simple, NEW x, x = at[q] + Header
  PROVE  Spot(Kept(paths), q, at, end, x)
<1>1. Item(Contents(f), Kept(paths), at, end, q)
  BY DEF Lays, Layout
<1>2. Tile(Kin(Kept(paths), q), at, end, at[q] + Header, end[q])
  BY <1>1 DEF Item
<1> QED BY <1>2 DEF Tile, Spot

(* A composite that was found, its header read.                            *)
Entered(paths, at, end, q, x, ctx) ==
  /\ x + 1 = at[q] + Header /\ ctx = Extent(at, end, q) /\ x + 1 \in Nat
  /\ Spot(Kept(paths), q, at, end, x + 1) /\ Within(Kept(paths), at, q, x + 1)

LEMMA EntersIs ==
  ASSUME NEW paths \in Configs, NEW at, NEW end, Lays(paths, file, at, end), NEW q \in Kept(paths), q \in Seq(Steps),
         CompOf(q).desc # Simple, NEW x, x = at[q] + 1, at[q] + Header <= end[q], end[q] < LenMod,
         NEW ctx, ctx = Context((x + 1) % LenMod, At(x).len)
  PROVE  Entered(paths, at, end, q, x, ctx)
<1>1. at[q] \in Nat /\ end[q] \in Nat /\ At(x).len = Inside(at, q, end[q])
  BY HeaderIs
<1>2. LenMod \in Nat \ {0}
  BY LenAssumption
<1>3. x + 1 = at[q] + Header /\ x + 1 \in 0 .. LenMod - 1 /\ x + 1 \in Nat
  <2>1. x = at[q] + 1 /\ at[q] + 2 <= end[q] /\ end[q] < LenMod
    BY DEF Header
  <2>2. x + 1 = at[q] + 2 /\ x + 1 \in 0 .. LenMod - 1 /\ x + 1 \in Nat
    BY ONLY <1>1, <1>2, <2>1
  <2> QED BY <2>2 DEF Header
<1>4. (x + 1) % LenMod = x + 1
  BY ONLY <1>2, <1>3, Unwrapped
<1>5. ctx = Extent(at, end, q)
  BY <1>1, <1>3, <1>4 DEF Extent
<1>6. Spot(Kept(paths), q, at, end, x + 1)
  <2> DEFINE y == at[q] + Header
  <2>1. Spot(Kept(paths), q, at, end, y)
    <3> HIDE DEF y
    <3>1. y = at[q] + Header
      BY DEF y
    <3> QED BY <3>1, SpotFirst
  <2> QED BY <1>3, <2>1
<1>7. Within(Kept(paths), at, q, x + 1)
  <2>1. \A r \in Kin(Kept(paths), q) : at[q] + Header <= at[r]
    BY KidLies
  <2> QED BY <1>3, <2>1 DEF Within
<1> QED BY <1>3, <1>5, <1>6, <1>7 DEF Entered

(* A composite is begun.                                                   *)
LEMMA CompositeAt ==
  ASSUME Packed, NEW paths \in Configs, NEW schema \in {Schema, NewSchema}, NEW ch, NEW s,
         NEW st \in Seq(Contexts), NEW o, NEW at, NEW end, NEW ram1,
         Loads(paths, file, schema, ch, s, st, o, at, end, ram1), Head(s).do = "item",
         NEW c, c = Head(s).comp, c.desc # Simple,
         NEW x, FirstOf(Kept(paths), ch[Len(ch)], c, at, o, x), NEW q, q = PathOf(Head(s)),
         NEW ctx \in Contexts, ctx = Context((x + 1) % LenMod, At(x).len),
         NEW ram2, ram2 = Put(ram1, q, Group), NEW w, w = NextItem(Head(s)) \o Tail(s),
         NEW ob, ob = Task("OBJECT", c, Head(s).path, 0),
         NEW v, v = Opened(schema, q, ob) \o w, NEW up, up = Append(ch, q), NEW h, h = x + 1
  PROVE  Loads(paths, file, schema, up, v, Append(st, ctx), h, at, end, ram2)
<1> DEFINE K == Kept(paths)
           p == ch[Len(ch)]
<1>1. /\ Whole(paths, file, at, end) /\ file \in Seq(Cells)
      /\ Walk(schema, ch, s) /\ Open(ch) \subseteq DOMAIN ram1
      /\ Loaded(paths, schema, ram1) /\ Completes(paths, schema, s, ram1)
      /\ Placed(Kept(paths), at, end, ch, s, o) /\ Lined(Kept(paths), s)
      /\ Stacked(ch, at, end, st) /\ o \in Nat
  BY DEF Loads
<1>2. Hit(paths, at, end, ch, Head(s), o, q, x)
  <2>1. FirstOf(Kept(paths), ch[Len(ch)], Head(s).comp, at, o, x)
    OBVIOUS
  <2> QED BY <2>1, HitIs
<1>3. Lays(paths, file, at, end) /\ at \in Offsets /\ end \in Offsets
  <2>1. Inner(paths, file, schema, ch, st, o, at, end, ch[Len(ch)])
    BY LoadsIs
  <2> QED BY <2>1 DEF Inner, Lays
<1>4. /\ q \in Kept(paths) /\ q \in Seq(Steps) /\ q # <<>> /\ CompOf(q) = c /\ x = at[q] + 1 /\ Front(q) = p
      /\ Len(q) = Len(ch) /\ c \in Known /\ Head(s).path = p
      /\ at[q] \in Nat /\ end[q] \in Nat /\ at[q] + Header <= end[q] /\ o <= end[q]
      /\ end[q] <= end[p] /\ at[p] <= at[q] /\ Between(K, at, end, q, end[q])
  <2> HIDE DEF K, p
  <2>1. K = Kept(paths) /\ p = ch[Len(ch)]
    BY DEF K, p
  <2>2. c = Head(s).comp
    OBVIOUS
  <2>3. Between(K, at, end, q, end[q])
    BY <1>2, <2>1 DEF Hit, Between
  <2> QED BY <1>2, <2>1, <2>2, <2>3 DEF Hit
<1>5. Chain(schema, ch) /\ ch \in Seq(Seq(Steps)) /\ ch # <<>> /\ Len(ch) \in Nat
  BY <1>1, ChainIs DEF Walk
<1>6. end[q] < LenMod
  <2>1. Len(ch) \in 1 .. Len(ch) /\ LenMod \in Nat
    BY <1>1, ChainIs, LenAssumption DEF Walk
  <2>2. end[p] < LenMod
    BY <1>1, <2>1 DEF Stacked
  <2>3. end[p] \in Nat
    BY <1>3, <1>5, <2>1 DEF Offsets
  <2> HIDE DEF p
  <2> QED BY ONLY <1>4, <2>1, <2>2, <2>3
<1>7. Entered(paths, at, end, q, x, ctx)
  BY <1>3, <1>4, <1>6, EntersIs
<1>8. Walk(schema, ch, w)
  <2>1. Flat(schema, ch, NextItem(Head(s)))
    BY <1>1, NextIs
  <2> QED BY <1>1, <2>1, WalkReplaces
<1>9. /\ q = Below(p, c, Head(s).idx) /\ c \in Parts(schema, p) /\ Head(s).idx \in Nat
  BY <1>1, ItemHead
<1>10. Walk(schema, up, v)
  <2>1. Opened(schema, q, ob) = Components(schema, c, q) \o <<Task("OBJECT", c, p, 0)>>
    BY <1>4 DEF Opened
  <2> HIDE DEF p
  <2>2. /\ c \in Parts(schema, ch[Len(ch)]) /\ q = Below(ch[Len(ch)], c, Head(s).idx) /\ Head(s).idx \in Nat
        /\ p = ch[Len(ch)]
    BY <1>9 DEF p
  <2>3. Walk(schema, Append(ch, q),
             Components(schema, c, q) \o <<Task("OBJECT", c, ch[Len(ch)], 0)>> \o w)
    BY <1>8, <2>2, WalkOpens
  <2> QED BY <2>1, <2>2, <2>3
<1>11. ob \in Tasks /\ ob.do = "OBJECT"
  <2>1. p \in Seq(Steps) /\ 0 \in Nat
    BY <1>1, ItemHead
  <2> QED BY <1>4, <2>1, TaskIs
<1>12. Passed(K, at, end, ch, NextItem(Head(s)), Tail(s), w, end[q])
  <2> HIDE DEF K
  <2>1. /\ K = Kept(paths) /\ Walk(schema, ch, s) /\ at \in Offsets /\ end \in Offsets /\ o \in Nat
        /\ Placed(K, at, end, ch, s, o) /\ Lined(K, s) /\ Between(K, at, end, q, end[q])
        /\ q \in K /\ end[q] \in Nat /\ o <= end[q]
    BY <1>1, <1>3, <1>4 DEF K
  <2> QED BY ONLY paths \in Configs, schema \in {Schema, NewSchema}, Head(s).do = "item", q = PathOf(Head(s)),
                  <2>1, w = NextItem(Head(s)) \o Tail(s), PassItem
<1>13. Passed(K, at, end, up, Opened(schema, q, ob), w, v, h)
  <2> HIDE DEF K, p
  <2>1. K = Kept(paths) /\ Placed(K, at, end, ch, w, end[q]) /\ Lined(K, w) /\ Front(q) = ch[Len(ch)]
    BY <1>4, <1>12 DEF K, p, Passed
  <2>2. Within(K, at, q, h)
    BY <1>7, <2>1 DEF Entered
  <2>3. q \in Seq(Steps) /\ Len(q) = Len(ch) /\ q # <<>>
    BY <1>4
  <2> QED BY ONLY paths \in Configs, schema \in {Schema, NewSchema}, <1>8, <1>10, <1>11, <2>1, <2>2, <2>3,
                  up = Append(ch, q), v = Opened(schema, q, ob) \o w, PlacedOpens
<1>14. Named(schema, q)
  <2>1. Named(schema, ch[Len(ch)])
    <3>1. ch[Len(ch)] \in Open(ch)
      BY <1>1, LastOpen DEF Walk
    <3> QED BY <1>1, <3>1 DEF Loaded
  <2> QED BY <1>1, <2>1, NamedItem
<1>15. Loaded(paths, schema, ram2) /\ DOMAIN ram2 = DOMAIN ram1 \cup {q}
  <2>1. Value(q) = Group
    <3>1. q \in paths
      BY <1>4, KeptIs
    <3>2. Last(q)[1] = c.name
      BY <1>4, <3>1, PathPart
    <3>3. c.name \notin SimpleNames
      BY <1>4, CompositeName
    <3> QED BY <3>2, <3>3 DEF Value
  <2>2. Loaded(paths, schema, ram1) /\ q \in Kept(paths) /\ Group = Value(q)
    BY <1>1, <1>4, <2>1
  <2>3. Grown(paths, schema, ram1, ram2, q)
    BY ONLY <2>2, <1>14, ram2 = Put(ram1, q, Group), LoadedGrows
  <2> QED BY <2>3 DEF Grown
<1>16. Chain(schema, up) /\ q = up[Len(up)] /\ Len(up) = Len(ch) + 1 /\ \A j \in 1 .. Len(ch) : up[j] = ch[j]
  <2>1. Chain(schema, up)
    BY <1>10 DEF Walk
  <2> QED BY <1>5, <2>1
<1>17. Open(up) \subseteq DOMAIN ram2
  <2>1. up[Len(ch) + 1] = q
    BY <1>16
  <2>2. Open(up) = Open(ch) \cup {q}
    BY ONLY <1>5, <1>16, <2>1, OpenMore
  <2> QED BY <1>1, <1>15, <2>2
<1>18. Completes(paths, schema, v, ram2)
  <2>1. /\ Each(Opened(schema, q, ob)) \subseteq Each(v)
        /\ Each(NextItem(Head(s))) \cup Each(Tail(s)) \subseteq Each(v)
    BY <1>12, <1>13 DEF Passed
  <2> QED BY ONLY paths \in Configs, schema \in {Schema, NewSchema}, <1>1, Head(s).do = "item",
                  q = PathOf(Head(s)), <1>15, <1>16, <1>11, <2>1, CompleteOpens
<1>19. Stacked(up, at, end, Append(st, ctx))
  <2>1. at[q] <= end[q]
    BY <1>4 DEF Header
  <2>2. ctx = Extent(at, end, q)
    BY <1>7 DEF Entered
  <2> QED BY <1>1, <1>3, <1>4, <1>5, <2>1, <2>2, StackedOpens
<1>20. h \in Nat /\ Spot(Kept(paths), up[Len(up)], at, end, h)
  BY <1>7, <1>16 DEF Entered
<1>21. Placed(Kept(paths), at, end, up, v, h) /\ Lined(Kept(paths), v)
  BY <1>13 DEF Passed
<1> QED BY <1>1, <1>10, <1>15, <1>17, <1>18, <1>19, <1>20, <1>21 DEF Loads

(* A composite ends, and the load goes on behind it.                       *)
LEMMA CloseAt ==
  ASSUME NEW paths \in Configs, NEW f, NEW schema \in {Schema, NewSchema}, NEW ch, NEW s,
         NEW st \in Seq(Contexts), NEW o, NEW at, NEW end, NEW ram1,
         Loads(paths, f, schema, ch, s, st, o, at, end, ram1), Head(s).do = "OBJECT", Len(ch) # 1,
         NEW h, h = Last(st).at + Last(st).len, NEW v, v = Tail(s), NEW up, up = Front(ch)
  PROVE  Loads(paths, f, schema, up, v, Front(st), h, at, end, ram1)
<1> DEFINE K == Kept(paths)
           p == ch[Len(ch)]
<1>1. /\ Whole(paths, f, at, end) /\ f \in Seq(Cells)
      /\ Walk(schema, ch, s) /\ Open(ch) \subseteq DOMAIN ram1
      /\ Loaded(paths, schema, ram1) /\ Completes(paths, schema, s, ram1)
      /\ Placed(K, at, end, ch, s, o) /\ Lined(K, s)
      /\ Stacked(ch, at, end, st) /\ o \in Nat
  BY DEF Loads
<1>2. Inner(paths, f, schema, ch, st, o, at, end, p)
  BY LoadsIs
<1>3. h = end[p]
  <2>1. Last(st) = Extent(at, end, p) /\ at[p] \in Nat /\ end[p] \in Nat
    BY <1>2 DEF Inner
  <2>2. Last(st).at = at[p] + Header /\ Last(st).len = end[p] - (at[p] + Header)
    BY <2>1 DEF Extent, Context, Inside
  <2> HIDE DEF p
  <2> QED BY ONLY <2>1, <2>2, h = Last(st).at + Last(st).len DEF Header
<1>4. Shut(K, schema, ch, s, at, end, up, v, h)
  <2> HIDE DEF K
  <2>1. K = Kept(paths) /\ Placed(K, at, end, ch, s, o) /\ Lined(K, s) /\ h = end[ch[Len(ch)]]
    BY <1>1, <1>3 DEF K
  <2> QED BY <1>1, <2>1, PlacedCloses
<1> HIDE DEF p
<1>5. /\ Walk(schema, up, v) /\ Placed(K, at, end, up, v, h) /\ Lined(K, v)
      /\ Len(up) = Len(ch) - 1 /\ Len(up) \in 1 .. Len(ch) /\ Len(ch) \in Nat /\ Len(ch) # 0
      /\ \A j \in 1 .. Len(up) : up[j] = ch[j] /\ j \in 1 .. Len(ch)
      /\ Open(up) \subseteq Open(ch) /\ p # <<>> /\ Front(p) = up[Len(up)]
      /\ Each(v) \subseteq Each(s) /\ \A t \in Each(s) : t \in Each(v) \/ Stored(K, t) = {}
  BY <1>4 DEF Shut, p
<1>6. Spot(K, up[Len(up)], at, end, h) /\ h \in Nat
  <2>1. /\ Lays(paths, f, at, end) /\ p \in Kept(paths) /\ end[p] \in Nat
    BY <1>2 DEF Inner
  <2>2. p \in Kin(K, Front(p))
    BY <1>5, <2>1 DEF Kin
  <2>3. Front(p) \in Kept(paths) /\ CompOf(Front(p)).desc \in DOMAIN Schema
    BY <1>5, <2>1, KeptPart
  <2>4. CompOf(Front(p)).desc # Simple
    BY <2>3, SchemaAssumption
  <2>5. Spot(Kept(paths), Front(p), at, end, end[p])
    BY <2>1, <2>2, <2>3, <2>4, KidLies
  <2> QED BY <1>3, <1>5, <2>1, <2>5
<1>7. Stacked(up, at, end, Front(st))
  BY <1>1, <1>5, StackedCloses
<1>8. Completes(paths, schema, v, ram1)
  <2>1. \A r \in Due(K, s) : r \in Due(K, v)
    BY <1>5 DEF Due
  <2>2. \A r \in Due(Kept(paths), s) : r \in DOMAIN ram1 \cup Due(Kept(paths), v)
    BY <2>1
  <2> HIDE DEF K
  <2> QED BY <1>1, <2>2, CompleteMoves
<1>9. Open(up) \subseteq DOMAIN ram1
  BY <1>1, <1>5
<1> QED BY <1>1, <1>5, <1>6, <1>7, <1>8, <1>9 DEF Loads

(* The outermost composite ends, and with it the load.                     *)
LEMMA LastCloseAt ==
  ASSUME NEW paths \in Configs, NEW f, NEW schema \in {Schema, NewSchema}, NEW ch, NEW s,
         NEW st \in Seq(Contexts), NEW o, NEW at, NEW end, NEW ram1,
         Loads(paths, f, schema, ch, s, st, o, at, end, ram1), Head(s).do = "OBJECT", Len(ch) = 1,
         NEW v, v = Tail(s)
  PROVE  v = <<>> /\ Loaded(paths, schema, ram1) /\ Completes(paths, schema, v, ram1)
<1> DEFINE K == Kept(paths)
<1>1. /\ Walk(schema, ch, s) /\ Loaded(paths, schema, ram1) /\ Completes(paths, schema, s, ram1)
  BY DEF Loads
<1>2. v = <<>>
  BY <1>1, WalkCloses
<1>3. Each(s) = {Head(s)} \cup Each(Tail(s))
  BY <1>1, EachFits
<1>4. Stored(K, Head(s)) = {}
  BY DEF Stored
<1>5. \A r \in Due(K, s) : r \in Due(K, v)
  BY <1>3, <1>4 DEF Due
<1>6. \A r \in Due(Kept(paths), s) : r \in DOMAIN ram1 \cup Due(Kept(paths), v)
  BY <1>5
<1> HIDE DEF K
<1> QED BY <1>1, <1>2, <1>6, CompleteMoves

LEMMA BaseEnds ==
  ASSUME NEW ob, ob = Task("OBJECT", Base, <<>>, 0)
  PROVE  ob \in Tasks /\ ob.do = "OBJECT"
<1> DEFINE e == <<>>
<1>1. e \in Seq(Steps) /\ Base \in Known
  BY BaseIs, Empties
<1> HIDE DEF e
<1>2. Task("OBJECT", Base, e, 0) \in Tasks /\ Task("OBJECT", Base, e, 0).do = "OBJECT"
  BY <1>1, TaskIs
<1> QED BY <1>2 DEF e

(* The load of a whole file begins with the item that is all of it.        *)
LEMMA BaseAt ==
  ASSUME NEW paths \in Configs, NEW schema \in {Schema, NewSchema}, NEW at, NEW end, Whole(paths, file, at, end),
         file \in Seq(Cells), NEW x, x = 1,
         NEW ctx \in Contexts, ctx = Context((x + 1) % LenMod, At(x).len),
         NEW ram2, ram2 = Put(Defaults, <<>>, Group),
         NEW ob, ob = Task("OBJECT", Base, <<>>, 0), NEW v, v = Opened(schema, <<>>, ob),
         NEW ch, ch = <<<<>>>>, NEW st, Len(st) = 1, st[1] = ctx, NEW h, h = x + 1
  PROVE  Loads(paths, file, schema, ch, v, st, h, at, end, ram2)
<1> DEFINE K == Kept(paths)
           q == <<>>
<1>1. Len(ch) = 1 /\ ch[1] = q /\ ch[Len(ch)] = q /\ Open(ch) = {q} /\ ch \in Seq(Seq(Steps)) /\ q \in Seq(Steps)
  <2>1. q \in Seq(Steps)
    OBVIOUS
  <2> QED BY <2>1, OneItem
<1>2. /\ q \in K /\ at[q] = 0 /\ end[q] < LenMod /\ Lays(paths, file, at, end) /\ at \in Offsets /\ end \in Offsets
  BY DEF Whole, Lays
<1>3. CompOf(q) = Base /\ CompOf(q).desc # Simple /\ Base \in Known
  BY BaseIs
<1>4. ob \in Tasks /\ ob.do = "OBJECT"
  BY BaseEnds
<1>5. Walk(schema, ch, v) /\ Chain(schema, ch)
  <2>1. Walk(schema, ch, Components(schema, Base, <<>>) \o <<ob>>)
    BY WalkStarts
  <2>2. v = Components(schema, Base, <<>>) \o <<ob>>
    BY <1>3 DEF Opened
  <2> QED BY <2>1, <2>2 DEF Walk
<1>6. DOMAIN ram2 = {q} /\ ram2[q] = Group
  BY DEF Put, Defaults
<1> HIDE DEF q
<1>7. Item(Contents(file), K, at, end, q)
  BY <1>2 DEF Lays, Layout
<1>8. at[q] \in Nat /\ end[q] \in Nat /\ at[q] + Header <= end[q]
  <2>1. Tile(Kin(K, q), at, end, at[q] + Header, end[q])
    BY <1>3, <1>7 DEF Item
  <2> QED BY <1>1, <1>2, <2>1 DEF Tile, Offsets
<1>9. Entered(paths, at, end, q, x, ctx)
  <2>1. x = at[q] + 1
    BY <1>2
  <2>2. q \in Kept(paths)
    BY <1>2
  <2> QED BY <1>1, <1>2, <1>3, <1>8, <2>1, <2>2, EntersIs
<1>10. /\ h = at[q] + Header /\ ctx = Extent(at, end, q) /\ h \in Nat
       /\ Spot(K, q, at, end, h) /\ Within(K, at, q, h)
  BY <1>9 DEF Entered
<1>11. Begun(K, schema, q, ob, v)
  <2> HIDE DEF K
  <2>1. K = Kept(paths) /\ q = ch[Len(ch)] /\ v = Opened(schema, q, ob)
    BY <1>1 DEF K, q
  <2> QED BY <1>4, <1>5, <2>1, PartsLined
<1>12. Placed(K, at, end, ch, v, h) /\ Lined(K, v)
  <2> SUFFICES ASSUME NEW t \in Each(v), NEW r \in Stored(K, t)
               PROVE  IF Index(r) < From(t) THEN Behind(end, ch, h, r) ELSE Ahead(at, end, ch, h, r)
    BY <1>11 DEF Placed, Begun
  <2>1. t # ob
    BY <1>4 DEF Stored
  <2>2. t \in Tasks /\ t.do = "aggr" /\ t.path = q
    BY <1>11, <2>1 DEF Begun
  <2>3. From(t) = 0
    BY <2>2 DEF From
  <2>4. Fits(schema, ch, t)
    BY <1>5, EachFits
  <2>5. r \in Kin(K, q) /\ Front(r) = q /\ Index(r) \in Nat
    BY <1>5, <2>2, <2>4, StoredIs
  <2>6. h <= at[r]
    BY <1>10, <2>5 DEF Within
  <2>7. Ahead(at, end, ch, h, r)
    BY <1>1, <2>6 DEF Ahead, q
  <2> QED BY <2>3, <2>5, <2>7
<1>13. Stacked(ch, at, end, st)
  <2> SUFFICES ASSUME NEW j \in 1 .. Len(ch)
               PROVE  /\ st[j] = Extent(at, end, ch[j]) /\ end[ch[j]] < LenMod
                      /\ \A i \in 1 .. j : at[ch[i]] <= at[ch[j]] /\ end[ch[j]] <= end[ch[i]]
    BY <1>1 DEF Stacked
  <2>1. j = 1 /\ ch[j] = q
    BY <1>1
  <2> QED BY <1>1, <1>2, <1>8, <1>10, <2>1
<1>14. Loaded(paths, schema, ram2)
  <2>1. Named(schema, q) /\ Value(q) = Group
    BY DEF Named, Value, q
  <2> QED BY <1>2, <1>6, <2>1 DEF Loaded
<1>15. Completes(paths, schema, v, ram2)
  <2>1. ASSUME Keeping, NEW r \in K, r # <<>>, Named(schema, r), Front(r) \in DOMAIN ram2
        PROVE  r \in Due(K, v)
    <3> HIDE DEF K
    <3>1. K = Kept(paths) /\ q = ch[Len(ch)] /\ Front(r) = q /\ Each(Opened(schema, q, ob)) \subseteq Each(v)
      BY <1>1, <1>6, <2>1 DEF K, q
    <3> QED BY ONLY Keeping, paths \in Configs, <3>1, schema \in {Schema, NewSchema}, <1>5, <1>4,
                    r \in K, r # <<>>, Named(schema, r), PartDue
  <2>2. <<>> \in DOMAIN ram2
    BY <1>6 DEF q
  <2> QED BY <2>1, <2>2 DEF Completes, Complete
<1>16. Spot(K, ch[Len(ch)], at, end, h) /\ Open(ch) \subseteq DOMAIN ram2
  BY <1>1, <1>6, <1>10
<1> QED BY <1>5, <1>10, <1>12, <1>13, <1>14, <1>15, <1>16 DEF Loads

-----------------------------------------------------------------------------
(* The invariant of a load.                                                *)

(* A part of a configuration, of which a load finds nothing.               *)
Bare(f, schema, s, st, o, ram1) ==
  /\ Hollow(f) /\ DOMAIN ram1 \subseteq {<<>>}
  /\ \/ s = <<>> /\ st = <<>>
     \/ /\ Walk(schema, <<<<>>>>, s) /\ o = 2 /\ Len(st) = 1
        /\ st[1].at <= 2 /\ (st[1].len = 0 \/ Len(f) < 2)

LoadAt(paths, f, schema, s, st, o, ram1, cut) ==
  \/ s = <<Task("item", Base, <<>>, 0)>> /\ st = <<>> /\ o = 0 /\ ram1 = Defaults
  \/ cut /\ Bare(f, schema, s, st, o, ram1)
  \/ Done(paths, schema, s, st, ram1)
  \/ \E ch, at, end : Loads(paths, f, schema, ch, s, st, o, at, end, ram1)

LoadInv ==
  phase = "load" => LoadAt(saved, file, Running(upgraded), todo, stack, off, ram, crashed)

(* What a load has to do next, and where it is.                            *)
LEMMA LoadHead ==
  ASSUME NEW paths, NEW f, NEW schema \in {Schema, NewSchema}, NEW s, NEW st, NEW o, NEW ram1, NEW cut,
         LoadAt(paths, f, schema, s, st, o, ram1, cut), s # <<>>
  PROVE  \/ /\ Head(s) = Task("item", Base, <<>>, 0) /\ Tail(s) = <<>> /\ st = <<>> /\ o = 0 /\ ram1 = Defaults
            /\ Head(s).comp = Base /\ Head(s).path = <<>> /\ Head(s).idx = 0 /\ Head(s).do = "item"
         \/ cut /\ Bare(f, schema, s, st, o, ram1)
         \/ \E ch, at, end : Loads(paths, f, schema, ch, s, st, o, at, end, ram1)
<1>1. CASE s = <<Task("item", Base, <<>>, 0)>> /\ st = <<>> /\ o = 0 /\ ram1 = Defaults
  <2> DEFINE t == Task("item", Base, <<>>, 0)
  <2>1. t.comp = Base /\ t.path = <<>> /\ t.idx = 0 /\ t.do = "item"
    BY DEF Task
  <2> HIDE DEF t
  <2>2. s = <<t>>
    BY <1>1 DEF t
  <2>3. Head(s) = t /\ Tail(s) = <<>>
    BY <2>2
  <2> QED BY <1>1, <2>1, <2>3 DEF t
<1> QED BY <1>1 DEF LoadAt, Done

LEMMA BareIs ==
  ASSUME NEW f, NEW schema, NEW s, NEW st, NEW o, NEW ram1, Bare(f, schema, s, st, o, ram1), s # <<>>
  PROVE  /\ Hollow(f) /\ DOMAIN ram1 \subseteq {<<>>} /\ Walk(schema, <<<<>>>>, s) /\ o = 2 /\ Len(st) = 1
         /\ st[1].at <= 2 /\ (st[1].len = 0 \/ Len(f) < 2)
  BY DEF Bare

(* Nothing is found in what is hollow.                                     *)
LEMMA BareFinds ==
  ASSUME Typed, phase = "load", NEW schema, Bare(file, schema, todo, stack, off, ram), todo # <<>>, NEW c
  PROVE  FindType(c).res # "success"
<1>1. off \in Nat /\ file \in Seq(Cells) /\ stack \in Seq(Contexts) /\ (stack # <<>> => Top \in Contexts)
  BY LoadingIs
<1>2. off = 2 /\ Len(stack) = 1 /\ stack[1].at <= 2 /\ (stack[1].len = 0 \/ Len(file) < 2)
  BY BareIs
<1>3. stack # <<>> /\ Top = stack[1]
  <2>1. stack # <<>>
    BY <1>2, Empties
  <2> QED BY <1>1, <1>2, <2>1, FrontIs DEF Top
<1>4. Searchable
  BY <1>1, <1>3 DEF Searchable
<1>5. PICK find : Searching(c, find)
  BY <1>4, Searches
<1>6. FindType(c) = find[2]
  BY <1>2, <1>3, <1>5 DEF FindType, Searching
<1>7. find[2] = Finds(c, find, 2)
  BY <1>5 DEF Searching
<1>8. /\ Top.at \in Nat /\ Top.len \in Nat /\ Size \in Nat
      /\ (Room(2) <=> 2 + Header >= Top.at /\ 2 + Header < Top.at + Top.len)
  BY <1>4, RoomIs
<1>9. CASE ~Room(2)
  <2>1. find[2] = Found("not found", off)
    BY <1>7, <1>9 DEF Finds
  <2>2. Found("not found", off).res = "not found"
    BY DEF Found
  <2> QED BY <1>6, <2>1, <2>2
<1>10. CASE Room(2)
  <2>1. 2 >= Size
    BY <1>2, <1>3, <1>8, <1>10 DEF Header, Size
  <2>2. ~(2 < Size)
    BY <1>8, <2>1
  <2>3. find[2] = Found("read fail", 2)
    BY <1>7, <1>10, <2>1, <2>2 DEF Finds
  <2>4. Found("read fail", 2).res = "read fail"
    BY DEF Found
  <2> QED BY <1>6, <2>3, <2>4
<1> QED BY <1>9, <1>10

LEMMA BareGoes ==
  ASSUME NEW f, NEW schema \in {Schema, NewSchema}, NEW s, NEW st, NEW o, NEW ram1, Bare(f, schema, s, st, o, ram1),
         s # <<>>, NEW v, Walk(schema, <<<<>>>>, v)
  PROVE  Bare(f, schema, v, st, o, ram1)
  BY BareIs DEF Bare

LEMMA LoadStartLoads ==
  ASSUME Typed, LoadStart
  PROVE  LoadInv'
  BY DEF LoadStart, LoadInv, LoadAt

LEMMA LoadAggrLoads ==
  ASSUME Typed, LoadAggr, LoadInv
  PROVE  LoadInv'
<1> DEFINE t == Head(todo)
           schema == Running(upgraded)
           new == IF t.comp.name \in Volatile THEN <<>> ELSE <<Task("item", t.comp, t.path, 0)>>
           v == new \o Tail(todo)
<1>1. /\ phase = "load" /\ todo # <<>> /\ t.do = "aggr" /\ todo' = v
      /\ LoadFrame /\ UNCHANGED <<off, stack, ram>>
  BY DEF LoadAggr, Loading, Rest
<1>2. schema \in {Schema, NewSchema} /\ saved \in Configs
  BY <1>1, LoadingIs
<1>3. LoadAt(saved, file, schema, todo, stack, off, ram, crashed)
  BY <1>1 DEF LoadInv
<1> HIDE DEF schema
<1> SUFFICES LoadAt(saved, file, schema, v, stack, off, ram, crashed)
  BY <1>1 DEF LoadFrame, LoadInv, schema
<1>4. CASE crashed /\ Bare(file, schema, todo, stack, off, ram)
  <2> DEFINE ch == <<<<>>>>
  <2>1. Walk(schema, ch, todo)
    BY <1>1, <1>4, BareIs
  <2> HIDE DEF ch
  <2>2. Flat(schema, ch, new)
    BY <1>1, <1>2, <2>1, AggrInstead
  <2>3. Walk(schema, ch, v)
    BY <1>1, <1>2, <2>1, <2>2, WalkReplaces
  <2>4. Bare(file, schema, v, stack, off, ram)
    BY <1>1, <1>2, <1>4, <2>3, BareGoes DEF ch
  <2> QED BY <1>4, <2>4 DEF LoadAt
<1>5. CASE \E ch, at, end : Loads(saved, file, schema, ch, todo, stack, off, at, end, ram)
  <2>1. PICK ch, at, end : Loads(saved, file, schema, ch, todo, stack, off, at, end, ram)
    BY <1>5
  <2>2. Loads(saved, file, schema, ch, v, stack, off, at, end, ram)
    BY <1>1, <1>2, <2>1, AggrAt
  <2> QED BY <2>2 DEF LoadAt
<1>6. Head(todo).do # "item" /\ todo # <<>>
  BY <1>1
<1>7. \/ Head(todo).do = "item"
      \/ crashed /\ Bare(file, schema, todo, stack, off, ram)
      \/ \E ch, at, end : Loads(saved, file, schema, ch, todo, stack, off, at, end, ram)
  BY ONLY <1>2, <1>3, <1>6, LoadHead
<1> QED BY <1>4, <1>5, <1>6, <1>7

LEMMA LoadNotFoundLoads ==
  ASSUME Typed, LoadNotFound, LoadInv
  PROVE  LoadInv'
<1> DEFINE t == Head(todo)
           schema == Running(upgraded)
<1>1. phase = "load" /\ todo # <<>> /\ t.do = "item"
  BY LoadNotFoundIs
<1>2. CASE phase' # "load"
  BY <1>2 DEF LoadInv
<1>3. CASE phase' = "load"
  <2>1. /\ FindType(t.comp).res = "not found" /\ t.comp # Base
        /\ todo' = Tail(todo) /\ LoadFrame /\ UNCHANGED <<off, stack, ram>>
    <3>1. ~Fail("failed")
      BY <1>3 DEF Fail
    <3> QED BY <3>1, LoadNotFoundIs
  <2>2. schema \in {Schema, NewSchema} /\ saved \in Configs
    BY <1>1, LoadingIs
  <2>3. LoadAt(saved, file, schema, todo, stack, off, ram, crashed)
    BY <1>1 DEF LoadInv
  <2> HIDE DEF schema
  <2> SUFFICES LoadAt(saved, file, schema, Tail(todo), stack, off, ram, crashed)
    BY <2>1 DEF LoadFrame, LoadInv, schema
  <2>4. CASE crashed /\ Bare(file, schema, todo, stack, off, ram)
    <3> DEFINE ch == <<<<>>>>
    <3>1. Walk(schema, ch, todo)
      BY <1>1, <2>4, BareIs
    <3> HIDE DEF ch
    <3>2. Walk(schema, ch, Tail(todo))
      BY <1>1, <2>2, <3>1, WalkDone
    <3>3. Bare(file, schema, Tail(todo), stack, off, ram)
      BY <1>1, <2>2, <2>4, <3>2, BareGoes DEF ch
    <3> QED BY <2>4, <3>3 DEF LoadAt
  <2>5. CASE \E ch, at, end : Loads(saved, file, schema, ch, todo, stack, off, at, end, ram)
    <3>1. PICK ch, at, end : Loads(saved, file, schema, ch, todo, stack, off, at, end, ram)
      BY <2>5
    <3>2. Answer(Kept(saved), ch[Len(ch)], t.comp, at, end, off, FindType(t.comp))
      BY <1>1, <2>2, <3>1, Finding
    <3>3. NoneOf(Kept(saved), ch[Len(ch)], t.comp, at, end, off)
      BY <2>1, <3>2 DEF Answer
    <3>4. Loads(saved, file, schema, ch, Tail(todo), stack, off, at, end, ram)
      BY <1>1, <2>2, <3>1, <3>3, DropAt
    <3> QED BY <3>4 DEF LoadAt
  <2>6. \/ Head(todo).comp = Base
        \/ crashed /\ Bare(file, schema, todo, stack, off, ram)
        \/ \E ch, at, end : Loads(saved, file, schema, ch, todo, stack, off, at, end, ram)
    BY ONLY <2>2, <2>3, <1>1, LoadHead
  <2> QED BY <2>1, <2>4, <2>5, <2>6
<1> QED BY <1>2, <1>3

LEMMA LoadSimpleLoads ==
  ASSUME Packed, Typed, LoadSimple, LoadInv
  PROVE  LoadInv'
<1> DEFINE t == Head(todo)
           schema == Running(upgraded)
           found == FindType(t.comp)
           x == found.off
           c == t.comp
           h == x + 1 + LenOf[c.name]
           v == NextItem(t) \o Tail(todo)
<1>1. phase = "load" /\ todo # <<>> /\ t.do = "item" /\ c.desc = Simple /\ found.res = "success"
  BY DEF LoadSimple, Loading
<1>2. CASE phase' # "load"
  BY <1>2 DEF LoadInv
<1>3. CASE phase' = "load"
  <2>1. /\ ram' = Put(ram, PathOf(t), At(x + 1).val) /\ off' = h
        /\ todo' = v /\ LoadFrame /\ UNCHANGED stack
    BY <1>3 DEF LoadSimple, Fail, Rest
  <2>2. schema \in {Schema, NewSchema} /\ saved \in Configs /\ stack \in Seq(Contexts)
    BY <1>1, LoadingIs
  <2>3. LoadAt(saved, file, schema, todo, stack, off, ram, crashed)
    BY <1>1 DEF LoadInv
  <2> HIDE DEF schema
  <2>4. c # Base
    BY <1>1, BaseIs
  <2>5. ~Bare(file, schema, todo, stack, off, ram)
    BY <1>1, BareFinds
  <2>6. PICK ch, at, end : Loads(saved, file, schema, ch, todo, stack, off, at, end, ram)
    <3>1. \/ Head(todo).comp = Base
          \/ crashed /\ Bare(file, schema, todo, stack, off, ram)
          \/ \E ch, at, end : Loads(saved, file, schema, ch, todo, stack, off, at, end, ram)
      BY ONLY <2>2, <2>3, <1>1, LoadHead
    <3> QED BY <2>4, <2>5, <3>1
  <2>7. FirstOf(Kept(saved), ch[Len(ch)], c, at, off, x)
    <3>1. Answer(Kept(saved), ch[Len(ch)], c, at, end, off, found)
      BY <1>1, <2>2, <2>6, Finding
    <3> QED BY <1>1, <3>1 DEF Answer
  <2>8. Loads(saved, file, schema, ch, todo', stack', off', at, end, ram')
    <3> DEFINE q == PathOf(t)
               val == At(x + 1).val
               y == x
    <3>1. h = y + 1 + LenOf[c.name] /\ val = At(y + 1).val /\ FirstOf(Kept(saved), ch[Len(ch)], c, at, off, y)
      BY <2>7
    <3> HIDE DEF q, val, y, h, c
    <3>2. ram' = Put(ram, q, val) /\ off' = h /\ stack' = stack /\ todo' = NextItem(Head(todo)) \o Tail(todo)
          /\ q = PathOf(Head(todo)) /\ c = Head(todo).comp /\ c.desc = Simple /\ Head(todo).do = "item"
      BY <1>1, <2>1 DEF q, val, h, c
    <3> QED BY ONLY Packed, <2>2, <2>6, <3>1, <3>2, SimpleAt
  <2>9. LoadAt(saved, file, schema, todo', stack', off', ram', crashed)
    BY <2>8 DEF LoadAt
  <2> QED BY <2>1, <2>9 DEF LoadFrame, LoadInv, schema
<1> QED BY <1>2, <1>3

LEMMA LoadCloseLoads ==
  ASSUME Typed, LoadClose, LoadInv
  PROVE  LoadInv'
<1> DEFINE t == Head(todo)
           schema == Running(upgraded)
           h == Last(stack).at + Last(stack).len
<1>1. /\ phase = "load" /\ todo # <<>> /\ t.do = "OBJECT" /\ off' = h
      /\ stack' = Front(stack) /\ todo' = Tail(todo) /\ LoadFrame /\ ram' = ram
  BY DEF LoadClose, Loading, Rest, Top
<1>2. schema \in {Schema, NewSchema} /\ saved \in Configs /\ stack \in Seq(Contexts)
  BY <1>1, LoadingIs
<1>3. LoadAt(saved, file, schema, todo, stack, off, ram, crashed)
  BY <1>1 DEF LoadInv
<1> HIDE DEF schema, h
<1> SUFFICES LoadAt(saved, file, schema, Tail(todo), Front(stack), h, ram, crashed)
  BY <1>1 DEF LoadFrame, LoadInv, schema
<1>4. ASSUME Len(stack) = 1 PROVE Front(stack) = <<>>
  <2>1. stack # <<>>
    BY <1>4, Empties
  <2>2. Len(Front(stack)) = 0 /\ Front(stack) \in Seq(Contexts)
    BY <1>2, <1>4, <2>1, FrontIs
  <2> QED BY <2>2
<1>5. CASE crashed /\ Bare(file, schema, todo, stack, off, ram)
  <2> DEFINE ch == <<<<>>>>
  <2>1. Walk(schema, ch, todo) /\ Len(stack) = 1 /\ Hollow(file) /\ DOMAIN ram \subseteq {<<>>}
    BY <1>1, <1>5, BareIs
  <2>2. Len(ch) = 1
    BY OneItem
  <2> HIDE DEF ch
  <2>3. Tail(todo) = <<>>
    BY <1>1, <1>2, <2>1, <2>2, WalkCloses
  <2> QED BY <1>4, <1>5, <2>1, <2>3 DEF LoadAt, Bare
<1>6. CASE \E ch, at, end : Loads(saved, file, schema, ch, todo, stack, off, at, end, ram)
  <2>1. PICK ch, at, end : Loads(saved, file, schema, ch, todo, stack, off, at, end, ram)
    BY <1>6
  <2>2. CASE Len(ch) = 1
    <3>1. Tail(todo) = <<>> /\ Loaded(saved, schema, ram) /\ Completes(saved, schema, Tail(todo), ram)
      BY <1>1, <1>2, <2>1, <2>2, LastCloseAt
    <3>2. Len(stack) = 1
      BY <2>1, <2>2 DEF Loads, Stacked
    <3> QED BY <1>4, <3>1, <3>2 DEF LoadAt, Done
  <2>3. CASE Len(ch) # 1
    <3>1. h = Last(stack).at + Last(stack).len
      BY DEF h
    <3>2. Loads(saved, file, schema, Front(ch), Tail(todo), Front(stack), h, at, end, ram)
      BY <1>1, <1>2, <2>1, <2>3, <3>1, CloseAt
    <3> QED BY <3>2 DEF LoadAt
  <2> QED BY <2>2, <2>3
<1>7. Head(todo).do # "item" /\ todo # <<>>
  BY <1>1
<1>8. \/ Head(todo).do = "item"
      \/ crashed /\ Bare(file, schema, todo, stack, off, ram)
      \/ \E ch, at, end : Loads(saved, file, schema, ch, todo, stack, off, at, end, ram)
  BY ONLY <1>2, <1>3, <1>7, LoadHead
<1> QED BY <1>5, <1>6, <1>7, <1>8

(* The header that is read of what was found.                              *)
LEMMA LoadCompositeIs ==
  ASSUME Typed, LoadComposite, NEW t, t = Head(todo), NEW x, x = FindType(t.comp).off
  PROVE  /\ phase = "load" /\ todo # <<>> /\ t.do = "item" /\ t.comp.desc # Simple
         /\ FindType(t.comp).res = "success" /\ LoadFrame /\ off' = x + 1 /\ x \in Nat
         /\ ram' = Put(ram, PathOf(t), Group)
         /\ todo' = Components(Running(upgraded), t.comp, PathOf(t))
                      \o <<Task("OBJECT", t.comp, t.path, 0)>> \o NextItem(t) \o Tail(todo)
         /\ \E len \in Lens : /\ x < Size => len = At(x).len
                              /\ Context((x + 1) % LenMod, len) \in Contexts
                              /\ stack' = Append(stack, Context((x + 1) % LenMod, len))
<1>1. /\ phase = "load" /\ todo # <<>> /\ t.do = "item" /\ t.comp.desc # Simple
      /\ FindType(t.comp).res = "success" /\ LoadFrame /\ off' = x + 1
      /\ ram' = Put(ram, PathOf(t), Group)
      /\ todo' = Components(Running(upgraded), t.comp, PathOf(t))
                   \o <<Task("OBJECT", t.comp, t.path, 0)>> \o NextItem(t) \o Tail(todo)
  BY DEF LoadComposite, Loading, Rest
<1>2. PICK len \in IF x < Size THEN {At(x).len} ELSE 0 .. LenMod - 1 :
        stack' = Append(stack, Context((x + 1) % LenMod, len))
  BY DEF LoadComposite
<1>3. x \in Nat
  <2>1. PICK q \in Nat : x = q + 1
    BY <1>1, FoundOff
  <2> QED BY <2>1
<1>4. len \in Lens /\ (x < Size => len = At(x).len)
  <2>1. CASE x < Size
    <3>1. file \in Seq(Cells) /\ x < Len(file)
      BY <1>1, <2>1, LoadingIs DEF Size
    <3>2. x + 1 \in 1 .. Len(file)
      BY <1>3, <3>1
    <3>3. At(x) \in Cells
      BY <3>1, <3>2 DEF At
    <3>4. At(x).len \in Lens
      BY <3>3 DEF Cells
    <3> QED BY <1>2, <2>1, <3>4
  <2>2. CASE ~(x < Size)
    BY <1>2, <2>2 DEF Lens
  <2> QED BY <2>1, <2>2
<1>5. Context((x + 1) % LenMod, len) \in Contexts
  <2>1. (x + 1) % LenMod \in Nat
    BY <1>3, LenAssumption
  <2> QED BY <1>4, <2>1 DEF Context, Contexts
<1> QED BY <1>1, <1>2, <1>3, <1>4, <1>5

(* The load of any file that there may be begins.                          *)
LEMMA BaseLoads ==
  ASSUME Typed, phase = "load", FileInv, stack = <<>>, off = 0, ram = Defaults,
         NEW schema \in {Schema, NewSchema}, NEW x, x = FindType(Base).off, FindType(Base).res = "success",
         NEW ob, ob = Task("OBJECT", Base, <<>>, 0), NEW v, v = Opened(schema, <<>>, ob), Walk(schema, <<<<>>>>, v),
         NEW len \in Lens, x < Size => len = At(x).len, NEW ctx \in Contexts, ctx = Context((x + 1) % LenMod, len),
         NEW st, st = Append(<<>>, ctx), NEW ram2, ram2 = Put(ram, <<>>, Group), NEW h, h = x + 1
  PROVE  LoadAt(saved, file, schema, v, st, h, ram2, crashed)
<1>1. saved \in Configs /\ file \in Seq(Cells) /\ LenMod \in Nat \ {0} /\ Size \in Nat
  BY LoadingIs, LenAssumption DEF Size
<1>2. ~(off >= Size) /\ x = off + 1
  <2>1. FindType(Base) = IF off >= Size THEN Found("read fail", off)
                         ELSE IF Matches(off, Base) THEN Found("success", off + 1) ELSE Found("not found", off)
    BY DEF FindType
  <2>2. /\ Found("read fail", off).res = "read fail" /\ Found("not found", off).res = "not found"
        /\ Found("success", off + 1).off = off + 1
    BY DEF Found
  <2> QED BY <2>1, <2>2
<1>3. x = 1 /\ 0 < Size
  BY <1>1, <1>2
<1>4. Len(st) = 1 /\ st[1] = ctx
  OBVIOUS
<1>5. saved # Nothing
  BY <1>1, SavedSome
<1>6. FileAt(saved, file, crashed)
  BY <1>5 DEF FileInv
<1>7. CASE \E at, end : Whole(saved, file, at, end)
  <2>1. PICK at, end : Whole(saved, file, at, end)
    BY <1>7
  <2> DEFINE q == <<>>
             ch == <<<<>>>>
  <2>2. q \in Kept(saved) /\ at[q] = 0 /\ Lays(saved, file, at, end) /\ q \in Seq(Steps)
    BY <1>1, <2>1, Empties DEF Whole, Lays
  <2>3. at[q] + 1 < Size
    <3> HIDE DEF q
    <3> QED BY <2>2, HeaderIs
  <2>4. x < Size /\ ctx = Context((x + 1) % LenMod, At(x).len)
    BY <1>3, <2>2, <2>3
  <2>5. ram2 = Put(Defaults, <<>>, Group) /\ x = 1
    BY <1>3
  <2>6. Loads(saved, file, schema, ch, v, st, h, at, end, ram2)
    BY <1>1, <1>4, <2>1, <2>4, <2>5, BaseAt
  <2> QED BY <2>6 DEF LoadAt
<1>8. CASE Hollow(file) /\ crashed
  <2>1. DOMAIN ram2 \subseteq {<<>>}
    BY DEF Put, Defaults
  <2>2. h = 2 /\ 2 % LenMod <= 2
    BY <1>1, <1>3
  <2>3. ctx.at = 2 % LenMod /\ ctx.len = len
    BY <1>3 DEF Context
  <2>4. len = 0 \/ Len(file) < 2
    <3>1. CASE Len(file) < 2
      BY <3>1
    <3>2. CASE ~(Len(file) < 2)
      <4>1. x < Size /\ file[2].len = 0
        BY <1>1, <1>3, <1>8, <3>2 DEF Size, Hollow
      <4>2. At(x) = file[2]
        BY <1>3 DEF At
      <4> QED BY <4>1, <4>2
    <3> QED BY <3>1, <3>2
  <2> QED BY <1>4, <1>8, <2>1, <2>2, <2>3, <2>4 DEF LoadAt, Bare
<1>9. file # <<>>
  BY <1>1, <1>3 DEF Size
<1> QED BY <1>6, <1>7, <1>8, <1>9 DEF FileAt

LEMMA LoadCompositeLoads ==
  ASSUME Packed, Typed, LoadComposite, LoadInv, FileInv
  PROVE  LoadInv'
<1> DEFINE t == Head(todo)
           c == t.comp
           schema == Running(upgraded)
           x == FindType(c).off
           ob == Task("OBJECT", c, t.path, 0)
           q == PathOf(t)
           next == NextItem(t)
<1>1. /\ phase = "load" /\ todo # <<>> /\ t.do = "item" /\ c.desc # Simple
      /\ FindType(c).res = "success" /\ LoadFrame /\ off' = x + 1 /\ x \in Nat
      /\ ram' = Put(ram, q, Group)
      /\ todo' = Components(schema, c, q) \o <<ob>> \o next \o Tail(todo)
      /\ \E len \in Lens : /\ x < Size => len = At(x).len
                           /\ Context((x + 1) % LenMod, len) \in Contexts
                           /\ stack' = Append(stack, Context((x + 1) % LenMod, len))
  BY LoadCompositeIs
<1>2. schema \in {Schema, NewSchema} /\ saved \in Configs /\ stack \in Seq(Contexts)
  BY <1>1, LoadingIs
<1>3. LoadAt(saved, file, schema, todo, stack, off, ram, crashed)
  BY <1>1 DEF LoadInv
<1> HIDE DEF schema
<1>4. PICK len \in Lens : /\ x < Size => len = At(x).len
                          /\ Context((x + 1) % LenMod, len) \in Contexts
                          /\ stack' = Append(stack, Context((x + 1) % LenMod, len))
  BY <1>1
<1> DEFINE ctx == Context((x + 1) % LenMod, len)
<1> HIDE DEF q, next, x, ctx
<1> SUFFICES LoadAt(saved, file, schema, todo', stack', off', ram', crashed)
  BY <1>1 DEF LoadFrame, LoadInv, schema
<1>5. CASE \E ch, at, end : Loads(saved, file, schema, ch, todo, stack, off, at, end, ram)
  <2>1. PICK ch, at, end : Loads(saved, file, schema, ch, todo, stack, off, at, end, ram)
    BY <1>5
  <2>2. Answer(Kept(saved), ch[Len(ch)], c, at, end, off, FindType(c))
    BY <1>1, <1>2, <2>1, Finding
  <2>3. FirstOf(Kept(saved), ch[Len(ch)], c, at, off, x)
    BY <1>1, <2>2 DEF Answer, x
  <2>4. Walk(schema, ch, todo)
    BY <2>1 DEF Loads
  <2>5. todo' = Opened(schema, q, ob) \o (next \o Tail(todo))
    <3>1. /\ Head(todo).do = "item" /\ c = Head(todo).comp /\ c.desc # Simple /\ q = PathOf(Head(todo))
          /\ ob = Task("OBJECT", c, Head(todo).path, 0) /\ next = NextItem(Head(todo))
          /\ todo' = Components(schema, c, q) \o <<ob>> \o next \o Tail(todo)
      BY <1>1 DEF q, next
    <3> HIDE DEF ob, c
    <3>2. Opens(todo', schema, q, ob, next, todo)
      BY ONLY <1>2, <2>4, <3>1, CompositeTasks
    <3> QED BY <3>2 DEF Opens
  <2>6. x < Size
    <3>1. PICK r \in Kin(Kept(saved), ch[Len(ch)]) : x = at[r] + 1
      BY <2>3 DEF FirstOf
    <3>2. Inner(saved, file, schema, ch, stack, off, at, end, ch[Len(ch)])
      BY <1>2, <2>1, LoadsIs
    <3>3. Lays(saved, file, at, end)
      BY <3>2 DEF Inner
    <3>4. r \in Kept(saved) /\ r \in Seq(Steps)
      BY <1>2, KeptIs DEF Kin
    <3> QED BY <3>1, <3>3, <3>4, HeaderIs
  <2>7. ctx \in Contexts /\ ctx = Context((x + 1) % LenMod, At(x).len) /\ stack' = Append(stack, ctx)
    BY <1>4, <2>6 DEF ctx
  <2> DEFINE w == next \o Tail(todo)
             up == Append(ch, q)
  <2>8. Loads(saved, file, schema, up, todo', Append(stack, ctx), off', at, end, ram')
    <3>1. /\ w = NextItem(Head(todo)) \o Tail(todo) /\ todo' = Opened(schema, q, ob) \o w
          /\ up = Append(ch, q) /\ q = PathOf(Head(todo)) /\ off' = x + 1 /\ ram' = Put(ram, q, Group)
          /\ Head(todo).do = "item" /\ c = Head(todo).comp /\ c.desc # Simple
          /\ ob = Task("OBJECT", c, Head(todo).path, 0)
      BY <1>1, <2>5 DEF q, next
    <3> HIDE DEF w, up, ob, c
    <3> QED BY ONLY Packed, <1>2, <2>1, <2>3, <2>7, <3>1, CompositeAt
  <2> QED BY <2>7, <2>8 DEF LoadAt
<1>6. CASE /\ t = Task("item", Base, <<>>, 0) /\ Tail(todo) = <<>> /\ stack = <<>> /\ off = 0 /\ ram = Defaults
           /\ c = Base /\ t.path = <<>>
  <2>1. ob = Task("OBJECT", Base, <<>>, 0) /\ q = <<>>
    BY <1>6 DEF q, PathOf
  <2>2. todo' = Opened(schema, <<>>, ob) /\ Walk(schema, <<<<>>>>, todo')
    <3>1. todo' = Components(schema, t.comp, PathOf(t)) \o <<ob>> \o NextItem(t) \o <<>>
      BY <1>1, <1>6 DEF q, next
    <3> HIDE DEF t, ob
    <3> QED BY <1>2, <1>6, <2>1, <3>1, BaseTasks
  <2>3. ctx \in Contexts /\ ctx = Context((x + 1) % LenMod, len) /\ stack' = Append(<<>>, ctx)
        /\ ram' = Put(ram, <<>>, Group) /\ x = FindType(Base).off /\ FindType(Base).res = "success" /\ off' = x + 1
    BY <1>1, <1>4, <1>6, <2>1 DEF ctx, x
  <2>4. /\ phase = "load" /\ stack = <<>> /\ off = 0 /\ ram = Defaults
        /\ x < Size => len = At(x).len
    BY <1>1, <1>4, <1>6
  <2> HIDE DEF ob
  <2> QED BY ONLY Typed, FileInv, <1>2, <2>1, <2>2, <2>3, <2>4, len \in Lens, BaseLoads
<1>7. ~Bare(file, schema, todo, stack, off, ram)
  BY <1>1, BareFinds DEF x
<1>8. \/ /\ Head(todo) = Task("item", Base, <<>>, 0) /\ Tail(todo) = <<>> /\ stack = <<>> /\ off = 0 /\ ram = Defaults
         /\ Head(todo).comp = Base /\ Head(todo).path = <<>>
      \/ crashed /\ Bare(file, schema, todo, stack, off, ram)
      \/ \E ch, at, end : Loads(saved, file, schema, ch, todo, stack, off, at, end, ram)
  <2>1. todo # <<>>
    BY <1>1
  <2> QED BY ONLY <1>2, <1>3, <2>1, LoadHead
<1> QED BY <1>5, <1>6, <1>7, <1>8

LEMMA LoadKeeps ==
  ASSUME Packed, Typed, [Next]_vars, LoadInv, FileInv
  PROVE  LoadInv'
<1>1. CASE UNCHANGED vars
  BY <1>1 DEF vars, LoadInv
<1>2. CASE phase' # "load"
  BY <1>2 DEF LoadInv
<1>3. CASE SaveStart \/ SaveAggr \/ SaveSimple \/ SaveComposite \/ SaveClose
  <2>1. phase' = "save"
    BY <1>3, Zenon DEF SaveStart, SaveAggr, SaveSimple, SaveComposite, SaveClose, SaveFrame, Saving
  <2> QED BY <1>2, <2>1
<1>4. CASE SaveEnd \/ LoadEnd \/ LoadNoMemory \/ Crash \/ LoadUnopened
  <2>1. phase' # "load"
    BY <1>4 DEF SaveEnd, LoadEnd, LoadNoMemory, Fail, Crash, LoadUnopened
  <2> QED BY <1>2, <2>1
<1> QED BY <1>1, <1>3, <1>4, LoadStartLoads, LoadAggrLoads, LoadNotFoundLoads, LoadSimpleLoads,
           LoadCompositeLoads, LoadCloseLoads DEF Next, SaveStep, LoadStep

LEMMA LoadedOnly ==
  ASSUME Typed, LoadInv
  PROVE  OnlySaved
<1> SUFFICES ASSUME phase = "load", NEW p \in DOMAIN ram \ {<<>>}
             PROVE  p \in DOMAIN Owed[saved][upgraded] /\ ram[p] = Owed[saved][upgraded][p]
  BY DEF OnlySaved
<1> DEFINE schema == Running(upgraded)
<1>1. saved \in Configs /\ upgraded \in BOOLEAN
  BY LoadingIs DEF Typed
<1>2. LoadAt(saved, file, schema, todo, stack, off, ram, crashed)
  BY DEF LoadInv
<1> HIDE DEF schema
<1>3. Loaded(saved, schema, ram)
  <2>1. CASE ram = Defaults
    BY <2>1 DEF Defaults
  <2>2. CASE Bare(file, schema, todo, stack, off, ram)
    BY <2>2 DEF Bare
  <2> QED BY <1>2, <2>1, <2>2 DEF LoadAt, Done, Loads
<1>4. schema = Running(upgraded)
  BY DEF schema
<1> QED BY <1>1, <1>3, <1>4, OnlyLoaded

LEMMA ContextsIn ==
  ASSUME NEW paths \in Configs, NEW f, NEW schema \in {Schema, NewSchema}, NEW ch, NEW s,
         NEW st \in Seq(Contexts), NEW o, NEW at, NEW end, NEW ram1,
         Loads(paths, f, schema, ch, s, st, o, at, end, ram1), NEW i \in 1 .. Len(st),
         NEW last, last = st[i].at + st[i].len
  PROVE  /\ o \in st[i].at .. last
         /\ i > 1 => last <= st[i - 1].at + st[i - 1].len
<1> DEFINE p == ch[Len(ch)]
<1>1. Walk(schema, ch, s) /\ Stacked(ch, at, end, st) /\ o \in Nat
  BY DEF Loads
<1>2. Inner(paths, f, schema, ch, st, o, at, end, p)
  BY LoadsIs
<1>3. /\ at[p] \in Nat /\ end[p] \in Nat /\ at[p] + Header <= o /\ o <= end[p] /\ at \in Offsets /\ end \in Offsets
      /\ Chain(schema, ch)
  BY <1>2 DEF Inner, Lays
<1>4. Len(ch) \in Nat \ {0} /\ Len(ch) \in 1 .. Len(ch) /\ Len(st) = Len(ch) /\ \A j \in 1 .. Len(ch) : ch[j] \in Seq(Steps)
  BY <1>1, <1>3, ChainIs DEF Stacked
<1>5. \A j \in 1 .. Len(ch) :
        /\ at[ch[j]] \in Nat /\ end[ch[j]] \in Nat
        /\ st[j].at = at[ch[j]] + 2 /\ st[j].len = end[ch[j]] - (at[ch[j]] + 2)
  <2> TAKE j \in 1 .. Len(ch)
  <2>1. st[j] = Extent(at, end, ch[j])
    BY <1>1 DEF Stacked
  <2>2. at[ch[j]] \in Nat /\ end[ch[j]] \in Nat
    BY <1>3, <1>4 DEF Offsets
  <2>3. st[j] = [at |-> at[ch[j]] + 2, len |-> end[ch[j]] - (at[ch[j]] + 2)]
    BY <2>1 DEF Extent, Context, Inside, Header
  <2>4. st[j].at = at[ch[j]] + 2 /\ st[j].len = end[ch[j]] - (at[ch[j]] + 2)
    BY ONLY <2>3
  <2> QED BY <2>2, <2>4
<1>6. i \in 1 .. Len(ch) /\ at[ch[i]] <= at[p] /\ end[p] <= end[ch[i]]
  BY <1>1, <1>4 DEF Stacked
<1>7. i > 1 => i - 1 \in 1 .. Len(ch) /\ end[ch[i]] <= end[ch[i - 1]]
  <2> SUFFICES ASSUME i > 1 PROVE i - 1 \in 1 .. Len(ch) /\ end[ch[i]] <= end[ch[i - 1]]
    OBVIOUS
  <2>1. i - 1 \in 1 .. Len(ch) /\ i - 1 \in 1 .. i
    BY <1>4, <1>6
  <2> QED BY <1>1, <1>6, <2>1 DEF Stacked
<1> HIDE DEF p
<1>8. last = end[ch[i]]
  BY <1>5, <1>6
<1>9. o \in st[i].at .. last
  <2> DEFINE a == at[ch[i]]
             e == end[ch[i]]
             b == at[p]
             d == end[p]
  <2>1. a \in Nat /\ e \in Nat /\ st[i].at = a + 2 /\ last = e
    BY <1>5, <1>6, <1>8
  <2>2. o \in Nat /\ b \in Nat /\ d \in Nat /\ b + 2 <= o /\ o <= d /\ a <= b /\ d <= e
    BY <1>1, <1>3, <1>6 DEF Header
  <2> HIDE DEF a, e, b, d
  <2>3. o \in a + 2 .. e
    BY ONLY <2>1, <2>2
  <2> QED BY <2>1, <2>3
<1>10. i > 1 => last <= st[i - 1].at + st[i - 1].len
  <2> SUFFICES ASSUME i > 1 PROVE last <= st[i - 1].at + st[i - 1].len
    OBVIOUS
  <2> DEFINE j == i - 1
             e == end[ch[j]]
  <2>1. j \in 1 .. Len(ch) /\ last <= e
    BY <1>7, <1>8
  <2> HIDE DEF j
  <2>2. e \in Nat /\ at[ch[j]] \in Nat /\ st[j].at = at[ch[j]] + 2 /\ st[j].len = e - (at[ch[j]] + 2)
    BY <1>5, <2>1
  <2>3. st[j].at + st[j].len = e
    BY ONLY <2>2
  <2> QED BY <2>1, <2>3 DEF j
<1> QED BY <1>9, <1>10

LEMMA LoadedInside ==
  ASSUME Typed, LoadInv
  PROVE  InsideComposite
<1> SUFFICES ASSUME phase = "load", ~crashed, NEW i \in DOMAIN stack
             PROVE  LET end == stack[i].at + stack[i].len
                    IN  /\ off \in stack[i].at .. end
                        /\ i > 1 => end <= stack[i - 1].at + stack[i - 1].len
  BY DEF InsideComposite
<1> DEFINE schema == Running(upgraded)
<1>1. saved \in Configs /\ schema \in {Schema, NewSchema} /\ stack \in Seq(Contexts)
  BY LoadingIs
<1>2. LoadAt(saved, file, schema, todo, stack, off, ram, crashed)
  BY DEF LoadInv
<1> HIDE DEF schema
<1>3. stack # <<>> /\ i \in 1 .. Len(stack)
  BY <1>1
<1>4. PICK ch, at, end : Loads(saved, file, schema, ch, todo, stack, off, at, end, ram)
  BY <1>2, <1>3 DEF LoadAt, Done
<1> DEFINE last == stack[i].at + stack[i].len
<1>5. /\ off \in stack[i].at .. last
      /\ i > 1 => last <= stack[i - 1].at + stack[i - 1].len
  <2>1. last = stack[i].at + stack[i].len
    OBVIOUS
  <2> HIDE DEF last
  <2> QED BY <1>1, <1>3, <1>4, <2>1, ContextsIn
<1> QED BY <1>5

(* A load finds the root of a configuration that was saved to the end.     *)
LEMMA BaseFinds ==
  ASSUME Filled, Typed, phase = "load", ~crashed, FileInv, stack = <<>>, off = 0
  PROVE  FindType(Base).res = "success"
<1> DEFINE q == <<>>
<1>1. saved \in Configs /\ file \in Seq(Cells) /\ q \in Seq(Steps)
  BY LoadingIs, Empties
<1>2. q \in Kept(saved) /\ CompOf(q) = Base
  <2>1. q \in saved /\ HasContent(saved, q) /\ DOMAIN q = {}
    BY <1>1, ConfigAssumption DEF Filled
  <2> QED BY <2>1 DEF Kept, CompOf
<1>3. FileAt(saved, file, crashed)
  BY <1>1, SavedSome DEF FileInv
<1>4. PICK at, end : Whole(saved, file, at, end)
  BY <1>2, <1>3 DEF FileAt
<1>5. Lays(saved, file, at, end) /\ at[q] = 0
  BY <1>1, <1>4 DEF Lays, Whole
<1> HIDE DEF q
<1>6. at[q] < Size /\ At(at[q]).type = CompOf(q).name
  BY <1>1, <1>2, <1>5, HeaderIs
<1>7. Matches(off, Base) /\ ~(off >= Size)
  <2>1. Size \in Nat
    BY <1>1 DEF Size
  <2> QED BY <1>2, <1>5, <1>6, <2>1 DEF Matches
<1>8. FindType(Base) = Found("success", off + 1)
  BY <1>7 DEF FindType
<1> QED BY <1>8, FoundHas

LEMMA NotFoundGoesOn ==
  ASSUME Filled, Typed, LoadNotFound, LoadInv, FileInv, ~crashed
  PROVE  phase' = "load"
<1> DEFINE t == Head(todo)
           schema == Running(upgraded)
<1>1. phase = "load" /\ todo # <<>> /\ t.do = "item"
  BY LoadNotFoundIs
<1>2. schema \in {Schema, NewSchema} /\ saved \in Configs
  BY <1>1, LoadingIs
<1>3. LoadAt(saved, file, schema, todo, stack, off, ram, crashed)
  BY <1>1 DEF LoadInv
<1> HIDE DEF schema
<1>4. FindType(t.comp).res # "success"
  BY DEF LoadNotFound
<1>5. \/ Head(todo).comp = Base /\ stack = <<>> /\ off = 0
      \/ \E ch, at, end : Loads(saved, file, schema, ch, todo, stack, off, at, end, ram)
  <2>1. \/ Head(todo).comp = Base /\ stack = <<>> /\ off = 0
        \/ crashed /\ Bare(file, schema, todo, stack, off, ram)
        \/ \E ch, at, end : Loads(saved, file, schema, ch, todo, stack, off, at, end, ram)
    BY ONLY <1>1, <1>2, <1>3, LoadHead
  <2> QED BY <2>1
<1>6. PICK ch, at, end : Loads(saved, file, schema, ch, todo, stack, off, at, end, ram)
  BY <1>1, <1>4, <1>5, BaseFinds
<1>7. t.comp # Base
  <2>1. Walk(schema, ch, todo)
    BY <1>6 DEF Loads
  <2> QED BY <1>1, <1>2, <2>1, ItemHead
<1>8. FindType(t.comp).res = "not found"
  <2>1. Answer(Kept(saved), ch[Len(ch)], t.comp, at, end, off, FindType(t.comp))
    BY <1>1, <1>2, <1>6, Finding
  <2> QED BY <1>4, <2>1 DEF Answer
<1> QED BY <1>1, <1>7, <1>8 DEF LoadNotFound, LoadFrame

(* A value in the file is as long as its item and all of it is there.      *)
LEMMA ValueLies ==
  ASSUME NEW paths, NEW at, NEW end, Lays(paths, file, at, end), NEW q \in Kept(paths), q \in Seq(Steps),
         CompOf(q).desc = Simple, CompOf(q) \in All(Schema), NEW len, len = LenOf[CompOf(q).name],
         NEW x, x = at[q] + 1
  PROVE  x + 1 + len <= Size /\ At(x).len = len
<1>1. CompOf(q).name \in SimpleNames
  BY DEF SimpleNames
<1>2. len \in 1 .. LenMod - 1 /\ LenMod \in Nat
  BY <1>1, LenAssumption
<1>3. at[q] \in Nat /\ end[q] \in Nat /\ file \in Seq(Cells)
  BY DEF Lays, Offsets
<1>4. Item(Contents(file), Kept(paths), at, end, q)
  BY DEF Lays, Layout
<1>5. /\ end[q] = at[q] + Header + len
      /\ \A o \in at[q] + Header .. end[q] - 1 : W(o, ValueCell(q)) \in Contents(file)
  BY <1>4 DEF Item
<1> DEFINE o == end[q] - 1
<1>6. o \in at[q] + Header .. end[q] - 1
  <2>1. len \in Nat /\ 1 <= len
    BY <1>2
  <2>2. end[q] = at[q] + 2 + len
    BY <1>5 DEF Header
  <2> DEFINE a == at[q]
             e == end[q]
  <2>3. a \in Nat /\ e \in Nat /\ e = a + 2 + len
    BY <1>3, <2>2
  <2> HIDE DEF a, e
  <2>4. e - 1 \in a + 2 .. e - 1
    BY <2>1, <2>3
  <2> QED BY <2>4 DEF Header, a, e
<1>7. W(o, ValueCell(q)) \in Contents(file)
  BY <1>5, <1>6
<1>8. o < Size
  <2> HIDE DEF o
  <2> QED BY <1>3, <1>7, ContentIs
<1>9. At(x).len = Inside(at, q, end[q])
  BY HeaderIs
<1>10. Size \in Nat
  BY <1>3 DEF Size
<1>11. At(x).len = end[q] - (at[q] + 2)
  BY <1>9 DEF Inside, Header
<1> HIDE DEF o
<1>12. end[q] = at[q] + 2 + len /\ o = end[q] - 1
  BY <1>5 DEF Header, o
<1>13. len \in Int
  BY <1>2
<1>14. x + 1 + len <= Size
  BY ONLY <1>3, <1>8, <1>10, <1>12, <1>13, x = at[q] + 1
<1>15. end[q] - (at[q] + 2) = len
  BY ONLY <1>3, <1>12, <1>13
<1> QED BY <1>11, <1>14, <1>15

LEMMA SimpleGoesOn ==
  ASSUME Packed, Typed, LoadSimple, LoadInv, ~crashed
  PROVE  phase' = "load"
<1> DEFINE t == Head(todo)
           schema == Running(upgraded)
           x == FindType(t.comp).off
           c == t.comp
           q == PathOf(t)
           len == LenOf[c.name]
<1>1. phase = "load" /\ todo # <<>> /\ t.do = "item" /\ c.desc = Simple /\ FindType(c).res = "success"
  BY DEF LoadSimple, Loading
<1>2. schema \in {Schema, NewSchema} /\ saved \in Configs /\ stack \in Seq(Contexts)
  BY <1>1, LoadingIs
<1>3. LoadAt(saved, file, schema, todo, stack, off, ram, crashed)
  BY <1>1 DEF LoadInv
<1> HIDE DEF schema
<1>4. PICK ch, at, end : Loads(saved, file, schema, ch, todo, stack, off, at, end, ram)
  <2>1. \/ Head(todo).comp = Base
        \/ crashed /\ Bare(file, schema, todo, stack, off, ram)
        \/ \E ch, at, end : Loads(saved, file, schema, ch, todo, stack, off, at, end, ram)
    BY ONLY <1>1, <1>2, <1>3, LoadHead
  <2> QED BY <1>1, <2>1, BaseIs
<1>5. FirstOf(Kept(saved), ch[Len(ch)], c, at, off, x)
  <2>1. Answer(Kept(saved), ch[Len(ch)], c, at, end, off, FindType(c))
    BY <1>1, <1>2, <1>4, Finding
  <2> QED BY <1>1, <2>1 DEF Answer
<1> HIDE DEF x
<1>6. Hit(saved, at, end, ch, Head(todo), off, q, x)
  <2>1. Head(todo).do = "item" /\ FirstOf(Kept(saved), ch[Len(ch)], Head(todo).comp, at, off, x)
    BY <1>1, <1>5
  <2>2. q = PathOf(Head(todo))
    OBVIOUS
  <2> HIDE DEF q
  <2> QED BY ONLY Packed, <1>2, <1>4, <2>1, <2>2, HitIs
<1>7. q \in Kept(saved) /\ q \in Seq(Steps) /\ q # <<>> /\ CompOf(q) = c /\ x = at[q] + 1
  BY <1>6 DEF Hit
<1> HIDE DEF q
<1>8. Lays(saved, file, at, end)
  <2>1. Inner(saved, file, schema, ch, stack, off, at, end, ch[Len(ch)])
    BY <1>2, <1>4, LoadsIs
  <2> QED BY <2>1 DEF Inner
<1>9. CompOf(q) \in All(Schema)
  <2>1. q \in saved
    BY <1>2, <1>7, KeptIs
  <2> QED BY <1>2, <1>7, <2>1, PathPart
<1>10. x + 1 + len <= Size /\ At(x).len = len
  <2> DEFINE name == CompOf(q).name
  <2>1. len = LenOf[name] /\ CompOf(q).desc = Simple
    BY <1>1, <1>7
  <2> HIDE DEF len, c
  <2> QED BY <1>7, <1>8, <1>9, <2>1, ValueLies
<1>11. Size \in Nat /\ x + 1 + len \in Int
  <2>1. c.name \in SimpleNames
    BY <1>1, <1>7, <1>9 DEF SimpleNames
  <2>2. len \in 1 .. LenMod - 1 /\ LenMod \in Nat
    BY <2>1, LenAssumption
  <2>3. x \in Nat
    <3>1. at[q] \in Nat
      BY <1>7, <1>8 DEF Lays, Offsets
    <3> QED BY <1>7, <3>1
  <2>4. file \in Seq(Cells)
    BY <1>1, LoadingIs
  <2> QED BY <2>2, <2>3, <2>4 DEF Size
<1>12. ~(x + 1 + len > Size \/ At(x).len # len)
  BY <1>10, <1>11
<1> QED BY <1>1, <1>12 DEF LoadSimple, LoadFrame, x

(* A save writes into a file of which nothing is cut off yet.              *)
SaveClean == phase = "save" => ~crashed

LEMMA CleanKeeps ==
  ASSUME Typed, SaveClean, [Next]_vars
  PROVE  SaveClean'
<1>1. CASE UNCHANGED vars
  BY <1>1 DEF SaveClean, vars
<1>2. CASE SaveStart
  BY <1>2 DEF SaveClean, SaveStart
<1>3. CASE SaveAggr \/ SaveSimple \/ SaveComposite \/ SaveClose
  <2>1. UNCHANGED <<phase, crashed>>
    BY <1>3, Zenon DEF SaveAggr, SaveSimple, SaveComposite, SaveClose, SaveFrame
  <2> QED BY <2>1 DEF SaveClean
<1>4. CASE SaveEnd \/ LoadStart \/ LoadUnopened \/ Crash
  <2>1. phase' # "save"
    BY <1>4 DEF SaveEnd, LoadStart, LoadUnopened, Crash
  <2> QED BY <2>1 DEF SaveClean
<1>5. CASE LoadStep
  <2>1. phase' # "save"
    BY <1>5, LoadStepIs
  <2> QED BY <2>1 DEF SaveClean
<1> QED BY <1>1, <1>2, <1>3, <1>4, <1>5 DEF Next, SaveStep

(* A load does not fail unless what it loads was saved only in part.       *)
LEMMA FailsOnlyCut ==
  ASSUME Packed, Filled, Typed, LoadInv, FileInv, LoadNotFound \/ LoadSimple, phase' # "load"
  PROVE  phase = "load" /\ Fail("failed") /\ crashed
<1>1. crashed
  BY NotFoundGoesOn, SimpleGoesOn
<1>2. CASE LoadNotFound
  <2>1. phase = "load" /\ (LoadFrame \/ Fail("failed"))
    BY <1>2, LoadNotFoundIs
  <2>2. ~LoadFrame
    BY <2>1 DEF LoadFrame
  <2> QED BY <1>1, <2>1, <2>2
<1>3. CASE LoadSimple
  <2>1. phase = "load" /\ (LoadFrame \/ Fail("failed"))
    BY <1>3 DEF LoadSimple, Loading
  <2>2. ~LoadFrame
    BY <2>1 DEF LoadFrame
  <2> QED BY <1>1, <2>1, <2>2
<1> QED BY <1>2, <1>3

(* How the steps of the store look to Recovery. *)
Seen == Promised!vars

LEMMA SaveImplements ==
  ASSUME Typed, SaveClean, SaveStart \/ SaveAggr \/ SaveSimple \/ SaveComposite \/ SaveClose \/ SaveEnd
  PROVE  [Promised!Next]_Seen
<1>1. CASE SaveStart
  <2>1. Idle /\ saved' \in Configs /\ phase' = "save" /\ upgraded' = upgraded
    BY <1>1, AgainAssumption DEF SaveStart
  <2>2. DOMAIN Owed = Configs
    BY DEF Owed
  <2>3. Promised!Save
    BY <2>1, <2>2 DEF Promised!Save, Promised!Idle, Idle
  <2> QED BY <2>3 DEF Promised!Next
<1>2. CASE SaveAggr \/ SaveSimple \/ SaveComposite \/ SaveClose
  <2>1. UNCHANGED <<saved, phase, upgraded, ram, crashed>>
    BY <1>2, Zenon DEF SaveAggr, SaveSimple, SaveComposite, SaveClose, SaveFrame
  <2>2. UNCHANGED Seen
    BY <2>1 DEF Seen, Promised!vars
  <2> QED BY <2>2
<1>3. CASE SaveEnd
  <2>1. phase = "save" /\ phase' = "saved" /\ ~crashed /\ UNCHANGED <<saved, upgraded, crashed>>
    BY <1>3 DEF SaveEnd, SaveClean
  <2>2. saved # Nothing
    BY <2>1, SavingIs, SavedSome
  <2>3. Promised!EndSave
    BY <2>1, <2>2 DEF Promised!EndSave
  <2> QED BY <2>3 DEF Promised!Next
<1> QED BY <1>1, <1>2, <1>3

LEMMA IdleImplements ==
  ASSUME Typed, LoadStart \/ LoadUnopened \/ Crash
  PROVE  [Promised!Next]_Seen
<1>1. CASE LoadStart
  <2>1. Idle /\ saved # Nothing /\ phase' = "load" /\ UNCHANGED <<saved, upgraded, crashed>>
    BY <1>1 DEF LoadStart
  <2>2. Promised!Load
    BY <2>1 DEF Promised!Load, Promised!Idle, Idle
  <2> QED BY <2>2 DEF Promised!Next
<1>2. CASE LoadUnopened
  <2>1. Idle /\ saved = Nothing /\ phase' = "undefined" /\ UNCHANGED <<saved, upgraded, crashed>>
    BY <1>2 DEF LoadUnopened
  <2>2. Promised!Load
    BY <2>1 DEF Promised!Load, Promised!Idle, Idle
  <2> QED BY <2>2 DEF Promised!Next
<1>3. CASE Crash
  <2>1. /\ phase' = "started" /\ saved' = saved /\ upgraded' \in {upgraded, TRUE}
        /\ IF phase # "save" THEN crashed' = crashed ELSE crashed' = TRUE
    BY <1>3 DEF Crash
  <2>2. Promised!Restart
    <3>1. (saved' # Nothing /\ phase' # "save" /\ ~crashed') = (saved # Nothing /\ phase # "save" /\ ~crashed)
      BY <2>1
    <3>2. upgraded => upgraded'
      BY <2>1
    <3>3. (IF phase' = "loaded" THEN Brought(ram)' ELSE Defaults) = Defaults
      BY <2>1
    <3> QED BY <2>1, <3>1, <3>2, <3>3 DEF Promised!Restart
  <2> QED BY <2>2 DEF Promised!Next
<1> QED BY <1>1, <1>2, <1>3

LEMMA EndBrings ==
  ASSUME Lasting, Keeping, Typed, LoadInv, phase = "load", todo = <<>>
  PROVE  Brought(ram) = Owed[saved][upgraded] \/ (Brought(ram) = Defaults /\ crashed)
<1> DEFINE schema == Running(upgraded)
<1>1. schema \in {Schema, NewSchema} /\ saved \in Configs /\ upgraded \in BOOLEAN
  BY LoadingIs DEF Typed
<1>2. LoadAt(saved, file, schema, todo, stack, off, ram, crashed)
  BY DEF LoadInv
<1> HIDE DEF schema
<1>3. todo # <<Task("item", Base, <<>>, 0)>>
  OBVIOUS
<1>4. CASE crashed /\ Bare(file, schema, todo, stack, off, ram)
  <2>1. DOMAIN ram \subseteq {<<>>}
    BY <1>4 DEF Bare
  <2> QED BY <1>4, <2>1, BroughtNone
<1>5. CASE Done(saved, schema, todo, stack, ram)
  <2>1. Loaded(saved, schema, ram) /\ Completes(saved, schema, <<>>, ram)
    BY <1>5 DEF Done
  <2>2. schema = Running(upgraded)
    BY DEF schema
  <2>3. Brought(ram) = Owed[saved][upgraded]
    BY ONLY Lasting, Keeping, <1>1, <2>1, <2>2, BroughtAll
  <2> QED BY <2>3
<1>6. ASSUME NEW ch, NEW at, NEW end, Loads(saved, file, schema, ch, todo, stack, off, at, end, ram)
      PROVE  FALSE
  <2>1. Walk(schema, ch, todo)
    BY <1>6 DEF Loads
  <2>2. todo # <<>>
    BY <1>1, <2>1, EachFits
  <2> QED BY <2>2
<1> QED BY <1>2, <1>3, <1>4, <1>5, <1>6 DEF LoadAt

LEMMA LoadImplements ==
  ASSUME Packed, Lasting, Keeping, Filled, Typed, FileInv, LoadInv, LoadStep
  PROVE  [Promised!Next]_Seen
<1>1. phase = "load" /\ UNCHANGED <<saved, upgraded, crashed>>
  BY LoadStepIs
<1>2. CASE LoadFrame
  <2>1. UNCHANGED phase
    BY <1>2 DEF LoadFrame
  <2>2. UNCHANGED Seen
    BY <1>1, <2>1 DEF Seen, Promised!vars
  <2> QED BY <2>2
<1>3. CASE LoadEnd
  <2>1. phase' = "loaded" /\ todo = <<>> /\ ram' = ram
    BY <1>3 DEF LoadEnd
  <2>2. Brought(ram) = Owed[saved][upgraded] \/ (Brought(ram) = Defaults /\ crashed)
    BY <1>1, <2>1, EndBrings
  <2>3. Promised!EndLoad
    BY <1>1, <2>1, <2>2 DEF Promised!EndLoad
  <2> QED BY <2>3 DEF Promised!Next
<1>4. CASE Fail("starved")
  <2>1. phase' = "starved"
    BY <1>4 DEF Fail
  <2>2. Promised!EndLoad
    BY <1>1, <2>1 DEF Promised!EndLoad
  <2> QED BY <2>2 DEF Promised!Next
<1>5. CASE Fail("failed") /\ (LoadNotFound \/ LoadSimple)
  <2>1. phase' = "failed"
    BY <1>5 DEF Fail
  <2>2. crashed
    BY <1>5, <2>1, FailsOnlyCut
  <2>3. Promised!EndLoad
    BY <1>1, <2>1, <2>2 DEF Promised!EndLoad
  <2> QED BY <2>3 DEF Promised!Next
<1>6. LoadFrame \/ LoadEnd \/ Fail("starved") \/ (Fail("failed") /\ (LoadNotFound \/ LoadSimple))
  <2>1. LoadAggr => LoadFrame
    BY DEF LoadAggr
  <2>2. LoadNotFound => LoadFrame \/ Fail("failed")
    BY LoadNotFoundIs
  <2>3. LoadSimple => LoadFrame \/ Fail("failed")
    BY DEF LoadSimple
  <2>4. LoadComposite => LoadFrame
    BY DEF LoadComposite
  <2>5. LoadNoMemory => Fail("starved")
    BY DEF LoadNoMemory
  <2>6. LoadClose => LoadFrame
    BY DEF LoadClose
  <2> QED BY <2>1, <2>2, <2>3, <2>4, <2>5, <2>6 DEF LoadStep
<1> QED BY <1>2, <1>3, <1>4, <1>5, <1>6

-----------------------------------------------------------------------------
(* What holds at every moment, and what follows from it.                   *)

StoreInv == SaveInv /\ FileInv /\ LoadInv /\ SaveClean

LEMMA StoreInit ==
  ASSUME Init PROVE Typed /\ StoreInv
<1>1. StoreInv
  BY DEF StoreInv, Init, SaveInv, FileInv, LoadInv, SaveClean
<1> QED BY <1>1, TypedInit

LEMMA StoreSteps ==
  ASSUME Packed, Typed, StoreInv, [Next]_vars, Fitting, Fitting'
  PROVE  StoreInv'
<1>1. SaveInv /\ FileInv /\ LoadInv /\ SaveClean
  BY DEF StoreInv
<1>2. SaveInv' /\ FileInv' /\ LoadInv' /\ SaveClean'
  BY <1>1, SaveKeeps, FileKeeps, LoadKeeps, CleanKeeps
<1> QED BY <1>2 DEF StoreInv

LEMMA StoreImplements ==
  ASSUME Packed, Lasting, Keeping, Filled, Typed, StoreInv, [Next]_vars
  PROVE  [Promised!Next]_Seen
<1>1. FileInv /\ LoadInv /\ SaveClean
  BY DEF StoreInv
<1>2. CASE UNCHANGED vars
  <2>1. UNCHANGED Seen
    BY <1>2 DEF vars, Seen, Promised!vars
  <2> QED BY <2>1
<1> QED BY <1>1, <1>2, SaveImplements, IdleImplements, LoadImplements DEF Next, SaveStep

(* "Load" gives a value to no item but the one it was saved from, at no    *)
(* moment, whatever a crash left of the file and although components are   *)
(* found by their types alone: of configurations of which no item is left  *)
(* out before one that is stored, and which fit in the lengths.            *)
THEOREM LoadsSaved ==
  ASSUME Packed
  PROVE  Spec /\ []Fitting => []OnlySaved
<1>1. Packed
  OBVIOUS
<1>2. Typed /\ StoreInv => OnlySaved
  BY LoadedOnly DEF StoreInv
<1>3. Typed /\ StoreInv /\ Fitting /\ Fitting' /\ [Next]_vars => StoreInv'
  BY <1>1, StoreSteps
<1> QED BY <1>2, <1>3, StoreInit, StepTyped, PTL DEF Spec

(* While a whole configuration is loaded the offset stays in the innermost *)
(* composite and each composite in the one around it: the lengths that     *)
(* addLengthToComposite summed up are those of what is there.              *)
THEOREM StaysInside ==
  ASSUME Packed
  PROVE  Spec /\ []Fitting => []InsideComposite
<1>1. Packed
  OBVIOUS
<1>2. Typed /\ StoreInv => InsideComposite
  BY LoadedInside DEF StoreInv
<1>3. Typed /\ StoreInv /\ Fitting /\ Fitting' /\ [Next]_vars => StoreInv'
  BY <1>1, StoreSteps
<1> QED BY <1>2, <1>3, StoreInit, StepTyped, PTL DEF Spec

(* The TLV store keeps the promises of Recovery, for configurations that   *)
(* fit in the lengths and that a store which goes by order can represent:  *)
(* a load of what was saved to the end brings all that its schema has of   *)
(* it, or ends for lack of memory; and it fails, or brings the defaults,   *)
(* only after a save that was cut short.                                   *)
THEOREM StoreKeepsPromise ==
  ASSUME Packed, Lasting, Keeping, Filled
  PROVE  Spec /\ []Fitting => KeepsPromise
<1>1. Packed /\ Lasting /\ Keeping /\ Filled
  OBVIOUS
<1>2. Init => Promised!Init
  BY DEF Init, Promised!Init
<1>3. Typed /\ StoreInv /\ Fitting /\ Fitting' /\ [Next]_vars => StoreInv'
  BY <1>1, StoreSteps
<1>4. Typed /\ StoreInv /\ [Next]_vars => [Promised!Next]_Seen
  BY <1>1, StoreImplements
<1> QED BY <1>2, <1>3, <1>4, StoreInit, StepTyped, PTL DEF Spec, KeepsPromise, Promised!Spec, Seen
=============================================================================
