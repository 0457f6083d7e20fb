------------------------ MODULE ConfigManager_proofs ------------------------
(***************************************************************************)
(* The configuration stays a tree of blocks and the context an item of it, *)
(* for every schema and every history of commands and loads.  Blocks have  *)
(* a rank that grows along the pointers: what a command changes at an item *)
(* leaves alone every block whose rank is not larger than the item's, and  *)
(* the rank of the context's block never is.                               *)
(***************************************************************************)
EXTENDS ConfigManager, SequencesExt, SequenceTheorems, TLAPS

(* An item taken out of a list leaves the others in their order. *)
LEMMA Removed ==
  ASSUME NEW S, NEW s \in Seq(S), NEW i \in 1 .. Len(s)
  PROVE  /\ RemoveAt(s, i) \in Seq(S)
         /\ Len(RemoveAt(s, i)) = Len(s) - 1
         /\ \A j \in 1 .. Len(s) - 1 :
              RemoveAt(s, i)[j] = IF j < i THEN s[j] ELSE s[j + 1]
<1> DEFINE p == SubSeq(s, 1, i - 1)
           q == SubSeq(s, i + 1, Len(s))
<1>1. p \in Seq(S) /\ Len(p) = i - 1 /\ \A j \in 1 .. i - 1 : p[j] = s[j]
  OBVIOUS
<1>2. q \in Seq(S) /\ Len(q) = Len(s) - i /\ \A j \in 1 .. Len(s) - i : q[j] = s[i + j]
  OBVIOUS
<1>3. RemoveAt(s, i) = p \o q
  BY DEF RemoveAt
<1> HIDE DEF p, q
<1>4. p \o q \in Seq(S) /\ Len(p \o q) = Len(s) - 1
  <2>1. Len(p \o q) = Len(p) + Len(q) /\ p \o q \in Seq(S)
    <3>1. p \in Seq(S) /\ q \in Seq(S)
      BY <1>1, <1>2
    <3>2. QED BY ONLY <3>1, ConcatProperties
  <2>2. Len(s) \in Nat
    OBVIOUS
  <2>3. QED BY <1>1, <1>2, <2>1, <2>2
<1>5. ASSUME NEW j \in 1 .. Len(s) - 1
      PROVE  (p \o q)[j] = IF j < i THEN s[j] ELSE s[j + 1]
  <2>1. CASE j < i
    <3>1. (p \o q)[j] = p[j]
      BY <2>1, <1>1, <1>2
    <3>2. QED BY <3>1, <2>1, <1>1
  <2>2. CASE ~(j < i)
    <3>1. (p \o q)[j] = q[j - (i - 1)] /\ j - (i - 1) \in 1 .. Len(s) - i
      BY <2>2, <1>1, <1>2
    <3>2. QED BY <3>1, <2>2, <1>2
  <2>3. QED BY <2>1, <2>2
<1>6. QED BY <1>3, <1>4, <1>5

(* An item put into a list leaves the others in their order. *)
LEMMA Inserted ==
  ASSUME NEW S, NEW s \in Seq(S), NEW i \in 1 .. Len(s) + 1, NEW e \in S
  PROVE  /\ InsertAt(s, i, e) \in Seq(S)
         /\ Len(InsertAt(s, i, e)) = Len(s) + 1
         /\ \A j \in 1 .. Len(s) + 1 :
              InsertAt(s, i, e)[j] = IF j < i THEN s[j] ELSE IF j = i THEN e ELSE s[j - 1]
<1> DEFINE p == SubSeq(s, 1, i - 1)
           m == p \o <<e>>
           q == SubSeq(s, i, Len(s))
<1>0. Len(s) \in Nat /\ i \in Nat
  OBVIOUS
<1>1. p \in Seq(S) /\ Len(p) = i - 1 /\ \A j \in 1 .. i - 1 : p[j] = s[j]
  OBVIOUS
<1>2. q \in Seq(S) /\ Len(q) = Len(s) - i + 1 /\ \A j \in 1 .. Len(s) - i + 1 : q[j] = s[i + j - 1]
  OBVIOUS
<1>3. InsertAt(s, i, e) = m \o q
  BY DEF InsertAt
<1> HIDE DEF p, q
<1>4. m \in Seq(S) /\ Len(m) = i
  <2>1. <<e>> \in Seq(S) /\ Len(<<e>>) = 1 /\ p \in Seq(S)
    BY <1>1
  <2>2. m \in Seq(S) /\ Len(m) = Len(p) + Len(<<e>>)
    BY ONLY <2>1, ConcatProperties
  <2> QED BY <2>1, <2>2, <1>0, <1>1
<1>5. \A j \in 1 .. i : m[j] = IF j < i THEN s[j] ELSE e
  BY <1>0, <1>1
<1> HIDE DEF m
<1>6. m \o q \in Seq(S) /\ Len(m \o q) = Len(s) + 1
  <2>1. m \in Seq(S) /\ q \in Seq(S)
    BY <1>2, <1>4
  <2>2. m \o q \in Seq(S) /\ Len(m \o q) = Len(m) + Len(q)
    BY ONLY <2>1, ConcatProperties
  <2> QED BY <2>2, <1>0, <1>2, <1>4
<1>7. ASSUME NEW j \in 1 .. Len(s) + 1
      PROVE  (m \o q)[j] = IF j < i THEN s[j] ELSE IF j = i THEN e ELSE s[j - 1]
  <2>1. CASE j <= i
    <3>1. (m \o q)[j] = m[j]
      BY <2>1, <1>0, <1>2, <1>4
    <3> QED BY <3>1, <2>1, <1>0, <1>5
  <2>2. CASE ~(j <= i)
    <3>1. (m \o q)[j] = q[j - i] /\ j - i \in 1 .. Len(s) - i + 1
      BY <2>2, <1>0, <1>2, <1>4
    <3> QED BY <3>1, <2>2, <1>0, <1>2
  <2> QED BY <2>1, <2>2
<1> QED BY <1>3, <1>6, <1>7

-----------------------------------------------------------------------------
USE SchemaAssumption, ValueAssumption, NumberAssumption, AddrAssumption

Block == Addr \cup {Base}
Ref   == Addr \cup {NULL}

(* In heap h, slot s of item i in block b has the pointer to block c. *)
Owns(h, b, i, s, c) ==
  /\ b \in DOMAIN h /\ i \in DOMAIN h[b] /\ s \in DOMAIN h[b][i].own
  /\ h[b][i].own[s] = c /\ c # NULL

Typed(h) ==
  /\ DOMAIN h \subseteq Block /\ Base \in DOMAIN h
  /\ \A b \in DOMAIN h : h[b] \in Seq(Items) /\ h[b] # <<>>
  /\ Len(h[Base]) = 1 /\ h[Base][1].desc = Root

(* A pointer is to a live block of items of its slot's component. *)
PointersFit(h) ==
  \A b, i, s, c : Owns(h, b, i, s, c) =>
    /\ c \in DOMAIN h \ {Base}
    /\ \A j \in DOMAIN h[c] : h[c][j].desc = Component[s[2]]

OneOwner(h) ==
  \A b, i, s, x, j, t, c :
    Owns(h, b, i, s, c) /\ Owns(h, x, j, t, c) => b = x /\ i = j /\ s = t

Ranked(h, r) ==
  /\ r \in [DOMAIN h -> Nat]
  /\ \A b, i, s, c : Owns(h, b, i, s, c) => r[b] < r[c]

WellFormed(h, r) == Typed(h) /\ PointersFit(h) /\ OneOwner(h) /\ Ranked(h, r)

(* There is an item of the place's descriptor at the place. *)
PointsIn(h, l) ==
  /\ l.blk \in DOMAIN h /\ l.idx \in Nat /\ l.idx + 1 \in DOMAIN h[l.blk]
  /\ l.path \in DOMAIN Layout[h[l.blk][l.idx + 1].desc]
  /\ Layout[h[l.blk][l.idx + 1].desc][l.path] = l.desc
  /\ l.desc \in Desc

(* Every set of blocks that has the base's pointers and is closed has x. *)
InTree(h, x) ==
  x = Base \/ (x \in Addr /\ \A S \in SUBSET Addr :
                 /\ \A s, c : Owns(h, Base, 1, s, c) => c \in S
                 /\ \A b \in S : \A i, s, c : Owns(h, b, i, s, c) => c \in S
                 => x \in S)

(* From one heap to the next, what has rank n or less stays in its place,  *)
(* and what has a smaller rank stays as it is.                             *)
Keeps(h, r, g, q, n) ==
  \A x \in DOMAIN h : r[x] <= n =>
    /\ x \in DOMAIN g /\ q[x] = r[x]
    /\ Len(g[x]) = Len(h[x]) /\ \A i \in DOMAIN h[x] : g[x][i].desc = h[x][i].desc
    /\ r[x] < n => g[x] = h[x]

-----------------------------------------------------------------------------
(* Items. *)

LEMMA ItemShape ==
  \A e : e \in Items <=>
    \E d \in Desc : e \in [desc : {d}, val : [Values(d) -> Value], own : [Slots(d) -> Ref]]
BY DEF Items, Ref

LEMMA ItemParts ==
  ASSUME NEW e \in Items
  PROVE  /\ e.desc \in Desc
         /\ e.val \in [Values(e.desc) -> Value] /\ e.own \in [Slots(e.desc) -> Ref]
         /\ e = [desc |-> e.desc, val |-> e.val, own |-> e.own]
BY ItemShape

LEMMA ItemMade ==
  ASSUME NEW d \in Desc, NEW v \in [Values(d) -> Value], NEW o \in [Slots(d) -> Ref]
  PROVE  [desc |-> d, val |-> v, own |-> o] \in Items
BY ItemShape

LEMMA NewItemMade ==
  ASSUME NEW d \in Desc
  PROVE  /\ NewItem(d) \in Items /\ NewItem(d).desc = d
         /\ DOMAIN NewItem(d).own = Slots(d)
         /\ \A s \in Slots(d) : NewItem(d).own[s] = NULL
<1>1. [p \in Values(d) |-> FirstValue(Layout[d][p])] \in [Values(d) -> Value]
  BY DEF FirstValue
<1>2. [s \in Slots(d) |-> NULL] \in [Slots(d) -> Ref]
  BY DEF Ref
<1> QED BY <1>1, <1>2, ItemMade DEF NewItem

(* An item whose pointer in one slot is replaced. *)
Repointed(e, s, c) == [e EXCEPT !.own[s] = c]

LEMMA ItemRepointed ==
  ASSUME NEW e \in Items, NEW s \in Slots(e.desc), NEW c \in Ref
  PROVE  /\ Repointed(e, s, c) \in Items
         /\ Repointed(e, s, c).desc = e.desc
         /\ Repointed(e, s, c).own = [e.own EXCEPT ![s] = c]
<1>1. /\ e = [desc |-> e.desc, val |-> e.val, own |-> e.own] /\ e.desc \in Desc
      /\ e.val \in [Values(e.desc) -> Value] /\ e.own \in [Slots(e.desc) -> Ref]
  BY ItemParts
<1>2. Repointed(e, s, c) = [desc |-> e.desc, val |-> e.val, own |-> [e.own EXCEPT ![s] = c]]
  BY <1>1 DEF Repointed
<1>3. [e.own EXCEPT ![s] = c] \in [Slots(e.desc) -> Ref]
  BY <1>1
<1> QED BY <1>1, <1>2, <1>3, ItemMade

(* An item whose value in one place is replaced. *)
Rewritten(e, p, v) == [e EXCEPT !.val[p] = v]

LEMMA ItemWritten ==
  ASSUME NEW e \in Items, NEW p \in Values(e.desc), NEW v \in Value
  PROVE  /\ Rewritten(e, p, v) \in Items
         /\ Rewritten(e, p, v).desc = e.desc
         /\ Rewritten(e, p, v).own = e.own
<1>1. /\ e = [desc |-> e.desc, val |-> e.val, own |-> e.own] /\ e.desc \in Desc
      /\ e.val \in [Values(e.desc) -> Value] /\ e.own \in [Slots(e.desc) -> Ref]
  BY ItemParts
<1>2. Rewritten(e, p, v) = [desc |-> e.desc, val |-> [e.val EXCEPT ![p] = v], own |-> e.own]
  BY <1>1 DEF Rewritten
<1>3. [e.val EXCEPT ![p] = v] \in [Values(e.desc) -> Value]
  BY <1>1
<1> QED BY <1>1, <1>2, <1>3, ItemMade

-----------------------------------------------------------------------------
(* The block of a component of an item. *)

LEMMA OwnedBlock ==
  ASSUME NEW r, WellFormed(heap, r), NEW l, PointsIn(heap, l),
         NEW a \in ComponentsOf(l.desc) \cap Owned
  PROVE  /\ ItemAt(l) \in Items /\ l.idx + 1 \in 1 .. Len(heap[l.blk])
         /\ <<l.path, a>> \in Slots(ItemAt(l).desc)
         /\ BlockOf(l, a) = ItemAt(l).own[<<l.path, a>>] /\ BlockOf(l, a) \in Ref
         /\ BlockOf(l, a) # NULL =>
              Owns(heap, l.blk, l.idx + 1, <<l.path, a>>, BlockOf(l, a))
         /\ ItemsOf(l, a) \in Seq(Items)
         /\ \A j \in DOMAIN ItemsOf(l, a) : ItemsOf(l, a)[j].desc = Component[a]
         /\ CountOf(l, a) = Len(ItemsOf(l, a)) /\ CountOf(l, a) \in Nat
         /\ Component[a] \in Desc
<1>1. /\ l.blk \in DOMAIN heap /\ heap[l.blk] \in Seq(Items) /\ l.idx \in Nat
      /\ l.idx + 1 \in DOMAIN heap[l.blk] /\ l.blk # NULL
  BY DEF WellFormed, Typed, PointsIn, Block
<1>2. ItemAt(l) \in Items /\ l.idx + 1 \in 1 .. Len(heap[l.blk])
  BY <1>1 DEF ItemAt
<1>3. <<l.path, a>> \in Slots(ItemAt(l).desc)
  BY DEF PointsIn, ItemAt, Slots
<1>4. BlockOf(l, a) = ItemAt(l).own[<<l.path, a>>]
  BY <1>1 DEF BlockOf, Present
<1>5. ItemAt(l).own \in [Slots(ItemAt(l).desc) -> Ref]
  BY <1>2, ItemParts
<1>6. BlockOf(l, a) \in Ref
  BY <1>3, <1>4, <1>5
<1>7. ASSUME BlockOf(l, a) # NULL
      PROVE  Owns(heap, l.blk, l.idx + 1, <<l.path, a>>, BlockOf(l, a))
  BY <1>1, <1>3, <1>4, <1>5, <1>7 DEF Owns, ItemAt
<1>8. ASSUME BlockOf(l, a) # NULL
      PROVE  /\ BlockOf(l, a) \in DOMAIN heap
             /\ \A j \in DOMAIN heap[BlockOf(l, a)] : heap[BlockOf(l, a)][j].desc = Component[a]
  BY <1>7, <1>8 DEF WellFormed, PointersFit
<1>9. /\ ItemsOf(l, a) \in Seq(Items)
      /\ \A j \in DOMAIN ItemsOf(l, a) : ItemsOf(l, a)[j].desc = Component[a]
  <2>1. CASE BlockOf(l, a) = NULL
    BY <2>1 DEF ItemsOf
  <2>2. CASE BlockOf(l, a) # NULL
    BY <2>2, <1>8 DEF ItemsOf, WellFormed, Typed
  <2> QED BY <2>1, <2>2
<1>10. CountOf(l, a) = Len(ItemsOf(l, a)) /\ CountOf(l, a) \in Nat
  BY <1>9 DEF CountOf
<1>11. Component[a] \in Desc
  BY DEF Aggr
<1> QED BY <1>2, <1>3, <1>4, <1>6, <1>7, <1>9, <1>10, <1>11

(* A component's items are put into another block, or into none: each of   *)
(* them is new and owns nothing, or is one of the items that were there.   *)
LEMMA Rehoming ==
  ASSUME NEW r, WellFormed(heap, r), NEW l, PointsIn(heap, l),
         NEW a \in ComponentsOf(l.desc) \cap Owned,
         NEW b, NEW items \in Seq(Items),
         b = NULL \/ (b \in Targets(l, a) /\ items # <<>>),
         \A j \in DOMAIN items : items[j].desc = Component[a],
         NEW f \in [DOMAIN items -> Nat],
         \A i, j \in DOMAIN items : f[i] = f[j] => i = j,
         \A j \in DOMAIN items :
           \/ \A s \in DOMAIN items[j].own : items[j].own[s] = NULL
           \/ f[j] \in DOMAIN ItemsOf(l, a) /\ items[j] = ItemsOf(l, a)[f[j]]
  PROVE  \E q :
           /\ WellFormed(Rehomed(l, a, b, items), q)
           /\ Keeps(heap, r, Rehomed(l, a, b, items), q, r[l.blk])
           /\ b # NULL => /\ b \in DOMAIN Rehomed(l, a, b, items)
                          /\ Rehomed(l, a, b, items)[b] = items
                          /\ r[l.blk] < q[b]
<1> DEFINE o == BlockOf(l, a)
           L == <<l.path, a>>
           K == l.idx + 1
           e == Repointed(ItemAt(l), L, b)
           owner == [heap[l.blk] EXCEPT ![l.idx + 1].own[<<l.path, a>>] = b]
           g == Rehomed(l, a, b, items)
           q == [x \in DOMAIN g |-> IF x = b THEN r[l.blk] + 1 ELSE r[x]]
<1>1. /\ ItemAt(l) \in Items /\ K \in 1 .. Len(heap[l.blk])
      /\ L \in Slots(ItemAt(l).desc) /\ o = ItemAt(l).own[L] /\ o \in Ref
      /\ o # NULL => Owns(heap, l.blk, K, L, o)
      /\ Component[a] \in Desc
  BY OwnedBlock
<1>2. /\ Typed(heap) /\ PointersFit(heap) /\ OneOwner(heap) /\ Ranked(heap, r)
      /\ l.blk \in DOMAIN heap /\ heap[l.blk] \in Seq(Items)
      /\ l.blk \in Block /\ l.blk # NULL
  BY DEF WellFormed, Typed, PointsIn, Block
<1>3. o # NULL => o \in DOMAIN heap \ {Base} /\ r[l.blk] < r[o] /\ o # l.blk
  <2>1. ASSUME o # NULL PROVE o \in DOMAIN heap \ {Base} /\ r[l.blk] < r[o]
    BY <1>1, <1>2, <2>1 DEF PointersFit, Ranked
  <2>2. r \in [DOMAIN heap -> Nat]
    BY <1>2 DEF Ranked
  <2> QED BY <2>1, <2>2, <1>2
<1>4. b \in Ref /\ b # Base /\ b # l.blk /\ (b \in DOMAIN heap => b = o /\ b # NULL)
  BY <1>2, <1>3 DEF Targets, Ref, Typed, Block
<1>5. /\ e \in Items /\ e.desc = ItemAt(l).desc /\ e.own = [ItemAt(l).own EXCEPT ![L] = b]
      /\ ItemAt(l).own \in [Slots(ItemAt(l).desc) -> Ref]
  <2> HIDE DEF L, K
  <2>1. ItemAt(l) \in Items /\ L \in Slots(ItemAt(l).desc) /\ b \in Ref
    BY <1>1, <1>4
  <2> QED BY ONLY <2>1, ItemRepointed, ItemParts
<1>6. owner = [heap[l.blk] EXCEPT ![K] = e]
  BY <1>1, <1>2 DEF ItemAt, Repointed
<1> HIDE DEF o, L, K, e, owner
<1>7. /\ owner \in Seq(Items) /\ Len(owner) = Len(heap[l.blk])
      /\ \A j \in 1 .. Len(heap[l.blk]) : owner[j] = IF j = K THEN e ELSE heap[l.blk][j]
  BY <1>1, <1>2, <1>5, <1>6, ExceptSeq
<1>8. /\ DOMAIN g = (DOMAIN heap \ {o}) \cup ({b} \ {NULL})
      /\ \A x \in DOMAIN g : g[x] = IF x = b THEN items ELSE IF x = l.blk THEN owner ELSE heap[x]
  BY DEF Rehomed, o, owner
<1> HIDE DEF g
<1>9. l.blk \in DOMAIN g /\ g[l.blk] = owner
  BY <1>2, <1>3, <1>4, <1>8
<1>10. DOMAIN heap[l.blk] = 1 .. Len(heap[l.blk]) /\ DOMAIN owner = 1 .. Len(heap[l.blk])
  BY <1>2, <1>7
<1>11. \A j \in DOMAIN heap[l.blk] : owner[j].desc = heap[l.blk][j].desc
  BY <1>5, <1>7, <1>10 DEF ItemAt, K
<1>12. Typed(g)
  <2>1. DOMAIN g \subseteq Block /\ Base \in DOMAIN g
    BY <1>2, <1>3, <1>4, <1>8, <1>1 DEF Typed, Block, Ref
  <2>2. ASSUME NEW x \in DOMAIN g PROVE g[x] \in Seq(Items) /\ g[x] # <<>>
    <3>1. CASE x = b
      BY <3>1, <1>8, <2>1, <2>2 DEF Block
    <3>2. CASE x = l.blk
      BY <3>2, <1>9, <1>7, <1>1
    <3>3. CASE x # b /\ x # l.blk
      BY <3>3, <1>8, <1>2 DEF Typed
    <3> QED BY <3>1, <3>2, <3>3
  <2>3. Len(g[Base]) = 1 /\ g[Base][1].desc = Root
    <3>1. CASE l.blk = Base
      <4>1. Len(heap[l.blk]) = 1 /\ heap[l.blk][1].desc = Root
        BY <3>1, <1>2 DEF Typed
      <4>2. Len(owner) = 1 /\ owner[1].desc = Root
        BY <4>1, <1>7, <1>10, <1>11
      <4> QED BY <4>2, <3>1, <1>9
    <3>2. CASE l.blk # Base
      BY <3>2, <1>8, <1>4, <2>1, <1>2 DEF Typed
    <3> QED BY <3>1, <3>2
  <2> QED BY <2>1, <2>2, <2>3 DEF Typed
(* Where a pointer was before. *)
<1>13. ASSUME NEW x, NEW i, NEW s, NEW c, Owns(g, x, i, s, c)
       PROVE  \/ x = l.blk /\ i = K /\ s = L /\ c = b
              \/ x = b /\ b # NULL /\ Owns(heap, o, f[i], s, c) /\ o # NULL /\ i \in DOMAIN items
              \/ x # b /\ x # o /\ Owns(heap, x, i, s, c) /\ ~(x = l.blk /\ i = K /\ s = L)
  <2>1. x \in DOMAIN g /\ i \in DOMAIN g[x] /\ s \in DOMAIN g[x][i].own
        /\ g[x][i].own[s] = c /\ c # NULL
    BY <1>13 DEF Owns
  <2>2. CASE x = b
    <3>1. i \in DOMAIN items /\ s \in DOMAIN items[i].own /\ items[i].own[s] = c /\ b # NULL
      BY <2>1, <2>2, <1>8, <1>12 DEF Typed, Block
    <3>2. f[i] \in DOMAIN ItemsOf(l, a) /\ items[i] = ItemsOf(l, a)[f[i]]
      BY <3>1, <2>1
    <3>3. o # NULL /\ ItemsOf(l, a) = heap[o]
      BY <3>2 DEF ItemsOf, o
    <3> QED BY <3>1, <3>2, <3>3, <2>1, <2>2, <1>3 DEF Owns
  <2>3. CASE x = l.blk
    <3>1. i \in 1 .. Len(heap[l.blk]) /\ s \in DOMAIN owner[i].own /\ owner[i].own[s] = c
      BY <2>1, <2>3, <1>9, <1>10
    <3>2. CASE i = K
      <4>1. s \in Slots(ItemAt(l).desc) /\ c = IF s = L THEN b ELSE ItemAt(l).own[s]
        BY <3>1, <3>2, <1>7, <1>5, <1>1
      <4>2. CASE s = L
        BY <4>1, <4>2, <3>2, <2>3
      <4>3. CASE s # L
        <5>1. Owns(heap, l.blk, K, s, c)
          BY <4>1, <4>3, <1>2, <1>10, <3>1, <3>2, <1>5, <2>1 DEF Owns, ItemAt, K
        <5> QED BY <5>1, <4>3, <3>2, <2>3, <1>3, <1>4, <1>2
      <4> QED BY <4>2, <4>3
    <3>3. CASE i # K
      <4>1. owner[i] = heap[l.blk][i]
        BY <3>1, <3>3, <1>7
      <4>2. Owns(heap, l.blk, i, s, c)
        BY <4>1, <3>1, <1>2, <1>10, <2>1 DEF Owns
      <4> QED BY <4>2, <3>3, <2>3, <1>3, <1>4, <1>2
    <3> QED BY <3>2, <3>3
  <2>4. CASE x # b /\ x # l.blk
    <3>1. g[x] = heap[x] /\ x \in DOMAIN heap /\ x # o
      BY <2>1, <2>4, <1>8
    <3> QED BY <3>1, <2>1, <2>4 DEF Owns
  <2> QED BY <2>2, <2>3, <2>4
(* A pointer that was there before is not to the old block. *)
<1>14. ASSUME NEW x, NEW i, NEW s, NEW c, Owns(heap, x, i, s, c),
              ~(x = l.blk /\ i = K /\ s = L)
       PROVE  /\ c \in DOMAIN g \ {Base} /\ c # b /\ c # o
              /\ \A j \in DOMAIN g[c] : g[c][j].desc = Component[s[2]]
  <2>1. c \in DOMAIN heap \ {Base} /\ \A j \in DOMAIN heap[c] : heap[c][j].desc = Component[s[2]]
    BY <1>14, <1>2 DEF PointersFit
  <2>2. c # o
    BY <1>14, <1>1, <1>2 DEF OneOwner, Owns
  <2>3. c # b /\ c \in DOMAIN g
    BY <2>1, <2>2, <1>4, <1>8
  <2>4. CASE c = l.blk
    BY <2>4, <2>1, <2>2, <2>3, <1>9, <1>10, <1>11
  <2>5. CASE c # l.blk
    BY <2>5, <2>1, <2>2, <2>3, <1>8
  <2> QED BY <2>1, <2>2, <2>3, <2>4, <2>5
<1>15. o # NULL => ~(o = l.blk)
  BY <1>3
<1>16. PointersFit(g)
  <2> SUFFICES ASSUME NEW x, NEW i, NEW s, NEW c, Owns(g, x, i, s, c)
               PROVE  /\ c \in DOMAIN g \ {Base}
                      /\ \A j \in DOMAIN g[c] : g[c][j].desc = Component[s[2]]
    BY DEF PointersFit
  <2>1. CASE x = l.blk /\ i = K /\ s = L /\ c = b
    <3>1. b # NULL
      BY <2>1 DEF Owns
    <3>2. b \in DOMAIN g /\ g[b] = items
      BY <3>1, <1>8
    <3>3. s[2] = a
      BY <2>1 DEF L
    <3> QED BY <3>2, <3>3, <2>1, <1>4
  <2>2. CASE x = b /\ Owns(heap, o, f[i], s, c) /\ o # NULL
    BY <2>2, <1>14, <1>15
  <2>3. CASE Owns(heap, x, i, s, c) /\ ~(x = l.blk /\ i = K /\ s = L)
    BY <2>3, <1>14
  <2> QED BY <1>13, <2>1, <2>2, <2>3
<1>17. OneOwner(g)
  <2> SUFFICES ASSUME NEW x, NEW i, NEW s, NEW y, NEW j, NEW t, NEW c,
                      Owns(g, x, i, s, c), Owns(g, y, j, t, c)
               PROVE  x = y /\ i = j /\ s = t
    BY DEF OneOwner
  <2>1. CASE c = b
    <3>1. x = l.blk /\ i = K /\ s = L
      BY <2>1, <1>13, <1>14, <1>15
    <3>2. y = l.blk /\ j = K /\ t = L
      BY <2>1, <1>13, <1>14, <1>15
    <3> QED BY <3>1, <3>2
  <2>2. CASE c # b
    <3>1. \/ x = b /\ Owns(heap, o, f[i], s, c) /\ i \in DOMAIN items
          \/ x # b /\ x # o /\ Owns(heap, x, i, s, c)
      BY <2>2, <1>13
    <3>2. \/ y = b /\ Owns(heap, o, f[j], t, c) /\ j \in DOMAIN items
          \/ y # b /\ y # o /\ Owns(heap, y, j, t, c)
      BY <2>2, <1>13
    <3> QED BY <3>1, <3>2, <1>2 DEF OneOwner
  <2> QED BY <2>1, <2>2
<1>18. r \in [DOMAIN heap -> Nat] /\ r[l.blk] \in Nat
  BY <1>2 DEF Ranked
<1>19. q \in [DOMAIN g -> Nat]
  BY <1>18, <1>8
<1>20. Ranked(g, q)
  <2> SUFFICES ASSUME NEW x, NEW i, NEW s, NEW c, Owns(g, x, i, s, c)
               PROVE  q[x] < q[c]
    BY <1>19 DEF Ranked
  <2>1. x \in DOMAIN g /\ c \in DOMAIN g
    <3>1. x \in DOMAIN g
      BY DEF Owns
    <3>2. c \in DOMAIN g
      BY <1>16 DEF PointersFit
    <3> QED BY <3>1, <3>2
  <2>2. CASE x = l.blk /\ c = b
    BY <2>1, <2>2, <1>4, <1>18
  <2>3. CASE x = b /\ Owns(heap, o, f[i], s, c) /\ o # NULL
    <3>1. c # b /\ r[o] < r[c] /\ r[l.blk] < r[o] /\ c \in DOMAIN heap /\ o \in DOMAIN heap
      <4>1. r[o] < r[c] /\ c \in DOMAIN heap
        BY <2>3, <1>2 DEF Ranked, PointersFit
      <4>2. c # b
        BY <2>3, <1>14, <1>15
      <4> QED BY <4>1, <4>2, <2>3, <1>3
    <3>2. q[x] = r[l.blk] + 1 /\ q[c] = r[c]
      BY <3>1, <2>1, <2>3
    <3> QED BY <3>1, <3>2, <1>18
  <2>4. CASE x # b /\ Owns(heap, x, i, s, c) /\ ~(x = l.blk /\ i = K /\ s = L)
    <3>1. c # b /\ r[x] < r[c]
      BY <2>4, <1>2, <1>14 DEF Ranked
    <3> QED BY <3>1, <2>1, <2>4
  <2> QED BY <1>13, <2>2, <2>3, <2>4
<1>21. Keeps(heap, r, g, q, r[l.blk])
  <2> SUFFICES ASSUME NEW x \in DOMAIN heap, r[x] <= r[l.blk]
               PROVE  /\ x \in DOMAIN g /\ q[x] = r[x]
                      /\ Len(g[x]) = Len(heap[x])
                      /\ \A i \in DOMAIN heap[x] : g[x][i].desc = heap[x][i].desc
                      /\ r[x] < r[l.blk] => g[x] = heap[x]
    BY DEF Keeps
  <2>1. x # o
    BY <1>3, <1>18, <1>2 DEF Typed, Block
  <2>2. x # b /\ x \in DOMAIN g /\ q[x] = r[x]
    BY <2>1, <1>4, <1>8
  <2>3. CASE x = l.blk
    BY <2>2, <2>3, <1>7, <1>9, <1>11, <1>18
  <2>4. CASE x # l.blk
    BY <2>2, <2>4, <1>8
  <2> QED BY <2>2, <2>3, <2>4
<1>22. b # NULL => b \in DOMAIN g /\ g[b] = items /\ r[l.blk] < q[b]
  BY <1>8, <1>18
<1>23. WellFormed(g, q)
  BY <1>12, <1>16, <1>17, <1>20 DEF WellFormed
<1> HIDE DEF q
<1> QED BY <1>21, <1>22, <1>23 DEF g

(* Nothing hangs below the item at the place. *)
OwnsNothing(h, l) ==
  LET item == h[l.blk][l.idx + 1]
  IN  \A s \in DOMAIN item.own : item.own[s] = NULL

(* add: the new item is where it was asked for and owns nothing. *)
LEMMA Adding ==
  ASSUME NEW r, WellFormed(heap, r), NEW l, PointsIn(heap, l),
         NEW a \in ComponentsOf(l.desc) \cap Owned,
         NEW i \in 0 .. CountOf(l, a), NEW b \in Targets(l, a)
  PROVE  \E q :
           /\ WellFormed(Added(l, a, i, b), q)
           /\ Keeps(heap, r, Added(l, a, i, b), q, r[l.blk])
           /\ r[l.blk] < q[b]
           /\ PointsIn(Added(l, a, i, b), Place(Component[a], b, i, <<>>))
           /\ OwnsNothing(Added(l, a, i, b), Place(Component[a], b, i, <<>>))
<1> DEFINE old   == ItemsOf(l, a)
           new   == NewItem(Component[a])
           items == InsertAt(old, i + 1, new)
           f     == [j \in DOMAIN items |->
                       IF j < i + 1 THEN j ELSE IF j = i + 1 THEN 0 ELSE j - 1]
           g     == Added(l, a, i, b)
           p     == Place(Component[a], b, i, <<>>)
<1>1. /\ old \in Seq(Items) /\ \A j \in DOMAIN old : old[j].desc = Component[a]
      /\ CountOf(l, a) = Len(old) /\ Len(old) \in Nat /\ Component[a] \in Desc
  BY OwnedBlock
<1>2. /\ new \in Items /\ new.desc = Component[a] /\ \A s \in DOMAIN new.own : new.own[s] = NULL
  BY <1>1, NewItemMade
<1>3. b # NULL
  BY DEF Targets
<1> HIDE DEF old, new
<1>4. i + 1 \in 1 .. Len(old) + 1 /\ i \in Nat /\ DOMAIN old = 1 .. Len(old)
  BY <1>1
<1>5. /\ items \in Seq(Items) /\ Len(items) = Len(old) + 1
      /\ \A j \in 1 .. Len(old) + 1 :
           items[j] = IF j < i + 1 THEN old[j] ELSE IF j = i + 1 THEN new ELSE old[j - 1]
  BY <1>1, <1>2, <1>4, Inserted
<1> HIDE DEF items
<1>6. DOMAIN items = 1 .. Len(old) + 1 /\ items # <<>>
  BY <1>1, <1>5
<1>7. f \in [DOMAIN items -> Nat] /\ \A j, k \in DOMAIN items : f[j] = f[k] => j = k
  BY <1>4, <1>6
<1>8. /\ \A j \in DOMAIN items : items[j].desc = Component[a]
      /\ \A j \in DOMAIN items :
           \/ \A s \in DOMAIN items[j].own : items[j].own[s] = NULL
           \/ f[j] \in DOMAIN old /\ items[j] = old[f[j]]
  <2> SUFFICES ASSUME NEW j \in DOMAIN items
               PROVE  /\ items[j].desc = Component[a]
                      /\ \/ \A s \in DOMAIN items[j].own : items[j].own[s] = NULL
                         \/ f[j] \in DOMAIN old /\ items[j] = old[f[j]]
    OBVIOUS
  <2>1. CASE j < i + 1
    BY <2>1, <1>1, <1>4, <1>5, <1>6
  <2>2. CASE j = i + 1
    BY <2>2, <1>2, <1>4, <1>5, <1>6
  <2>3. CASE j > i + 1
    <3>1. items[j] = old[j - 1] /\ j - 1 \in DOMAIN old /\ f[j] = j - 1
      BY <2>3, <1>1, <1>4, <1>5, <1>6
    <3> QED BY <3>1, <1>1
  <2> QED BY <2>1, <2>2, <2>3, <1>4, <1>6
<1>9. g = Rehomed(l, a, b, items)
  BY DEF Added, items, old, new
<1> HIDE DEF f, g
<1>10. PICK q : /\ WellFormed(g, q) /\ Keeps(heap, r, g, q, r[l.blk])
               /\ b \in DOMAIN g /\ g[b] = items /\ r[l.blk] < q[b]
  <2>1. b = NULL \/ (b \in Targets(l, a) /\ items # <<>>)
    BY <1>6
  <2>2. \E q : /\ WellFormed(Rehomed(l, a, b, items), q)
               /\ Keeps(heap, r, Rehomed(l, a, b, items), q, r[l.blk])
               /\ b # NULL => /\ b \in DOMAIN Rehomed(l, a, b, items)
                              /\ Rehomed(l, a, b, items)[b] = items
                              /\ r[l.blk] < q[b]
    <3>1. items \in Seq(Items) /\ f \in [DOMAIN items -> Nat]
      BY <1>5, <1>7
    <3>2. \A j, k \in DOMAIN items : f[j] = f[k] => j = k
      BY <1>7
    <3>3. \A j \in DOMAIN items : items[j].desc = Component[a]
      BY <1>8
    <3>4. \A j \in DOMAIN items :
            \/ \A s \in DOMAIN items[j].own : items[j].own[s] = NULL
            \/ f[j] \in DOMAIN ItemsOf(l, a) /\ items[j] = ItemsOf(l, a)[f[j]]
      BY <1>8 DEF old
    <3>5. WellFormed(heap, r) /\ PointsIn(heap, l) /\ a \in ComponentsOf(l.desc) \cap Owned
      OBVIOUS
    <3> QED BY ONLY <2>1, <3>1, <3>2, <3>3, <3>4, <3>5, Rehoming
  <2> QED BY <2>2, <1>3, <1>9
<1>11. g[b][i + 1] = new /\ i + 1 \in DOMAIN g[b]
  BY <1>4, <1>5, <1>6, <1>10
<1>12. PointsIn(g, p)
  BY <1>1, <1>2, <1>4, <1>10, <1>11, LayoutAssumption DEF PointsIn, Place
<1>13. OwnsNothing(g, p)
  BY <1>2, <1>11 DEF OwnsNothing, Place
<1> QED BY <1>10, <1>12, <1>13 DEF g

(* del *)
LEMMA Deleting ==
  ASSUME NEW r, WellFormed(heap, r), NEW l, PointsIn(heap, l),
         NEW a \in ComponentsOf(l.desc) \cap Owned,
         NEW i \in 0 .. CountOf(l, a) - 1, NEW b,
         IF CountOf(l, a) = 1 THEN b = NULL ELSE b \in Targets(l, a)
  PROVE  \E q : /\ WellFormed(Deleted(l, a, i, b), q)
                /\ Keeps(heap, r, Deleted(l, a, i, b), q, r[l.blk])
<1> DEFINE old   == ItemsOf(l, a)
           items == RemoveAt(old, i + 1)
           f     == [j \in DOMAIN items |-> IF j < i + 1 THEN j ELSE j + 1]
           g     == Deleted(l, a, i, b)
<1>1. /\ old \in Seq(Items) /\ \A j \in DOMAIN old : old[j].desc = Component[a]
      /\ CountOf(l, a) = Len(old) /\ Len(old) \in Nat
  BY OwnedBlock
<1> HIDE DEF old
<1>2. i + 1 \in 1 .. Len(old) /\ i \in Nat /\ DOMAIN old = 1 .. Len(old)
  BY <1>1
<1>3. /\ items \in Seq(Items) /\ Len(items) = Len(old) - 1
      /\ \A j \in 1 .. Len(old) - 1 : items[j] = IF j < i + 1 THEN old[j] ELSE old[j + 1]
  BY <1>1, <1>2, Removed
<1> HIDE DEF items
<1>4. DOMAIN items = 1 .. Len(old) - 1
  BY <1>1, <1>3
<1>5. b = NULL \/ (b \in Targets(l, a) /\ items # <<>>)
  BY <1>1, <1>2, <1>3
<1>6. f \in [DOMAIN items -> Nat] /\ \A j, k \in DOMAIN items : f[j] = f[k] => j = k
  BY <1>2, <1>4
<1>7. \A j \in DOMAIN items :
        /\ items[j].desc = Component[a]
        /\ f[j] \in DOMAIN old /\ items[j] = old[f[j]]
  BY <1>1, <1>2, <1>3, <1>4
<1>8. g = Rehomed(l, a, b, items)
  BY DEF Deleted, items, old
<1> HIDE DEF f, g
<1>9. \E q : WellFormed(g, q) /\ Keeps(heap, r, g, q, r[l.blk])
  BY <1>3, <1>5, <1>6, <1>7, <1>8, Rehoming DEF old
<1> QED BY <1>9 DEF g

-----------------------------------------------------------------------------
(* A heap in which the item at a place is replaced by one that owns what   *)
(* the first one owned, or less.                                           *)
LEMMA Replacing ==
  ASSUME NEW h, NEW r, WellFormed(h, r), NEW l, PointsIn(h, l),
         NEW e \in Items, e.desc = h[l.blk][l.idx + 1].desc,
         NEW g, DOMAIN g \subseteq DOMAIN h, {Base, l.blk} \subseteq DOMAIN g,
         \A x \in DOMAIN h : r[x] <= r[l.blk] => x \in DOMAIN g,
         \A x \in DOMAIN g :
           g[x] = IF x = l.blk THEN [h[x] EXCEPT ![l.idx + 1] = e] ELSE h[x],
         \A s \in DOMAIN e.own : e.own[s] # NULL =>
           /\ s \in DOMAIN h[l.blk][l.idx + 1].own
           /\ e.own[s] = h[l.blk][l.idx + 1].own[s],
         \A x, i, s, c : Owns(g, x, i, s, c) /\ Owns(h, x, i, s, c) => c \in DOMAIN g
  PROVE  LET q == [x \in DOMAIN g |-> r[x]]
         IN  WellFormed(g, q) /\ Keeps(h, r, g, q, r[l.blk])
<1> DEFINE K == l.idx + 1
           item == [h[l.blk] EXCEPT ![l.idx + 1] = e]
           q == [x \in DOMAIN g |-> r[x]]
<1>1. /\ Typed(h) /\ PointersFit(h) /\ OneOwner(h) /\ Ranked(h, r)
      /\ l.blk \in DOMAIN h /\ h[l.blk] \in Seq(Items) /\ K \in 1 .. Len(h[l.blk])
      /\ DOMAIN h[l.blk] = 1 .. Len(h[l.blk])
  <2>1. Typed(h) /\ PointersFit(h) /\ OneOwner(h) /\ Ranked(h, r)
    BY DEF WellFormed
  <2>2. l.blk \in DOMAIN h /\ K \in DOMAIN h[l.blk]
    BY DEF PointsIn
  <2>3. h[l.blk] \in Seq(Items)
    BY <2>1, <2>2 DEF Typed
  <2>4. DOMAIN h[l.blk] = 1 .. Len(h[l.blk])
    BY <2>3
  <2> QED BY ONLY <2>1, <2>2, <2>3, <2>4
<1>2. /\ item \in Seq(Items) /\ Len(item) = Len(h[l.blk])
      /\ \A j \in 1 .. Len(h[l.blk]) : item[j] = IF j = K THEN e ELSE h[l.blk][j]
  BY <1>1, ExceptSeq
<1>3. g[l.blk] = item /\ \A x \in DOMAIN g : x # l.blk => g[x] = h[x]
  OBVIOUS
<1> HIDE DEF item
<1>4. DOMAIN item = DOMAIN h[l.blk] /\ \A j \in DOMAIN h[l.blk] : item[j].desc = h[l.blk][j].desc
  BY <1>1, <1>2
<1>5. r \in [DOMAIN h -> Nat]
  BY <1>1 DEF Ranked
<1>6. ASSUME NEW x \in DOMAIN g
      PROVE  /\ x \in DOMAIN h /\ DOMAIN g[x] = DOMAIN h[x] /\ Len(g[x]) = Len(h[x])
             /\ \A j \in DOMAIN h[x] : g[x][j].desc = h[x][j].desc
             /\ g[x] \in Seq(Items)
  <2>1. CASE x = l.blk
    BY <2>1, <1>1, <1>2, <1>3, <1>4
  <2>2. CASE x # l.blk
    BY <2>2, <1>1, <1>3 DEF Typed
  <2> QED BY <2>1, <2>2
<1>7. ASSUME NEW x, NEW i, NEW s, NEW c, Owns(g, x, i, s, c)
      PROVE  Owns(h, x, i, s, c) /\ c \in DOMAIN g
  <2>1. x \in DOMAIN g /\ i \in DOMAIN g[x] /\ s \in DOMAIN g[x][i].own
        /\ g[x][i].own[s] = c /\ c # NULL
    BY <1>7 DEF Owns
  <2>2. x \in DOMAIN h /\ i \in DOMAIN h[x]
    BY <2>1, <1>6
  <2>3. CASE x = l.blk /\ i = K
    <3>1. g[x][i] = e
      BY <2>3, <1>1, <1>2, <1>3
    <3>2. s \in DOMAIN h[x][i].own /\ h[x][i].own[s] = c
      BY <3>1, <2>1, <2>3
    <3> QED BY <3>2, <2>1, <2>2, <1>7 DEF Owns
  <2>4. CASE ~(x = l.blk /\ i = K)
    <3>1. g[x][i] = h[x][i]
      BY <2>2, <2>4, <2>1, <1>1, <1>2, <1>3
    <3> QED BY <3>1, <2>1, <2>2, <1>7 DEF Owns
  <2> QED BY <2>3, <2>4
<1>8. Typed(g)
  <2>1. \A x \in DOMAIN g : g[x] # <<>>
    BY <1>1, <1>6 DEF Typed
  <2>2. Len(g[Base]) = 1 /\ g[Base][1].desc = Root
    <3>1. 1 \in DOMAIN h[Base] /\ Len(h[Base]) = 1 /\ h[Base][1].desc = Root
      BY <1>1 DEF Typed
    <3> QED BY <3>1, <1>6
  <2> QED BY <2>1, <2>2, <1>1, <1>6 DEF Typed
<1>9. PointersFit(g)
  <2> SUFFICES ASSUME NEW x, NEW i, NEW s, NEW c, Owns(g, x, i, s, c)
               PROVE  /\ c \in DOMAIN g \ {Base}
                      /\ \A j \in DOMAIN g[c] : g[c][j].desc = Component[s[2]]
    BY DEF PointersFit
  <2>1. /\ c \in DOMAIN g /\ c # Base
        /\ \A j \in DOMAIN h[c] : h[c][j].desc = Component[s[2]]
    BY <1>1, <1>7 DEF PointersFit
  <2> QED BY <2>1, <1>6
<1>10. OneOwner(g)
  BY <1>1, <1>7 DEF OneOwner
<1>11. q \in [DOMAIN g -> Nat] /\ \A x \in DOMAIN g : q[x] = r[x]
  BY <1>5
<1> HIDE DEF q
<1>12. Ranked(g, q)
  <2> SUFFICES ASSUME NEW x, NEW i, NEW s, NEW c, Owns(g, x, i, s, c)
               PROVE  q[x] < q[c]
    BY <1>11 DEF Ranked
  <2>1. x \in DOMAIN g
    BY DEF Owns
  <2>2. c \in DOMAIN g /\ r[x] < r[c]
    BY <1>1, <1>7 DEF Ranked
  <2> QED BY <2>1, <2>2, <1>11
<1>13. Keeps(h, r, g, q, r[l.blk])
  <2> SUFFICES ASSUME NEW x \in DOMAIN h, r[x] <= r[l.blk]
               PROVE  /\ x \in DOMAIN g /\ q[x] = r[x]
                      /\ Len(g[x]) = Len(h[x]) /\ \A i \in DOMAIN h[x] : g[x][i].desc = h[x][i].desc
                      /\ r[x] < r[l.blk] => g[x] = h[x]
    BY DEF Keeps
  <2>1. x \in DOMAIN g
    OBVIOUS
  <2>2. x # l.blk => g[x] = h[x]
    BY <2>1, <1>3
  <2>3. ~(r[l.blk] < r[l.blk])
    BY <1>1, <1>5
  <2> QED BY <2>1, <2>2, <2>3, <1>6, <1>11
<1> QED BY <1>8, <1>9, <1>10, <1>12, <1>13 DEF WellFormed, q

(* Writing a value leaves the pointers alone. *)
LEMMA Writing ==
  ASSUME NEW h, NEW r, WellFormed(h, r), NEW l, PointsIn(h, l),
         l.desc \in Simple, NEW v \in Value
  PROVE  \E q : WellFormed(Written(h, l, v), q) /\ Keeps(h, r, Written(h, l, v), q, r[l.blk])
<1> DEFINE item == h[l.blk][l.idx + 1]
           e    == Rewritten(item, l.path, v)
           g    == Written(h, l, v)
<1>1. /\ Typed(h) /\ l.blk \in DOMAIN h /\ h[l.blk] \in Seq(Items)
      /\ l.idx + 1 \in 1 .. Len(h[l.blk])
  BY DEF WellFormed, Typed, PointsIn
<1>2. item \in Items
  BY <1>1
<1>3. l.path \in Values(item.desc)
  BY DEF PointsIn, Values
<1>4. e \in Items /\ e.desc = item.desc /\ e.own = item.own
  <2> HIDE DEF item
  <2> QED BY <1>2, <1>3, ItemWritten
<1>5. /\ DOMAIN g = DOMAIN h
      /\ \A x \in DOMAIN g :
           g[x] = IF x = l.blk THEN [h[x] EXCEPT ![l.idx + 1] = e] ELSE h[x]
  BY <1>1 DEF Written, Rewritten
<1>6. Base \in DOMAIN h /\ \A x, i, s, c : Owns(h, x, i, s, c) => c \in DOMAIN h
  BY DEF WellFormed, PointersFit, Typed
<1> HIDE DEF e, g
<1>7. WellFormed(g, [x \in DOMAIN g |-> r[x]]) /\ Keeps(h, r, g, [x \in DOMAIN g |-> r[x]], r[l.blk])
  BY <1>1, <1>4, <1>5, <1>6, Replacing
<1> QED BY <1>7 DEF g

-----------------------------------------------------------------------------
(* What can be reached. *)

LEMMA ReachesOwned ==
  ASSUME NEW B \in SUBSET Addr,
         \A x, i, s, c : Owns(heap, x, i, s, c) => c \in Addr
  PROVE  /\ B \subseteq Reachable(B) /\ Reachable(B) \subseteq Addr
         /\ \A x, i, s, c :
              x \in Reachable(B) /\ Owns(heap, x, i, s, c) => c \in Reachable(B)
<1>1. ASSUME NEW x, NEW i, NEW s, NEW c, x \in Reachable(B), Owns(heap, x, i, s, c)
      PROVE  c \in Reachable(B)
  <2>1. c \in Addr
    BY <1>1
  <2>2. ASSUME NEW S \in SUBSET Addr, B \subseteq S, Closed(S) PROVE c \in S
    <3>1. x \in S
      BY <1>1, <2>2 DEF Reachable
    <3>2. c \in Pointers(heap[x][i]) /\ x \in DOMAIN heap /\ i \in DOMAIN heap[x]
      BY <1>1 DEF Owns, Pointers
    <3> QED BY <3>1, <3>2, <2>2 DEF Closed
  <2> QED BY <2>1, <2>2 DEF Reachable
<1> QED BY <1>1 DEF Reachable

LEMMA ReachesLeast ==
  ASSUME NEW B, NEW S \in SUBSET Addr, B \subseteq S,
         \A x, i, s, c : x \in S /\ Owns(heap, x, i, s, c) => c \in S
  PROVE  Reachable(B) \subseteq S
<1>1. Closed(S)
  <2> SUFFICES ASSUME NEW x \in S \cap DOMAIN heap, NEW i \in DOMAIN heap[x],
                      NEW c \in Pointers(heap[x][i])
               PROVE  c \in S
    BY DEF Closed
  <2>1. PICK s \in DOMAIN heap[x][i].own : heap[x][i].own[s] = c /\ c # NULL
    BY DEF Pointers
  <2>2. Owns(heap, x, i, s, c)
    BY <2>1 DEF Owns
  <2> QED BY <2>2
<1> QED BY <1>1 DEF Reachable

(* The item without what is inside the place. *)
LEMMA ResetItem ==
  ASSUME NEW l, ItemAt(l) \in Items
  PROVE  /\ Reset(l) \in Items /\ Reset(l).desc = ItemAt(l).desc
         /\ Reset(l).own = [s \in DOMAIN ItemAt(l).own |->
                              IF Inside(l, s[1]) THEN NULL ELSE ItemAt(l).own[s]]
<1> DEFINE item == ItemAt(l)
           d    == item.desc
           v    == [p \in DOMAIN item.val |->
                     IF Inside(l, p) /\ Layout[d][p] \in HasDefault THEN Default ELSE item.val[p]]
           o    == [s \in DOMAIN item.own |-> IF Inside(l, s[1]) THEN NULL ELSE item.own[s]]
<1>1. /\ item = [desc |-> d, val |-> item.val, own |-> item.own] /\ d \in Desc
      /\ item.val \in [Values(d) -> Value] /\ item.own \in [Slots(d) -> Ref]
  BY ItemParts
<1>2. v \in [Values(d) -> Value] /\ o \in [Slots(d) -> Ref]
  BY <1>1 DEF Ref
<1>3. Reset(l) = [desc |-> d, val |-> v, own |-> o]
  <2>1. Reset(l) = [item EXCEPT !.val = v, !.own = o]
    BY DEF Reset
  <2> HIDE DEF v, o, item
  <2> QED BY <2>1, <1>1
<1> HIDE DEF v
<1>4. [desc |-> d, val |-> v, own |-> o] \in Items
  BY <1>1, <1>2, ItemMade
<1> QED BY <1>3, <1>4

(* setDefault *)
LEMMA Defaulting ==
  ASSUME NEW r, WellFormed(heap, r), NEW l, PointsIn(heap, l)
  PROVE  \E q : WellFormed(Defaulted(l), q) /\ Keeps(heap, r, Defaulted(l), q, r[l.blk])
<1> DEFINE K == l.idx + 1
           B == PointersAt(l)
           R == Reachable(B)
           g == Defaulted(l)
<1>1. /\ Typed(heap) /\ PointersFit(heap) /\ OneOwner(heap) /\ Ranked(heap, r)
      /\ l.blk \in DOMAIN heap /\ heap[l.blk] \in Seq(Items) /\ K \in DOMAIN heap[l.blk]
      /\ ItemAt(l) = heap[l.blk][K] /\ ItemAt(l) \in Items
      /\ DOMAIN heap \subseteq Block /\ Base \in DOMAIN heap
  BY DEF WellFormed, Typed, PointsIn, ItemAt
<1>2. \A x, i, s, c : Owns(heap, x, i, s, c) =>
        c \in Addr /\ c \in DOMAIN heap /\ r[x] < r[c]
  BY <1>1 DEF PointersFit, Ranked, Block
<1>3. ASSUME NEW c \in B
      PROVE  \E s : Owns(heap, l.blk, K, s, c) /\ Inside(l, s[1])
  BY <1>1, <1>3 DEF PointersAt, Owns
<1>4. r \in [DOMAIN heap -> Nat]
  BY <1>1 DEF Ranked
<1>5. B \in SUBSET Addr
  BY <1>2, <1>3
<1> HIDE DEF B, R
<1>6. /\ B \subseteq R /\ R \subseteq Addr
      /\ \A x, i, s, c : x \in R /\ Owns(heap, x, i, s, c) => c \in R
  BY <1>2, <1>5, ReachesOwned DEF R
(* What is freed has a larger rank. *)
<1>7. \A c \in R : c \in DOMAIN heap /\ r[l.blk] < r[c]
  <2> DEFINE S == {c \in Addr : c \in DOMAIN heap /\ r[l.blk] < r[c]}
  <2>1. B \subseteq S
    BY <1>2, <1>3
  <2>2. ASSUME NEW x, NEW i, NEW s, NEW c, x \in S, Owns(heap, x, i, s, c) PROVE c \in S
    <3>1. r[x] < r[c] /\ c \in Addr /\ c \in DOMAIN heap
      BY <1>2, <2>2
    <3>2. r[l.blk] < r[x] /\ x \in DOMAIN heap
      BY <2>2
    <3> QED BY <3>1, <3>2, <1>1, <1>4
  <2> HIDE DEF S
  <2>3. S \in SUBSET Addr
    BY DEF S
  <2>4. R \subseteq S
    BY <2>1, <2>2, <2>3, ReachesLeast DEF R
  <2> QED BY <2>4 DEF S
(* What is kept does not own what is freed. *)
<1>8. ASSUME NEW x, NEW i, NEW s, NEW c, Owns(heap, x, i, s, c), x \notin R,
             ~(x = l.blk /\ i = K /\ Inside(l, s[1]))
      PROVE  c \notin R
  <2> DEFINE S == R \ {c}
  <2>1. B \subseteq S
    <3> SUFFICES ASSUME NEW d \in B PROVE d # c
      BY <1>6
    <3>1. PICK t : Owns(heap, l.blk, K, t, d) /\ Inside(l, t[1])
      BY <1>3
    <3> QED BY <3>1, <1>1, <1>8 DEF OneOwner
  <2>2. ASSUME NEW y, NEW j, NEW t, NEW d, y \in S, Owns(heap, y, j, t, d) PROVE d \in S
    <3>1. d \in R
      BY <2>2, <1>6
    <3>2. d # c
      BY <2>2, <1>8, <1>1 DEF OneOwner
    <3> QED BY <3>1, <3>2
  <2> HIDE DEF S
  <2>3. S \in SUBSET Addr
    BY <1>6 DEF S
  <2>4. R \subseteq S
    BY <2>1, <2>2, <2>3, ReachesLeast DEF R
  <2> QED BY <2>4 DEF S
<1>9. /\ DOMAIN g = DOMAIN heap \ R
      /\ \A x \in DOMAIN g :
           g[x] = IF x = l.blk THEN [heap[x] EXCEPT ![l.idx + 1] = Reset(l)] ELSE heap[x]
  BY DEF Defaulted, R, B
<1> HIDE DEF g
<1>10. l.blk \notin R /\ Base \notin R
  BY <1>1, <1>4, <1>6, <1>7
<1>11. /\ Reset(l) \in Items /\ Reset(l).desc = ItemAt(l).desc
       /\ Reset(l).own = [s \in DOMAIN ItemAt(l).own |->
                            IF Inside(l, s[1]) THEN NULL ELSE ItemAt(l).own[s]]
  BY <1>1, ResetItem
<1>12. \A x \in DOMAIN heap : r[x] <= r[l.blk] => x \in DOMAIN g
  BY <1>1, <1>4, <1>7, <1>9
<1>13. ASSUME NEW x, NEW i, NEW s, NEW c, Owns(g, x, i, s, c), Owns(heap, x, i, s, c)
       PROVE  c \in DOMAIN g
  <2>1. x \notin R /\ x \in DOMAIN g
    BY <1>13, <1>9 DEF Owns
  <2>2. ~(x = l.blk /\ i = K /\ Inside(l, s[1]))
    <3> SUFFICES ASSUME x = l.blk, i = K, Inside(l, s[1]) PROVE FALSE
      OBVIOUS
    <3>1. g[x][i] = Reset(l)
      BY <2>1, <1>1, <1>9
    <3>2. Reset(l).own[s] = NULL
      BY <1>1, <1>11, <1>13 DEF Owns
    <3> QED BY <3>1, <3>2, <1>13 DEF Owns
  <2> QED BY <2>1, <2>2, <1>2, <1>8, <1>9, <1>13
<1>14. \A s \in DOMAIN Reset(l).own : Reset(l).own[s] # NULL =>
         /\ s \in DOMAIN ItemAt(l).own /\ Reset(l).own[s] = ItemAt(l).own[s]
  BY <1>11
<1> DEFINE q == [x \in DOMAIN g |-> r[x]]
<1>15. WellFormed(g, q) /\ Keeps(heap, r, g, q, r[l.blk])
  <2>1. /\ WellFormed(heap, r) /\ PointsIn(heap, l) /\ Reset(l) \in Items
        /\ Reset(l).desc = heap[l.blk][l.idx + 1].desc
        /\ DOMAIN g \subseteq DOMAIN heap /\ {Base, l.blk} \subseteq DOMAIN g
    BY <1>1, <1>9, <1>10, <1>11
  <2>2. \A s \in DOMAIN Reset(l).own : Reset(l).own[s] # NULL =>
          /\ s \in DOMAIN heap[l.blk][l.idx + 1].own
          /\ Reset(l).own[s] = heap[l.blk][l.idx + 1].own[s]
    BY <1>1, <1>14
  <2>3. \A x, i, s, c : Owns(g, x, i, s, c) /\ Owns(heap, x, i, s, c) => c \in DOMAIN g
    BY <1>13
  <2> QED BY ONLY <2>1, <2>2, <2>3, <1>9, <1>12, Replacing
<1> HIDE DEF q
<1> QED BY <1>15 DEF g

-----------------------------------------------------------------------------
(* What a change leaves alone. *)

LEMMA KeptPoints ==
  ASSUME NEW h, NEW r, NEW g, NEW q, NEW n, Typed(h), Keeps(h, r, g, q, n),
         Typed(g), NEW l, PointsIn(h, l), r[l.blk] <= n
  PROVE  PointsIn(g, l) /\ q[l.blk] = r[l.blk] /\ Len(g[l.blk]) = Len(h[l.blk])
<1>1. /\ l.blk \in DOMAIN h /\ l.blk \in DOMAIN g /\ q[l.blk] = r[l.blk]
      /\ Len(g[l.blk]) = Len(h[l.blk])
      /\ \A i \in DOMAIN h[l.blk] : g[l.blk][i].desc = h[l.blk][i].desc
  BY DEF Keeps, PointsIn
<1>2. DOMAIN g[l.blk] = DOMAIN h[l.blk]
  <2>1. h[l.blk] \in Seq(Items) /\ g[l.blk] \in Seq(Items)
    BY <1>1 DEF Typed
  <2> QED BY <2>1, <1>1
<1> QED BY <1>1, <1>2 DEF PointsIn

LEMMA KeptInTree ==
  ASSUME NEW h, NEW r, NEW g, NEW q, NEW n \in Nat, WellFormed(h, r), Keeps(h, r, g, q, n),
         NEW x \in DOMAIN h, InTree(h, x), r[x] <= n
  PROVE  InTree(g, x)
<1>1. /\ r \in [DOMAIN h -> Nat] /\ DOMAIN h \subseteq Addr \cup {Base}
      /\ \A b, i, s, c : Owns(h, b, i, s, c) =>
           b \in DOMAIN h /\ c \in DOMAIN h /\ c \in Addr /\ r[b] < r[c]
  <2>1. Typed(h) /\ PointersFit(h) /\ Ranked(h, r)
    BY DEF WellFormed
  <2>2. \A b, i, s, c : Owns(h, b, i, s, c) => b \in DOMAIN h
    BY DEF Owns
  <2> QED BY <2>1, <2>2 DEF Typed, PointersFit, Ranked, Block
<1>2. ASSUME NEW b, NEW i, NEW s, NEW c, Owns(h, b, i, s, c), r[c] <= n
      PROVE  Owns(g, b, i, s, c)
  <2>1. b \in DOMAIN h /\ r[b] < r[c] /\ r[b] \in Nat /\ r[c] \in Nat
    BY <1>1, <1>2
  <2>2. r[b] < n
    BY <2>1, <1>2
  <2>3. b \in DOMAIN g /\ g[b] = h[b]
    BY <2>1, <2>2 DEF Keeps
  <2> QED BY <2>3, <1>2 DEF Owns
<1>3. CASE x = Base
  BY <1>3 DEF InTree
<1>4. CASE x # Base
  <2> SUFFICES ASSUME NEW S \in SUBSET Addr,
                      \A s, c : Owns(g, Base, 1, s, c) => c \in S,
                      \A b \in S : \A i, s, c : Owns(g, b, i, s, c) => c \in S
               PROVE  x \in S
    BY <1>1, <1>4 DEF InTree
  <2> DEFINE T == S \cup {c \in Addr \cap DOMAIN h : ~(r[c] <= n)}
  <2>1. \A s, c : Owns(h, Base, 1, s, c) => c \in T
    BY <1>1, <1>2
  <2>2. ASSUME NEW b \in T, NEW i, NEW s, NEW c, Owns(h, b, i, s, c) PROVE c \in T
    <3>1. CASE r[c] <= n
      <4>1. b \in DOMAIN h /\ r[b] \in Nat /\ r[c] \in Nat /\ r[b] < r[c]
        BY <2>2, <1>1
      <4>2. r[b] <= n
        BY <4>1, <3>1
      <4>3. b \in S
        BY <4>2
      <4> QED BY <4>3, <3>1, <2>2, <1>2
    <3>2. CASE ~(r[c] <= n)
      BY <3>2, <2>2, <1>1
    <3> QED BY <3>1, <3>2
  <2>3. T \in SUBSET Addr
    OBVIOUS
  <2> HIDE DEF T
  <2>4. x \in T
    BY <2>1, <2>2, <2>3, <1>4 DEF InTree
  <2> QED BY <2>4 DEF T
<1> QED BY <1>3, <1>4

(* The tree of the properties is the tree of the proof. *)
LEMMA TreeIs ==
  ASSUME \A b, i, s, c : Owns(heap, b, i, s, c) => c \in Addr, Typed(heap)
  PROVE  \A x : InTree(heap, x) => x \in Tree
<1> DEFINE B == Pointers(heap[Base][1])
<1>1. \A s, c : Owns(heap, Base, 1, s, c) <=> s \in DOMAIN heap[Base][1].own /\ heap[Base][1].own[s] = c /\ c # NULL
  BY DEF Owns, Typed
<1>2. B \in SUBSET Addr
  BY <1>1 DEF Pointers
<1>3. \A s, c : Owns(heap, Base, 1, s, c) => c \in Reachable(B)
  <2>1. \A s, c : Owns(heap, Base, 1, s, c) => c \in B
    BY <1>1 DEF Pointers
  <2> HIDE DEF B
  <2> QED BY <2>1, <1>2, ReachesOwned
<1> HIDE DEF B
<1>4. /\ Reachable(B) \in SUBSET Addr
      /\ \A b \in Reachable(B) : \A i, s, c : Owns(heap, b, i, s, c) => c \in Reachable(B)
  BY <1>2, ReachesOwned
<1>5. \A x : InTree(heap, x) => x = Base \/ x \in Reachable(B)
  BY <1>3, <1>4 DEF InTree
<1> QED BY <1>5 DEF Tree, B

-----------------------------------------------------------------------------
(* The walk of a command over its words. *)

WordSet == [aggr : Aggr, idx : Nat]

DescAt(d, w, k) == IF k = 0 THEN d ELSE Component[w[k].aggr]

(* Each word names a component of what the word before it names. *)
WordsFit(d, w) ==
  /\ w \in Seq(WordSet)
  /\ \A k \in 1 .. Len(w) : w[k].aggr \in ComponentsOf(DescAt(d, w, k - 1))

(* The word x leads from the item at l to the item at m. *)
Leads(l, x, m) == x.idx < CountOf(l, x.aggr) /\ m = Below(l, x.aggr, x.idx)

(* The words lead from l to m. *)
Found(l, w, m) ==
  \E p : p[1] = l /\ p[Len(w) + 1] = m /\ \A k \in 1 .. Len(w) : Leads(p[k], w[k], p[k + 1])

(* A word for an item below one that was just created. *)
NewWord(x) == IF x.aggr \in Owned THEN x.idx = 0 ELSE x.idx < MaxCount[x.aggr]

(* The words lead from l to an item that is the next one to be created,    *)
(* and on from there.                                                      *)
Creates(l, w) ==
  \E p, n :
    /\ n \in 1 .. Len(w) /\ p[1] = l
    /\ \A k \in 1 .. n - 1 : Leads(p[k], w[k], p[k + 1])
    /\ w[n].aggr \in Owned /\ w[n].idx = CountOf(p[n], w[n].aggr)
    /\ \A k \in n + 1 .. Len(w) : NewWord(w[k])

(* The command's action is one for items of descriptor d, *)
OpFits(d) ==
  /\ op.kind \in {"set", "setdef", "prt", "empty", "add", "del"}
  /\ op.kind = "set" => d \in Simple /\ op.val \in Value
  /\ op.kind \in {"add", "del"} => op.aggr \in ComponentsOf(d) \cap Owned /\ op.idx \in Nat

(* and possible for the item at m. *)
OpFitsAt(m) ==
  /\ op.kind = "add" => op.idx <= CountOf(m, op.aggr)
  /\ op.kind = "del" => op.idx < CountOf(m, op.aggr)

Evaluating ==
  /\ WordsFit(ctxt.desc, cmd) /\ at.desc = DescAt(ctxt.desc, cmd, Len(cmd))
  /\ IF Present(at) THEN PointsIn(heap, at) /\ Found(ctxt, cmd, at) ELSE Creates(ctxt, cmd)

Executing(r) ==
  /\ PointsIn(heap, at) /\ r[ctxt.blk] <= r[at.blk]
  /\ op.kind # "set" => InTree(heap, at.blk)
  /\ WordsFit(at.desc, cmd) /\ OpFits(DescAt(at.desc, cmd, Len(cmd)))
  /\ \/ \E m : Found(at, cmd, m) /\ OpFitsAt(m)
     \/ op.kind = "set" /\ Creates(at, cmd)
     \/ op.kind = "set" /\ OwnsNothing(heap, at) /\ \A k \in 1 .. Len(cmd) : NewWord(cmd[k])

(* The items w a load has still to go back to lead to the item at l. *)
LoadPath(h, r, w, l) ==
  /\ PointsIn(h, l)
  /\ \E S : w \in Seq(S)
  /\ \A k \in 1 .. Len(w) :
       /\ PointsIn(h, w[k]) /\ r[w[k].blk] <= r[l.blk]
       /\ \A j \in 1 .. k : r[w[j].blk] <= r[w[k].blk]

Inv(r) ==
  /\ WellFormed(heap, r) /\ at.desc \in Desc
  /\ phase \in {"prompt", "eval", "exec", "load", "starved", "full"}
  /\ phase # "load" => PointsIn(heap, ctxt) /\ InTree(heap, ctxt.blk)
  /\ phase = "prompt" => cmd = <<>> /\ at = ctxt
  /\ phase = "eval" => Evaluating
  /\ phase = "exec" => Executing(r)
  /\ phase = "load" => LoadPath(heap, r, cmd, at)

IInv == \E r : Inv(r)

LEMMA WholeItemPoints ==
  ASSUME NEW h, NEW b \in DOMAIN h, NEW i \in Nat, i + 1 \in DOMAIN h[b],
         NEW d \in Desc, h[b][i + 1].desc = d
  PROVE  PointsIn(h, Place(d, b, i, <<>>))
<1> DEFINE p == Place(d, b, i, <<>>)
<1>1. p.desc = d /\ p.blk = b /\ p.idx = i /\ p.path = <<>>
  BY DEF Place
<1>2. <<>> \in DOMAIN Layout[d] /\ Layout[d][<<>>] = d
  BY LayoutAssumption
<1> HIDE DEF p
<1>3. PointsIn(h, p)
  BY <1>1, <1>2 DEF PointsIn
<1> QED BY <1>3 DEF p

LEMMA InTreeBelow ==
  ASSUME NEW h, NEW r, WellFormed(h, r), NEW b, InTree(h, b),
         NEW i, NEW s, NEW c, Owns(h, b, i, s, c)
  PROVE  InTree(h, c)
<1>1. c \in Addr /\ c # Base
  BY DEF WellFormed, PointersFit, Typed, Block
<1>2. b = Base => i = 1
  BY DEF WellFormed, Typed, Owns
<1> QED BY <1>1, <1>2 DEF InTree

(* The item an index leads to. *)
LEMMA BelowPoints ==
  ASSUME NEW r, WellFormed(heap, r), NEW l, PointsIn(heap, l),
         NEW a \in ComponentsOf(l.desc), NEW i \in Nat
  PROVE  /\ CountOf(l, a) \in Nat /\ a \in Aggr
         /\ i < CountOf(l, a) =>
              /\ PointsIn(heap, Below(l, a, i)) /\ r[l.blk] <= r[Below(l, a, i).blk]
              /\ InTree(heap, l.blk) => InTree(heap, Below(l, a, i).blk)
              /\ a \notin Owned /\ OwnsNothing(heap, l) => OwnsNothing(heap, Below(l, a, i))
         /\ a \in Owned /\ OwnsNothing(heap, l) => CountOf(l, a) = 0
         /\ Below(l, a, i).desc = Component[a]
<1>1. /\ l.blk \in DOMAIN heap /\ l.blk # NULL /\ l.idx \in Nat /\ l.idx + 1 \in DOMAIN heap[l.blk]
      /\ r \in [DOMAIN heap -> Nat] /\ Present(l)
      /\ l.desc \in Desc /\ heap[l.blk][l.idx + 1].desc \in Desc
  <2>1. l.blk \in DOMAIN heap /\ heap[l.blk] \in Seq(Items) /\ l.idx + 1 \in DOMAIN heap[l.blk]
    BY DEF WellFormed, Typed, PointsIn
  <2>2. heap[l.blk][l.idx + 1] \in Items
    BY <2>1
  <2> QED BY <2>1, <2>2, ItemParts DEF WellFormed, Typed, PointsIn, Ranked, Present, Block
<1>2. a \in Aggr /\ Component[a] \in Desc /\ MaxCount[a] \in Nat
  BY <1>1 DEF ComponentsOf, Desc
<1>3. Below(l, a, i).desc = Component[a]
  BY DEF Below, Place, Nowhere
<1>4. CASE a \in Owned
  <2>1. /\ ItemAt(l) \in Items /\ <<l.path, a>> \in Slots(ItemAt(l).desc)
        /\ BlockOf(l, a) = ItemAt(l).own[<<l.path, a>>]
        /\ BlockOf(l, a) # NULL =>
             Owns(heap, l.blk, l.idx + 1, <<l.path, a>>, BlockOf(l, a))
        /\ ItemsOf(l, a) \in Seq(Items)
        /\ \A j \in DOMAIN ItemsOf(l, a) : ItemsOf(l, a)[j].desc = Component[a]
        /\ CountOf(l, a) = Len(ItemsOf(l, a)) /\ CountOf(l, a) \in Nat
    BY <1>4, OwnedBlock
  <2>2. ASSUME i < CountOf(l, a)
        PROVE  /\ PointsIn(heap, Below(l, a, i)) /\ r[l.blk] <= r[Below(l, a, i).blk]
               /\ InTree(heap, l.blk) => InTree(heap, Below(l, a, i).blk)
    <3>1. BlockOf(l, a) # NULL
      BY <2>1, <2>2 DEF ItemsOf
    <3>2. ItemsOf(l, a) = heap[BlockOf(l, a)] /\ i + 1 \in DOMAIN ItemsOf(l, a)
      BY <3>1, <2>1, <2>2 DEF ItemsOf
    <3>3. Below(l, a, i) = Place(Component[a], BlockOf(l, a), i, <<>>)
      BY <1>1, <1>4, <2>1, <2>2 DEF Below
    <3>4. r[l.blk] < r[BlockOf(l, a)] /\ BlockOf(l, a) \in DOMAIN heap
      BY <3>1, <2>1 DEF WellFormed, Ranked, PointersFit
    <3>5. r[l.blk] <= r[BlockOf(l, a)]
      BY <3>4, <1>1
    <3>6. PointsIn(heap, Place(Component[a], BlockOf(l, a), i, <<>>))
      BY <1>2, <2>1, <3>2, <3>4, WholeItemPoints
    <3>7. InTree(heap, l.blk) => InTree(heap, BlockOf(l, a))
      BY <3>1, <2>1, InTreeBelow
    <3> QED BY <3>3, <3>5, <3>6, <3>7 DEF Place
  <2>3. OwnsNothing(heap, l) => CountOf(l, a) = 0
    <3>1. ItemAt(l).own \in [Slots(ItemAt(l).desc) -> Ref]
      BY <2>1, ItemParts
    <3>2. OwnsNothing(heap, l) => BlockOf(l, a) = NULL
      BY <2>1, <3>1 DEF OwnsNothing, ItemAt
    <3> QED BY <3>2, <2>1 DEF ItemsOf
  <2> QED BY <1>2, <1>3, <1>4, <2>1, <2>2, <2>3
<1>5. CASE a \notin Owned
  <2>1. CountOf(l, a) = MaxCount[a]
    BY <1>5 DEF CountOf
  <2>2. ASSUME i < CountOf(l, a)
        PROVE  /\ PointsIn(heap, Below(l, a, i)) /\ r[l.blk] <= r[Below(l, a, i).blk]
               /\ InTree(heap, l.blk) => InTree(heap, Below(l, a, i).blk)
               /\ OwnsNothing(heap, l) => OwnsNothing(heap, Below(l, a, i))
    <3>1. Below(l, a, i) = Place(Component[a], l.blk, l.idx, Append(l.path, <<a, i>>))
      BY <1>1, <1>2, <1>5, <2>1, <2>2 DEF Below
    <3>2. i \in 0 .. MaxCount[a] - 1
      BY <2>1, <2>2, <1>2
    <3> DEFINE d == heap[l.blk][l.idx + 1].desc
    <3>3. d \in Desc /\ l.path \in DOMAIN Layout[d] /\ Layout[d][l.path] = l.desc
      BY <1>1 DEF PointsIn
    <3> HIDE DEF d
    <3>4. /\ Append(l.path, <<a, i>>) \in DOMAIN Layout[d]
          /\ Layout[d][Append(l.path, <<a, i>>)] = Component[a]
      BY <3>2, <3>3, <1>5, LayoutAssumption
    <3> DEFINE p == Below(l, a, i)
    <3>5. /\ p.desc = Component[a] /\ p.blk = l.blk /\ p.idx = l.idx
          /\ p.path = Append(l.path, <<a, i>>)
      BY <3>1 DEF Place
    <3> HIDE DEF p
    <3>6. PointsIn(heap, p)
      BY <1>1, <1>2, <3>4, <3>5 DEF PointsIn, d
    <3>7. r[l.blk] <= r[p.blk] /\ (InTree(heap, l.blk) => InTree(heap, p.blk))
          /\ (OwnsNothing(heap, l) => OwnsNothing(heap, p))
      BY <1>1, <3>5 DEF OwnsNothing
    <3> QED BY <3>6, <3>7 DEF p
  <2> QED BY <1>2, <1>3, <1>5, <2>1, <2>2
<1> QED BY <1>4, <1>5

(* Evaluation: a word more. *)

LEMMA Longer ==
  ASSUME NEW w \in Seq(WordSet), NEW x \in WordSet
  PROVE  /\ Append(w, x) \in Seq(WordSet) /\ Len(Append(w, x)) = Len(w) + 1
         /\ \A k \in 1 .. Len(w) : Append(w, x)[k] = w[k]
         /\ Append(w, x)[Len(w) + 1] = x /\ Len(w) \in Nat
OBVIOUS

LEMMA LongerFits ==
  ASSUME NEW d, NEW w, WordsFit(d, w), NEW x \in WordSet,
         x.aggr \in ComponentsOf(DescAt(d, w, Len(w)))
  PROVE  /\ WordsFit(d, Append(w, x))
         /\ DescAt(d, Append(w, x), Len(Append(w, x))) = Component[x.aggr]
<1> DEFINE v == Append(w, x)
<1>1. /\ w \in Seq(WordSet) /\ v \in Seq(WordSet) /\ Len(v) = Len(w) + 1
      /\ \A k \in 1 .. Len(w) : v[k] = w[k]
      /\ v[Len(w) + 1] = x /\ Len(w) \in Nat
  BY Longer DEF WordsFit
<1> HIDE DEF v
<1>2. \A k \in 0 .. Len(w) : DescAt(d, v, k) = DescAt(d, w, k)
  BY <1>1 DEF DescAt
<1>3. ASSUME NEW k \in 1 .. Len(v) PROVE v[k].aggr \in ComponentsOf(DescAt(d, v, k - 1))
  <2>1. CASE k \in 1 .. Len(w)
    <3>1. w[k].aggr \in ComponentsOf(DescAt(d, w, k - 1))
      BY <2>1 DEF WordsFit
    <3>2. k - 1 \in 0 .. Len(w)
      BY <2>1, <1>1
    <3> QED BY <2>1, <3>1, <3>2, <1>1, <1>2
  <2>2. CASE k = Len(w) + 1
    BY <2>2, <1>1, <1>2
  <2> QED BY <2>1, <2>2, <1>1
<1>4. DescAt(d, v, Len(v)) = Component[x.aggr]
  BY <1>1 DEF DescAt
<1> QED BY <1>1, <1>3, <1>4 DEF WordsFit, v

LEMMA FoundLonger ==
  ASSUME NEW l, NEW w \in Seq(WordSet), NEW m, Found(l, w, m), NEW x \in WordSet,
         NEW n, Leads(m, x, n)
  PROVE  Found(l, Append(w, x), n)
<1> DEFINE v == Append(w, x)
<1>1. /\ Len(v) = Len(w) + 1 /\ \A k \in 1 .. Len(w) : v[k] = w[k]
      /\ v[Len(w) + 1] = x /\ Len(w) \in Nat
  BY Longer
<1> HIDE DEF v
<1>2. PICK p : p[1] = l /\ p[Len(w) + 1] = m /\ \A k \in 1 .. Len(w) : Leads(p[k], w[k], p[k + 1])
  BY DEF Found
<1> DEFINE q == [k \in 1 .. Len(w) + 2 |-> IF k <= Len(w) + 1 THEN p[k] ELSE n]
<1>3. /\ q[Len(w) + 2] = n /\ \A k \in 1 .. Len(w) + 1 : q[k] = p[k]
  BY <1>1
<1> HIDE DEF q
<1>4. q[1] = l /\ q[Len(v) + 1] = n
  BY <1>1, <1>2, <1>3
<1>5. ASSUME NEW k \in 1 .. Len(v) PROVE Leads(q[k], v[k], q[k + 1])
  <2>1. CASE k \in 1 .. Len(w)
    <3>1. q[k] = p[k] /\ q[k + 1] = p[k + 1] /\ v[k] = w[k]
      BY <2>1, <1>1, <1>3
    <3> QED BY <3>1, <2>1, <1>2
  <2>2. CASE k = Len(w) + 1
    <3>1. q[k] = m /\ q[k + 1] = n /\ v[k] = x
      BY <2>2, <1>1, <1>2, <1>3
    <3> QED BY <3>1
  <2> QED BY <2>1, <2>2, <1>1
<1> QED BY <1>4, <1>5 DEF Found, v

LEMMA FoundCreates ==
  ASSUME NEW l, NEW w \in Seq(WordSet), NEW m, Found(l, w, m), NEW x \in WordSet,
         x.aggr \in Owned, x.idx = CountOf(m, x.aggr)
  PROVE  Creates(l, Append(w, x))
<1> DEFINE v == Append(w, x)
<1>1. /\ Len(v) = Len(w) + 1 /\ \A k \in 1 .. Len(w) : v[k] = w[k]
      /\ v[Len(w) + 1] = x /\ Len(w) \in Nat
  BY Longer
<1> HIDE DEF v
<1>2. PICK p : p[1] = l /\ p[Len(w) + 1] = m /\ \A k \in 1 .. Len(w) : Leads(p[k], w[k], p[k + 1])
  BY DEF Found
<1>3. \A k \in 1 .. (Len(w) + 1) - 1 : Leads(p[k], v[k], p[k + 1])
  BY <1>1, <1>2
<1>4. Len(w) + 1 \in 1 .. Len(v) /\ \A k \in (Len(w) + 1) + 1 .. Len(v) : NewWord(v[k])
  BY <1>1
<1>5. v[Len(w) + 1].aggr \in Owned
      /\ v[Len(w) + 1].idx = CountOf(p[Len(w) + 1], v[Len(w) + 1].aggr)
  BY <1>1, <1>2
<1>6. Creates(l, v)
  BY <1>2, <1>3, <1>4, <1>5 DEF Creates
<1> QED BY <1>6 DEF v

LEMMA CreatesLonger ==
  ASSUME NEW l, NEW w \in Seq(WordSet), Creates(l, w), NEW x \in WordSet, NewWord(x)
  PROVE  Creates(l, Append(w, x))
<1> DEFINE v == Append(w, x)
<1>1. /\ Len(v) = Len(w) + 1 /\ \A k \in 1 .. Len(w) : v[k] = w[k]
      /\ v[Len(w) + 1] = x /\ Len(w) \in Nat
  BY Longer
<1> HIDE DEF v
<1>2. PICK p, n :
        /\ n \in 1 .. Len(w) /\ p[1] = l
        /\ \A k \in 1 .. n - 1 : Leads(p[k], w[k], p[k + 1])
        /\ w[n].aggr \in Owned /\ w[n].idx = CountOf(p[n], w[n].aggr)
        /\ \A k \in n + 1 .. Len(w) : NewWord(w[k])
  BY DEF Creates
<1>3. ASSUME NEW k \in n + 1 .. Len(v) PROVE NewWord(v[k])
  <2>1. CASE k = Len(w) + 1
    BY <2>1, <1>1
  <2>2. CASE k # Len(w) + 1
    <3>1. n \in 1 .. Len(w) /\ Len(v) = Len(w) + 1 /\ Len(w) \in Nat
      BY <1>1, <1>2
    <3>2. k \in n + 1 .. Len(w) /\ k \in 1 .. Len(w)
      BY ONLY <2>2, <3>1, k \in n + 1 .. Len(v)
    <3> QED BY <3>2, <1>1, <1>2
  <2> QED BY <2>1, <2>2
<1>4. \A k \in 1 .. n - 1 : Leads(p[k], v[k], p[k + 1])
  BY <1>1, <1>2
<1>5. n \in 1 .. Len(v) /\ v[n] = w[n]
  BY <1>1, <1>2
<1> QED BY <1>2, <1>3, <1>4, <1>5 DEF Creates, v

(* Execution: a word less. *)

LEMMA Shorter ==
  ASSUME NEW w \in Seq(WordSet), w # <<>>
  PROVE  /\ Tail(w) \in Seq(WordSet) /\ Len(Tail(w)) = Len(w) - 1
         /\ \A k \in 1 .. Len(w) - 1 : Tail(w)[k] = w[k + 1]
         /\ Head(w) = w[1] /\ Head(w) \in WordSet /\ Len(w) \in Nat \ {0}
OBVIOUS

LEMMA ShorterFits ==
  ASSUME NEW d, NEW w, WordsFit(d, w), w # <<>>
  PROVE  /\ Head(w) \in WordSet /\ Head(w).aggr \in ComponentsOf(d)
         /\ WordsFit(Component[Head(w).aggr], Tail(w))
         /\ DescAt(Component[Head(w).aggr], Tail(w), Len(Tail(w))) = DescAt(d, w, Len(w))
<1> DEFINE v == Tail(w)
           e == Component[Head(w).aggr]
<1>1. /\ v \in Seq(WordSet) /\ Len(v) = Len(w) - 1
      /\ \A k \in 1 .. Len(w) - 1 : v[k] = w[k + 1]
      /\ Head(w) = w[1] /\ Head(w) \in WordSet /\ Len(w) \in Nat \ {0}
  BY Shorter DEF WordsFit
<1>2. \A k \in 1 .. Len(w) : w[k].aggr \in ComponentsOf(DescAt(d, w, k - 1))
  BY DEF WordsFit
<1>3. Head(w).aggr \in ComponentsOf(d)
  BY <1>1, <1>2 DEF DescAt
<1> HIDE DEF v
<1>4. \A k \in 0 .. Len(v) : DescAt(e, v, k) = DescAt(d, w, k + 1)
  BY <1>1 DEF DescAt
<1> HIDE DEF e
<1>5. ASSUME NEW k \in 1 .. Len(v) PROVE v[k].aggr \in ComponentsOf(DescAt(e, v, k - 1))
  <2>1. k + 1 \in 1 .. Len(w) /\ k - 1 \in 0 .. Len(v) /\ v[k] = w[k + 1]
    BY <1>1
  <2>2. DescAt(e, v, k - 1) = DescAt(d, w, k)
    BY <2>1, <1>4
  <2> QED BY <2>1, <2>2, <1>2
<1>6. DescAt(e, v, Len(v)) = DescAt(d, w, Len(w))
  BY <1>1, <1>4
<1> QED BY <1>1, <1>3, <1>5, <1>6 DEF WordsFit, v, e

LEMMA FoundShorter ==
  ASSUME NEW l, NEW w \in Seq(WordSet), NEW m, Found(l, w, m), w # <<>>
  PROVE  /\ Head(w).idx < CountOf(l, Head(w).aggr)
         /\ Found(Below(l, Head(w).aggr, Head(w).idx), Tail(w), m)
<1> DEFINE v == Tail(w)
<1>1. /\ Len(v) = Len(w) - 1 /\ \A k \in 1 .. Len(w) - 1 : v[k] = w[k + 1]
      /\ Head(w) = w[1] /\ Len(w) \in Nat \ {0}
  BY Shorter
<1> HIDE DEF v
<1>2. PICK p : p[1] = l /\ p[Len(w) + 1] = m /\ \A k \in 1 .. Len(w) : Leads(p[k], w[k], p[k + 1])
  BY DEF Found
<1> DEFINE q == [k \in 1 .. Len(w) |-> p[k + 1]]
<1>3. \A k \in 1 .. Len(w) : q[k] = p[k + 1]
  OBVIOUS
<1> HIDE DEF q
<1>4. q[1] = p[2] /\ q[Len(v) + 1] = m
  BY <1>1, <1>2, <1>3
<1>5. ASSUME NEW k \in 1 .. Len(v) PROVE Leads(q[k], v[k], q[k + 1])
  <2>1. k \in 1 .. Len(w) - 1 /\ k \in 1 .. Len(w) /\ k + 1 \in 1 .. Len(w)
    BY <1>1
  <2>2. q[k] = p[k + 1] /\ q[k + 1] = p[(k + 1) + 1]
    BY <2>1, <1>3
  <2>3. v[k] = w[k + 1]
    BY <2>1, <1>1
  <2> QED BY <2>1, <2>2, <2>3, <1>2
<1>6. Found(p[2], v, m)
  BY <1>4, <1>5 DEF Found
<1>7. Leads(l, Head(w), p[2])
  BY <1>1, <1>2
<1> QED BY <1>6, <1>7 DEF Leads, v

LEMMA CreatesShorter ==
  ASSUME NEW l, NEW w \in Seq(WordSet), Creates(l, w)
  PROVE  /\ w # <<>>
         /\ \/ /\ Head(w).idx < CountOf(l, Head(w).aggr)
               /\ Creates(Below(l, Head(w).aggr, Head(w).idx), Tail(w))
            \/ /\ Head(w).aggr \in Owned /\ Head(w).idx = CountOf(l, Head(w).aggr)
               /\ \A k \in 1 .. Len(Tail(w)) : NewWord(Tail(w)[k])
<1> DEFINE v == Tail(w)
<1>1. PICK p, n :
        /\ n \in 1 .. Len(w) /\ p[1] = l
        /\ \A k \in 1 .. n - 1 : Leads(p[k], w[k], p[k + 1])
        /\ w[n].aggr \in Owned /\ w[n].idx = CountOf(p[n], w[n].aggr)
        /\ \A k \in n + 1 .. Len(w) : NewWord(w[k])
  BY DEF Creates
<1>2. w # <<>>
  BY <1>1
<1>3. /\ Len(v) = Len(w) - 1 /\ \A k \in 1 .. Len(w) - 1 : v[k] = w[k + 1]
      /\ Head(w) = w[1] /\ Len(w) \in Nat \ {0}
  BY <1>2, Shorter
<1> HIDE DEF v
<1>4. CASE n = 1
  <2>1. Head(w).aggr \in Owned /\ Head(w).idx = CountOf(l, Head(w).aggr)
    BY <1>1, <1>3, <1>4
  <2>2. \A k \in 1 .. Len(v) : NewWord(v[k])
    BY <1>1, <1>3, <1>4
  <2> QED BY <1>2, <2>1, <2>2 DEF v
<1>5. CASE n # 1
  <2> DEFINE q == [k \in 1 .. Len(w) |-> p[k + 1]]
  <2>1. \A k \in 1 .. Len(w) : q[k] = p[k + 1]
    OBVIOUS
  <2> HIDE DEF q
  <2>2. n - 1 \in 1 .. Len(v) /\ q[1] = p[2] /\ q[n - 1] = p[n] /\ v[n - 1] = w[n]
    BY <2>1, <1>1, <1>3, <1>5
  <2>3. \A k \in 1 .. (n - 1) - 1 : Leads(q[k], v[k], q[k + 1])
    <3> SUFFICES ASSUME NEW k \in 1 .. (n - 1) - 1 PROVE Leads(q[k], v[k], q[k + 1])
      OBVIOUS
    <3>1. /\ q[k] = p[k + 1] /\ q[k + 1] = p[(k + 1) + 1] /\ v[k] = w[k + 1]
          /\ k + 1 \in 1 .. n - 1
      BY <2>1, <1>1, <1>3
    <3> QED BY <3>1, <1>1
  <2>4. \A k \in (n - 1) + 1 .. Len(v) : NewWord(v[k])
    BY <1>1, <1>3
  <2>5. Creates(p[2], v)
    BY <2>2, <2>3, <2>4, <1>1 DEF Creates
  <2>6. Leads(l, Head(w), p[2])
    BY <1>1, <1>3, <1>5
  <2> QED BY <1>2, <2>5, <2>6 DEF Leads, v
<1> QED BY <1>4, <1>5

-----------------------------------------------------------------------------
(* The parts of a step. *)

(* A step that does not change the context leaves its block in place. *)
Pinned ==
  ctxt' = ctxt /\ phase # "load" /\ phase' # "load"
    => ctxt.blk \in DOMAIN heap' /\ Len(heap'[ctxt.blk]) = Len(heap[ctxt.blk])

LEMMA SameHeap ==
  ASSUME heap' = heap
  PROVE  /\ \A l, a : CountOf(l, a)' = CountOf(l, a)
         /\ \A l, x, m : Leads(l, x, m)' <=> Leads(l, x, m)
         /\ \A l, w, m : Found(l, w, m)' <=> Found(l, w, m)
         /\ \A l, w : Creates(l, w)' <=> Creates(l, w)
<1>1. \A l, a : BlockOf(l, a)' = BlockOf(l, a) /\ ItemsOf(l, a)' = ItemsOf(l, a)
  BY DEF BlockOf, ItemsOf, ItemAt
<1>2. \A l, a : CountOf(l, a)' = CountOf(l, a)
  BY <1>1 DEF CountOf
<1>3. \A l, a, i : Below(l, a, i)' = Below(l, a, i)
  BY <1>1, <1>2 DEF Below
<1>4. \A l, x, m : Leads(l, x, m)' <=> Leads(l, x, m)
  BY <1>2, <1>3 DEF Leads
<1> QED BY <1>2, <1>4 DEF Found, Creates

LEMMA BasePoints ==
  ASSUME NEW h, Typed(h)
  PROVE  PointsIn(h, BasePlace) /\ InTree(h, BasePlace.blk) /\ BasePlace.desc \in Desc
<1>1. Base \in DOMAIN h /\ Len(h[Base]) = 1 /\ h[Base] \in Seq(Items) /\ h[Base][1].desc = Root
  BY DEF Typed
<1>2. Root \in Desc
  BY DEF Desc
<1>3. 0 + 1 \in DOMAIN h[Base] /\ h[Base][0 + 1].desc = Root
  BY <1>1
<1>4. PointsIn(h, BasePlace)
  BY <1>1, <1>2, <1>3, WholeItemPoints DEF BasePlace
<1> QED BY <1>2, <1>4 DEF BasePlace, Place, InTree

LEMMA ContextRanked ==
  ASSUME NEW r, Inv(r), phase # "load"
  PROVE  /\ WellFormed(heap, r) /\ Typed(heap) /\ r[ctxt.blk] \in Nat
         /\ PointsIn(heap, ctxt) /\ InTree(heap, ctxt.blk) /\ ctxt.blk \in DOMAIN heap
         /\ ctxt.desc \in Desc /\ ctxt.blk # NULL
BY DEF Inv, WellFormed, Ranked, PointsIn, Typed, Block

(* A command ends: what is below the context, or beside it, has changed.   *)
LEMMA CommandDone ==
  ASSUME NEW r, Inv(r), phase # "load", AtPrompt, ctxt' = ctxt,
         NEW q, WellFormed(heap', q), NEW n \in Nat, Keeps(heap, r, heap', q, n),
         r[ctxt.blk] <= n
  PROVE  Inv(q)' /\ Pinned
<1>1. /\ WellFormed(heap, r) /\ Typed(heap) /\ PointsIn(heap, ctxt) /\ InTree(heap, ctxt.blk)
      /\ ctxt.blk \in DOMAIN heap /\ ctxt.desc \in Desc
  BY ContextRanked
<1>2. Typed(heap')
  BY DEF WellFormed
<1>3. PointsIn(heap', ctxt) /\ Len(heap'[ctxt.blk]) = Len(heap[ctxt.blk])
  BY <1>1, <1>2, KeptPoints
<1>4. InTree(heap', ctxt.blk)
  BY <1>1, KeptInTree
<1>5. ctxt.blk \in DOMAIN heap'
  BY <1>3 DEF PointsIn
<1> QED BY <1>1, <1>3, <1>4, <1>5 DEF Inv, AtPrompt, Pinned

(* A step between commands, or one that only ends a command. *)
LEMMA BackAtPrompt ==
  ASSUME NEW r, WellFormed(heap', r), AtPrompt,
         PointsIn(heap', ctxt'), InTree(heap', ctxt'.blk)
  PROVE  Inv(r)'
<1>1. ctxt'.desc \in Desc
  BY DEF PointsIn
<1> QED BY <1>1 DEF Inv, AtPrompt

-----------------------------------------------------------------------------
(* Evaluation. *)

LEMMA Narrowed == \A n \in Nat, w \in Nat \ {0} : n % w \in Nat
OBVIOUS

LEMMA StartCmdStep ==
  ASSUME NEW r, Inv(r), StartCmd
  PROVE  Inv(r)' /\ Pinned
<1>1. /\ WellFormed(heap, r) /\ r[ctxt.blk] \in Nat
      /\ PointsIn(heap, ctxt) /\ InTree(heap, ctxt.blk) /\ ctxt.blk \in DOMAIN heap
      /\ ctxt.desc \in Desc /\ ctxt.blk # NULL
  BY ContextRanked DEF StartCmd
<1>2. at = ctxt /\ cmd = <<>>
  BY DEF Inv, StartCmd
<1>3. UNCHANGED <<heap, ctxt, cmd, at>> /\ phase' = "eval"
  BY DEF StartCmd
<1>4. WordsFit(ctxt.desc, <<>>) /\ DescAt(ctxt.desc, <<>>, Len(<<>>)) = ctxt.desc
  BY DEF WordsFit, DescAt
<1>5. Found(ctxt, <<>>, ctxt)
  <2>1. LET p == [k \in 1 .. 1 |-> ctxt]
        IN  p[1] = ctxt /\ p[Len(<<>>) + 1] = ctxt
            /\ \A k \in 1 .. Len(<<>>) : Leads(p[k], <<>>[k], p[k + 1])
    OBVIOUS
  <2> QED BY <2>1 DEF Found
<1>6. Evaluating
  BY <1>1, <1>2, <1>4, <1>5 DEF Evaluating, Present
<1>7. Evaluating'
  BY <1>3, <1>6, SameHeap DEF Evaluating, Present
<1> QED BY <1>1, <1>2, <1>3, <1>7 DEF Inv, Pinned

LEMMA EvalWordStep ==
  ASSUME NEW r, Inv(r), NEW a, NEW n \in Number, EvalContained(a, n) \/ EvalOwned(a, n)
  PROVE  Inv(r)' /\ Pinned
<1> DEFINE i == IndexOf(a, n)
           x == [aggr |-> a, idx |-> i]
<1>1. /\ phase = "eval" /\ a \in ComponentsOf(at.desc) /\ EvalWord(a, i)
      /\ IF a \in Owned THEN i <= CountOf(at, a) ELSE i < MaxCount[a]
  BY DEF EvalContained, EvalOwned, Names
<1>2. /\ WellFormed(heap, r) /\ PointsIn(heap, ctxt) /\ InTree(heap, ctxt.blk)
      /\ ctxt.blk \in DOMAIN heap
  BY <1>1, ContextRanked
<1>3. /\ Evaluating /\ at.desc \in Desc
  BY <1>1 DEF Inv
<1>4. a \in Aggr /\ Component[a] \in Desc /\ MaxCount[a] \in Nat
  BY <1>1, <1>3 DEF ComponentsOf, Desc
<1>5. i \in Nat
  BY Narrowed DEF IndexOf, popUnsignedInt
<1> HIDE DEF i
<1>6. x \in WordSet /\ x.aggr = a /\ x.idx = i
  BY <1>4, <1>5 DEF WordSet
<1>7. at' = Below(at, a, i) /\ cmd' = Append(cmd, x) /\ UNCHANGED <<heap, ctxt, phase, op>>
  BY <1>1 DEF EvalWord
<1> HIDE DEF x
<1>8. /\ WordsFit(ctxt.desc, cmd') /\ cmd \in Seq(WordSet)
      /\ DescAt(ctxt.desc, cmd', Len(cmd')) = Component[a]
  BY <1>1, <1>3, <1>6, <1>7, LongerFits DEF Evaluating, WordsFit
<1>9. at'.desc = Component[a]
  BY <1>7 DEF Below, Place, Nowhere
<1>10. CASE Present(at)
  <2>1. PointsIn(heap, at) /\ Found(ctxt, cmd, at)
    BY <1>3, <1>10 DEF Evaluating
  <2>2. /\ CountOf(at, a) \in Nat
        /\ i < CountOf(at, a) => PointsIn(heap, Below(at, a, i))
    BY <2>1, <1>1, <1>2, <1>5, BelowPoints
  <2>3. CASE i < CountOf(at, a)
    <3>1. Leads(at, x, at')
      BY <2>3, <1>6, <1>7 DEF Leads
    <3>2. Found(ctxt, cmd', at')
      BY <3>1, <2>1, <1>6, <1>7, <1>8, FoundLonger
    <3>3. PointsIn(heap, at') /\ at'.blk # NULL
      BY <2>2, <2>3, <1>2, <1>7 DEF PointsIn, WellFormed, Typed, Block
    <3> QED BY <3>2, <3>3, <1>2, <1>4, <1>7, <1>8, <1>9, <1>1, SameHeap
            DEF Inv, Pinned, Evaluating, Present
  <2>4. CASE ~(i < CountOf(at, a))
    <3>1. a \in Owned /\ i = CountOf(at, a)
      BY <2>2, <2>4, <1>1, <1>5 DEF CountOf
    <3>2. at'.blk = NULL
      BY <2>4, <3>1, <2>2, <1>7 DEF Below, Nowhere, Place
    <3>3. Creates(ctxt, cmd')
      BY <3>1, <2>1, <1>6, <1>7, <1>8, FoundCreates
    <3> QED BY <3>2, <3>3, <1>2, <1>4, <1>7, <1>8, <1>9, <1>1, SameHeap
            DEF Inv, Pinned, Evaluating, Present
  <2> QED BY <2>3, <2>4
<1>11. CASE ~Present(at)
  <2>1. Creates(ctxt, cmd)
    BY <1>3, <1>11 DEF Evaluating
  <2>2. a \in Owned => CountOf(at, a) = 0
    BY <1>11 DEF CountOf, ItemsOf, BlockOf
  <2>3. NewWord(x)
    BY <2>2, <1>1, <1>5, <1>6 DEF NewWord
  <2>4. Creates(ctxt, cmd')
    BY <2>1, <2>3, <1>6, <1>7, <1>8, CreatesLonger
  <2>5. at'.blk = NULL
    BY <1>11, <1>7 DEF Below, Nowhere, Place
  <2> QED BY <2>4, <2>5, <1>2, <1>4, <1>7, <1>8, <1>9, <1>1, SameHeap
          DEF Inv, Pinned, Evaluating, Present
<1> QED BY <1>10, <1>11

(* A command is accepted: it is possible for the item that was found. *)
LEMMA AcceptStep ==
  ASSUME NEW r, Inv(r), NEW o, Accept(o), NEW m, m = at, OpFits(m.desc)',
         o.kind = "set" \/ (Present(at) /\ OpFitsAt(m)')
  PROVE  Inv(r)' /\ Pinned
<1>1. /\ phase = "eval" /\ phase' = "exec" /\ op' = o /\ at' = ctxt /\ UNCHANGED <<heap, ctxt, cmd>>
  BY DEF Accept
<1>2. /\ WellFormed(heap, r) /\ PointsIn(heap, ctxt) /\ InTree(heap, ctxt.blk)
      /\ ctxt.blk \in DOMAIN heap /\ ctxt.desc \in Desc /\ r[ctxt.blk] \in Nat
  BY <1>1, ContextRanked
<1>3. Evaluating
  BY <1>1 DEF Inv
<1>4. WordsFit(ctxt.desc, cmd) /\ OpFits(DescAt(ctxt.desc, cmd, Len(cmd)))'
  BY <1>1, <1>3 DEF Evaluating, OpFits
<1>5. r[ctxt.blk] <= r[ctxt.blk]
  BY <1>2
<1>6. \/ \E p : Found(ctxt, cmd, p) /\ OpFitsAt(p)'
      \/ op'.kind = "set" /\ Creates(ctxt, cmd)
  BY <1>1, <1>3 DEF Evaluating, OpFitsAt
<1>7. Executing(r)'
  BY <1>1, <1>2, <1>4, <1>5, <1>6, SameHeap DEF Executing
<1> QED BY <1>1, <1>2, <1>7 DEF Inv, Pinned

LEMMA EvalActionStep ==
  ASSUME NEW r, Inv(r),
         \/ \E v \in Value : EvalSet(v)
         \/ EvalSetDef \/ EvalPrt \/ EvalEmpty
         \/ \E a \in Aggr, n \in Number : EvalAdd(a, n) \/ EvalDel(a, n)
  PROVE  Inv(r)' /\ Pinned
<1> SUFFICES ASSUME NEW m, m = at PROVE Inv(r)' /\ Pinned
  OBVIOUS
<1>2. CASE \E v \in Value : EvalSet(v)
  <2>1. PICK v \in Value : EvalSet(v)
    BY <1>2
  <2>2. Accept([kind |-> "set", val |-> v]) /\ m.desc \in Simple /\ op' = [kind |-> "set", val |-> v]
    BY <2>1 DEF EvalSet, Accept
  <2>3. OpFits(m.desc)'
    BY <2>2 DEF OpFits
  <2> QED BY <2>2, <2>3, AcceptStep
<1>3. CASE EvalSetDef
  <2>1. Accept([kind |-> "setdef"]) /\ Present(at) /\ op' = [kind |-> "setdef"]
    BY <1>3 DEF EvalSetDef, Accept
  <2>2. OpFits(m.desc)' /\ OpFitsAt(m)'
    BY <2>1 DEF OpFits, OpFitsAt
  <2> QED BY <2>1, <2>2, AcceptStep
<1>4. CASE EvalPrt
  <2>1. Accept([kind |-> "prt"]) /\ Present(at) /\ op' = [kind |-> "prt"]
    BY <1>4 DEF EvalPrt, Accept
  <2>2. OpFits(m.desc)' /\ OpFitsAt(m)'
    BY <2>1 DEF OpFits, OpFitsAt
  <2> QED BY <2>1, <2>2, AcceptStep
<1>5. CASE EvalEmpty
  <2>1. Accept([kind |-> "empty"]) /\ Present(at) /\ op' = [kind |-> "empty"]
    BY <1>5 DEF EvalEmpty, Accept
  <2>2. OpFits(m.desc)' /\ OpFitsAt(m)'
    BY <2>1 DEF OpFits, OpFitsAt
  <2> QED BY <2>1, <2>2, AcceptStep
<1>6. ASSUME NEW a \in Aggr, NEW n \in Number, EvalAdd(a, n)
      PROVE  Inv(r)' /\ Pinned
  <2> DEFINE i == popUnsignedInt(n)
             o == [kind |-> "add", aggr |-> a, idx |-> i]
  <2>1. /\ Accept(o) /\ Present(at) /\ a \in ComponentsOf(at.desc) /\ a \in Owned
        /\ i <= CountOf(at, a)
    BY <1>6 DEF EvalAdd, Names, CanAdd
  <2>2. i \in Nat
    BY Narrowed DEF popUnsignedInt
  <2> HIDE DEF i
  <2>3. op' = o /\ heap' = heap /\ o.kind = "add" /\ o.aggr = a /\ o.idx = i
    BY <2>1 DEF Accept
  <2> HIDE DEF o
  <2>4. OpFits(m.desc)'
    BY <2>1, <2>2, <2>3 DEF OpFits
  <2>5. OpFitsAt(m)'
    BY <2>1, <2>3, SameHeap DEF OpFitsAt
  <2> QED BY <2>1, <2>4, <2>5, AcceptStep
<1>7. ASSUME NEW a \in Aggr, NEW n \in Number, EvalDel(a, n)
      PROVE  Inv(r)' /\ Pinned
  <2> DEFINE i == IndexOf(a, n)
             o == [kind |-> "del", aggr |-> a, idx |-> i]
  <2>1. /\ Accept(o) /\ Present(at) /\ a \in ComponentsOf(at.desc) /\ a \in Owned
        /\ i < CountOf(at, a)
    BY <1>7 DEF EvalDel, Names
  <2>2. i \in Nat
    BY Narrowed DEF popUnsignedInt, IndexOf
  <2> HIDE DEF i
  <2>3. op' = o /\ heap' = heap /\ o.kind = "del" /\ o.aggr = a /\ o.idx = i
    BY <2>1 DEF Accept
  <2> HIDE DEF o
  <2>4. OpFits(m.desc)'
    BY <2>1, <2>2, <2>3 DEF OpFits
  <2>5. OpFitsAt(m)'
    BY <2>1, <2>3, SameHeap DEF OpFitsAt
  <2> QED BY <2>1, <2>4, <2>5, AcceptStep
<1> QED BY <1>2, <1>3, <1>4, <1>5, <1>6, <1>7

LEMMA EvalRejectStep ==
  ASSUME NEW r, Inv(r), EvalReject
  PROVE  Inv(r)' /\ Pinned
<1>1. /\ phase = "eval" /\ UNCHANGED <<heap, ctxt>> /\ AtPrompt
  BY DEF EvalReject
<1>2. /\ WellFormed(heap, r) /\ PointsIn(heap, ctxt) /\ InTree(heap, ctxt.blk)
      /\ ctxt.blk \in DOMAIN heap
  BY <1>1, ContextRanked
<1>3. Inv(r)'
  BY <1>1, <1>2, BackAtPrompt
<1> QED BY <1>1, <1>2, <1>3 DEF Pinned
-----------------------------------------------------------------------------
(* Execution: the next word. *)

(* What evaluation found is there, and what it did not is next. *)
LEMMA WordLeads ==
  ASSUME NEW r, Inv(r), phase = "exec", cmd # <<>>,
         NEW a, NEW i, a = Head(cmd).aggr, i = Head(cmd).idx
  PROVE  /\ a \in ComponentsOf(at.desc) /\ i \in Nat /\ CountOf(at, a) \in Nat
         /\ i <= CountOf(at, a)
         /\ i = CountOf(at, a) =>
              /\ op.kind = "set" /\ \A k \in 1 .. Len(Tail(cmd)) : NewWord(Tail(cmd)[k])
         /\ i < CountOf(at, a) =>
              \/ \E m : Found(Below(at, a, i), Tail(cmd), m) /\ OpFitsAt(m)
              \/ op.kind = "set" /\ Creates(Below(at, a, i), Tail(cmd))
              \/ /\ op.kind = "set" /\ OwnsNothing(heap, Below(at, a, i))
                 /\ \A k \in 1 .. Len(Tail(cmd)) : NewWord(Tail(cmd)[k])
<1>1. /\ WellFormed(heap, r) /\ Executing(r) /\ PointsIn(heap, at)
      /\ WordsFit(at.desc, cmd) /\ cmd \in Seq(WordSet)
  BY DEF Inv, Executing, WordsFit
<1>2. a \in ComponentsOf(at.desc) /\ Head(cmd) \in WordSet
  BY <1>1, ShorterFits
<1>3. i \in Nat
  BY <1>2 DEF WordSet
<1>4. /\ CountOf(at, a) \in Nat
      /\ a \in Owned /\ OwnsNothing(heap, at) => CountOf(at, a) = 0
      /\ i < CountOf(at, a) /\ a \notin Owned /\ OwnsNothing(heap, at)
           => OwnsNothing(heap, Below(at, a, i))
  BY <1>1, <1>2, <1>3, BelowPoints
<1>5. CASE \E m : Found(at, cmd, m) /\ OpFitsAt(m)
  <2>1. PICK m : Found(at, cmd, m) /\ OpFitsAt(m)
    BY <1>5
  <2>2. i < CountOf(at, a) /\ Found(Below(at, a, i), Tail(cmd), m)
    BY <2>1, <1>1, FoundShorter
  <2> QED BY <2>1, <2>2, <1>2, <1>3, <1>4
<1>6. CASE op.kind = "set" /\ Creates(at, cmd)
  <2>1. \/ i < CountOf(at, a) /\ Creates(Below(at, a, i), Tail(cmd))
        \/ i = CountOf(at, a) /\ \A k \in 1 .. Len(Tail(cmd)) : NewWord(Tail(cmd)[k])
    BY <1>6, <1>1, CreatesShorter
  <2> QED BY <2>1, <1>6, <1>2, <1>3, <1>4
<1>7. CASE op.kind = "set" /\ OwnsNothing(heap, at) /\ \A k \in 1 .. Len(cmd) : NewWord(cmd[k])
  <2>1. NewWord(Head(cmd)) /\ \A k \in 1 .. Len(Tail(cmd)) : NewWord(Tail(cmd)[k])
    <3>1. /\ Len(Tail(cmd)) = Len(cmd) - 1 /\ Head(cmd) = cmd[1] /\ Len(cmd) \in Nat \ {0}
          /\ \A k \in 1 .. Len(cmd) - 1 : Tail(cmd)[k] = cmd[k + 1]
      BY <1>1, Shorter
    <3>2. 1 \in 1 .. Len(cmd) /\ \A k \in 1 .. Len(cmd) - 1 : k + 1 \in 1 .. Len(cmd)
      BY <3>1
    <3> QED BY <3>1, <3>2, <1>7
  <2>2. CASE a \in Owned
    BY <2>1, <2>2, <1>2, <1>3, <1>4, <1>7 DEF NewWord
  <2>3. CASE a \notin Owned
    <3>1. i < MaxCount[a] /\ CountOf(at, a) = MaxCount[a]
      BY <2>1, <2>3 DEF NewWord, CountOf
    <3> QED BY <3>1, <2>1, <2>3, <1>2, <1>3, <1>4, <1>7
  <2> QED BY <2>2, <2>3
<1> QED BY <1>1, <1>5, <1>6, <1>7 DEF Executing

LEMMA ExecIdWordStep ==
  ASSUME NEW r, Inv(r), ExecIdWord
  PROVE  /\ \E q : Inv(q)'
         /\ Pinned /\ (op.kind # "set" => heap' = heap)
<1> SUFFICES ASSUME NEW a, NEW i, a = Head(cmd).aggr, i = Head(cmd).idx
             PROVE  (\E q : Inv(q)') /\ Pinned /\ (op.kind # "set" => heap' = heap)
  OBVIOUS
<1>1. /\ phase = "exec" /\ cmd # <<>>
      /\ WellFormed(heap, r) /\ Typed(heap) /\ r[ctxt.blk] \in Nat
      /\ PointsIn(heap, ctxt) /\ InTree(heap, ctxt.blk) /\ ctxt.blk \in DOMAIN heap
  BY ContextRanked DEF ExecIdWord
<1>2. /\ PointsIn(heap, at) /\ r[ctxt.blk] <= r[at.blk] /\ WordsFit(at.desc, cmd)
      /\ op.kind # "set" => InTree(heap, at.blk)
      /\ OpFits(DescAt(at.desc, cmd, Len(cmd))) /\ at.desc \in Desc
  BY <1>1 DEF Inv, Executing
<1>3. /\ WordsFit(Component[a], Tail(cmd)) /\ a \in ComponentsOf(at.desc)
      /\ OpFits(DescAt(Component[a], Tail(cmd), Len(Tail(cmd))))
  BY <1>1, <1>2, ShorterFits
<1>4. /\ i \in Nat /\ CountOf(at, a) \in Nat
      /\ i <= CountOf(at, a)
      /\ i = CountOf(at, a) =>
           /\ op.kind = "set" /\ \A k \in 1 .. Len(Tail(cmd)) : NewWord(Tail(cmd)[k])
      /\ i < CountOf(at, a) =>
           \/ \E m : Found(Below(at, a, i), Tail(cmd), m) /\ OpFitsAt(m)
           \/ op.kind = "set" /\ Creates(Below(at, a, i), Tail(cmd))
           \/ /\ op.kind = "set" /\ OwnsNothing(heap, Below(at, a, i))
              /\ \A k \in 1 .. Len(Tail(cmd)) : NewWord(Tail(cmd)[k])
  BY <1>1, WordLeads
<1>5. r[at.blk] \in Nat /\ Component[a] \in Desc
  BY <1>1, <1>2, <1>3 DEF WellFormed, Ranked, PointsIn, ComponentsOf, Desc
<1>6. CASE /\ i < CountOf(at, a)
           /\ at' = Below(at, a, i) /\ cmd' = Tail(cmd)
           /\ UNCHANGED <<heap, ctxt, phase, op>>
  <2> SUFFICES ASSUME NEW p, NEW w, p = Below(at, a, i), w = Tail(cmd)
               PROVE  Inv(r)' /\ Pinned
    BY <1>6
  <2>1. /\ PointsIn(heap, p) /\ r[at.blk] <= r[p.blk]
        /\ InTree(heap, at.blk) => InTree(heap, p.blk)
        /\ p.desc = Component[a]
    BY <1>1, <1>2, <1>3, <1>4, <1>6, BelowPoints
  <2>2. at' = p /\ cmd' = w
    BY <1>6
  <2>3. p.blk \in DOMAIN heap /\ r[p.blk] \in Nat
    BY <2>1, <1>1 DEF PointsIn, WellFormed, Ranked
  <2>4. r[ctxt.blk] <= r[p.blk]
    BY <2>1, <2>3, <1>1, <1>2, <1>5
  <2>5. \/ \E m : Found(p, w, m) /\ OpFitsAt(m)
        \/ op.kind = "set" /\ Creates(p, w)
        \/ /\ op.kind = "set" /\ OwnsNothing(heap, p)
           /\ \A k \in 1 .. Len(w) : NewWord(w[k])
    BY <1>4, <1>6
  <2>6. \/ \E m : Found(p, w, m)' /\ OpFitsAt(m)'
        \/ op'.kind = "set" /\ Creates(p, w)'
        \/ /\ op'.kind = "set" /\ OwnsNothing(heap', p)
           /\ \A k \in 1 .. Len(w) : NewWord(w[k])
    <3>1. \A m : OpFitsAt(m)' <=> OpFitsAt(m)
      BY <1>6, SameHeap DEF OpFitsAt
    <3>2. /\ \A m : Found(p, w, m)' <=> Found(p, w, m)
          /\ Creates(p, w)' <=> Creates(p, w)
      BY <1>6, SameHeap
    <3> QED BY <2>5, <3>1, <3>2, <1>6
  <2>7. /\ PointsIn(heap', p) /\ r[ctxt'.blk] <= r[p.blk]
        /\ op'.kind # "set" => InTree(heap', p.blk)
        /\ WordsFit(p.desc, w) /\ OpFits(DescAt(p.desc, w, Len(w)))'
    <3>1. OpFits(DescAt(p.desc, w, Len(w)))
      BY <1>3, <2>1
    <3>2. OpFits(DescAt(p.desc, w, Len(w)))'
      BY <3>1, <1>6 DEF OpFits
    <3> QED BY <3>2, <2>1, <2>4, <1>2, <1>3, <1>6
  <2>8. Executing(r)'
    BY <2>2, <2>6, <2>7 DEF Executing
  <2> QED BY <2>2, <2>8, <2>1, <1>1, <1>5, <1>6 DEF Inv, Pinned
<1>7. ASSUME i = CountOf(at, a), CanAdd(at, a), NEW b \in Targets(at, a),
             heap' = Added(at, a, i, b), at' = Place(Component[a], b, i, <<>>),
             cmd' = Tail(cmd), UNCHANGED <<ctxt, phase, op>>
      PROVE  (\E q : Inv(q)') /\ Pinned
  <2>1. PICK q :
           /\ WellFormed(heap', q) /\ Keeps(heap, r, heap', q, r[at.blk])
           /\ r[at.blk] < q[b] /\ PointsIn(heap', at') /\ OwnsNothing(heap', at')
    BY <1>1, <1>2, <1>3, <1>4, <1>7, Adding DEF CanAdd
  <2>2. Typed(heap') /\ q \in [DOMAIN heap' -> Nat]
    BY <2>1 DEF WellFormed, Ranked
  <2>3. /\ PointsIn(heap', ctxt) /\ q[ctxt.blk] = r[ctxt.blk]
        /\ Len(heap'[ctxt.blk]) = Len(heap[ctxt.blk])
    BY <1>1, <1>2, <2>1, <2>2, KeptPoints
  <2>4. InTree(heap', ctxt.blk)
    BY <1>1, <1>2, <1>5, <2>1, KeptInTree
  <2>5. at'.blk = b /\ at'.desc = Component[a]
    BY <1>7 DEF Place
  <2>6. b \in DOMAIN heap' /\ q[b] \in Nat
    BY <2>1, <2>2, <2>5 DEF PointsIn
  <2>7. q[ctxt.blk] <= q[at'.blk]
    BY <2>1, <2>3, <2>5, <2>6, <1>1, <1>2, <1>5
  <2>8. op.kind = "set" /\ \A k \in 1 .. Len(cmd') : NewWord(cmd'[k])
    BY <1>4, <1>7
  <2>9. Executing(q)'
    BY <2>1, <2>5, <2>7, <2>8, <1>3, <1>7 DEF Executing, OpFits
  <2>10. Inv(q)'
    BY <2>1, <2>3, <2>4, <2>5, <2>9, <1>1, <1>5, <1>7 DEF Inv
  <2>11. ctxt.blk \in DOMAIN heap'
    BY <2>3 DEF PointsIn
  <2> QED BY <2>3, <2>10, <2>11 DEF Pinned
<1>8. ASSUME NEW why \in {"starved", "full"}, Stop(why)
      PROVE  Inv(r)' /\ Pinned
  BY <1>1, <1>2, <1>8 DEF Stop, Inv, Pinned
<1>9. ~(i > CountOf(at, a))
  BY <1>4
<1>10. \/ /\ i < CountOf(at, a)
          /\ at' = Below(at, a, i) /\ cmd' = Tail(cmd)
          /\ UNCHANGED <<heap, ctxt, phase, op>>
       \/ /\ i = CountOf(at, a) /\ CanAdd(at, a)
          /\ \E b \in Targets(at, a) :
               /\ heap' = Added(at, a, i, b)
               /\ at' = Place(Component[a], b, i, <<>>)
          /\ cmd' = Tail(cmd)
          /\ UNCHANGED <<ctxt, phase, op>>
       \/ Stop("starved") \/ Stop("full")
  BY <1>9 DEF ExecIdWord
<1>11. op.kind # "set" => heap' = heap
  BY <1>4, <1>10 DEF Stop
<1> QED BY <1>6, <1>7, <1>8, <1>10, <1>11
-----------------------------------------------------------------------------
(* Execution: the action. *)

(* The item that the words lead to is the one the action was checked for. *)
LEMMA AtOp ==
  ASSUME NEW r, Inv(r), phase = "exec", cmd = <<>>
  PROVE  /\ WellFormed(heap, r) /\ PointsIn(heap, at) /\ OpFits(at.desc)
         /\ op.kind # "set" => InTree(heap, at.blk) /\ OpFitsAt(at)
         /\ r[at.blk] \in Nat /\ r[ctxt.blk] <= r[at.blk]
<1>1. Executing(r) /\ WellFormed(heap, r)
  BY DEF Inv
<1>2. PointsIn(heap, at) /\ r[ctxt.blk] <= r[at.blk] /\ r[at.blk] \in Nat
      /\ (op.kind # "set" => InTree(heap, at.blk))
  BY <1>1 DEF Executing, WellFormed, Ranked, PointsIn
<1>3. Len(cmd) = 0
  OBVIOUS
<1>4. OpFits(at.desc)
  BY <1>1, <1>3 DEF Executing, DescAt
<1>5. \A m : Found(at, cmd, m) => m = at
  BY <1>3 DEF Found
<1>6. op.kind # "set" => OpFitsAt(at)
  BY <1>1, <1>5 DEF Executing
<1> QED BY <1>1, <1>2, <1>4, <1>6

LEMMA ExecActionStep ==
  ASSUME NEW r, Inv(r), ExecSet \/ ExecSetDef \/ ExecPrt \/ ExecEmpty \/ ExecAdd \/ ExecDel
  PROVE  (\E q : Inv(q)') /\ Pinned
<1>1. phase = "exec" /\ cmd = <<>> /\ AtPrompt
  BY DEF ExecSet, ExecSetDef, ExecPrt, ExecEmpty, ExecAdd, ExecDel, ExecOp
<1>2. /\ WellFormed(heap, r) /\ PointsIn(heap, at) /\ OpFits(at.desc)
      /\ op.kind # "set" => InTree(heap, at.blk) /\ OpFitsAt(at)
      /\ r[at.blk] \in Nat /\ r[ctxt.blk] <= r[at.blk]
  BY <1>1, AtOp
<1>3. ASSUME ctxt' = ctxt,
             NEW q, WellFormed(heap', q), Keeps(heap, r, heap', q, r[at.blk])
      PROVE  (\E k : Inv(k)') /\ Pinned
  <2>1. SUFFICES ASSUME NEW n, n = r[at.blk] PROVE Inv(q)' /\ Pinned
    OBVIOUS
  <2>2. n \in Nat /\ Keeps(heap, r, heap', q, n) /\ r[ctxt.blk] <= n /\ phase # "load"
    BY <2>1, <1>1, <1>2, <1>3
  <2> QED BY <2>2, <1>1, <1>3, CommandDone
<1>4. ASSUME UNCHANGED heap, PointsIn(heap, ctxt'), InTree(heap, ctxt'.blk)
      PROVE  (\E k : Inv(k)') /\ Pinned
  <2>1. Inv(r)'
    BY <1>1, <1>2, <1>4, BackAtPrompt
  <2>2. ctxt' = ctxt => ctxt.blk \in DOMAIN heap'
    BY <1>4 DEF PointsIn
  <2> QED BY <2>1, <2>2, <1>4 DEF Pinned
<1>5. PointsIn(heap, ctxt) /\ InTree(heap, ctxt.blk)
  BY <1>1, ContextRanked
<1>6. CASE ExecSet
  <2>1. heap' = Written(heap, at, op.val) /\ ctxt' = ctxt /\ at.desc \in Simple /\ op.val \in Value
    BY <1>2, <1>6 DEF ExecSet, ExecOp, OpFits
  <2>2. \E q : WellFormed(heap', q) /\ Keeps(heap, r, heap', q, r[at.blk])
    BY <2>1, <1>2, Writing
  <2> QED BY <2>1, <2>2, <1>3
<1>7. CASE ExecSetDef
  <2>1. heap' = Defaulted(at) /\ ctxt' = ctxt
    BY <1>7 DEF ExecSetDef
  <2>2. \E q : WellFormed(heap', q) /\ Keeps(heap, r, heap', q, r[at.blk])
    BY <2>1, <1>2, Defaulting
  <2> QED BY <2>1, <2>2, <1>3
<1>8. CASE ExecPrt
  BY <1>4, <1>5, <1>8 DEF ExecPrt
<1>9. CASE ExecEmpty
  BY <1>2, <1>4, <1>9 DEF ExecEmpty, ExecOp
<1>10. CASE ExecAdd
  <2>1. /\ op.aggr \in ComponentsOf(at.desc) \cap Owned /\ op.idx \in Nat
        /\ op.idx <= CountOf(at, op.aggr) /\ ctxt' = ctxt
    BY <1>2, <1>10 DEF ExecAdd, ExecOp, OpFits, OpFitsAt
  <2>2. CountOf(at, op.aggr) \in Nat
    BY <2>1, <1>2, OwnedBlock
  <2>3. CASE UNCHANGED heap
    BY <2>1, <2>3, <1>4, <1>5
  <2>4. ASSUME NEW b \in Targets(at, op.aggr), heap' = Added(at, op.aggr, op.idx, b)
        PROVE  \E q : WellFormed(heap', q) /\ Keeps(heap, r, heap', q, r[at.blk])
    <3>1. op.idx \in 0 .. CountOf(at, op.aggr)
      BY <2>1, <2>2
    <3> QED BY <3>1, <2>1, <2>4, <1>2, Adding
  <2> QED BY <2>1, <2>3, <2>4, <1>3, <1>10 DEF ExecAdd
<1>11. CASE ExecDel
  <2>1. /\ op.aggr \in ComponentsOf(at.desc) \cap Owned /\ op.idx \in Nat
        /\ op.idx < CountOf(at, op.aggr) /\ ctxt' = ctxt
    BY <1>2, <1>11 DEF ExecDel, ExecOp, OpFits, OpFitsAt
  <2>2. CountOf(at, op.aggr) \in Nat
    BY <2>1, <1>2, OwnedBlock
  <2>3. op.idx \in 0 .. CountOf(at, op.aggr) - 1
    BY <2>1, <2>2
  <2>4. PICK b : /\ IF CountOf(at, op.aggr) = 1 THEN b = NULL ELSE b \in Targets(at, op.aggr)
                 /\ heap' = Deleted(at, op.aggr, op.idx, b)
    BY <1>11 DEF ExecDel
  <2>5. \E q : WellFormed(heap', q) /\ Keeps(heap, r, heap', q, r[at.blk])
    BY <2>1, <2>3, <2>4, <1>2, Deleting
  <2> QED BY <2>1, <2>5, <1>3
<1> QED BY <1>6, <1>7, <1>8, <1>9, <1>10, <1>11

LEMMA ResetCtxtStep ==
  ASSUME NEW r, Inv(r), ResetCtxt
  PROVE  Inv(r)' /\ Pinned
<1>1. /\ phase = "prompt" /\ ctxt' = BasePlace /\ heap' = heap /\ AtPrompt
      /\ WellFormed(heap, r) /\ Typed(heap) /\ ctxt.blk \in DOMAIN heap
  BY ContextRanked DEF ResetCtxt
<1>2. Inv(r)'
  BY <1>1, BasePoints, BackAtPrompt
<1> QED BY <1>1, <1>2 DEF Pinned

-----------------------------------------------------------------------------
(* Load. *)

LEMMA DefaultsAll ==
  ASSUME NEW r, WellFormed(heap, r), heap' = Defaulted(BasePlace)
  PROVE  \E q : WellFormed(heap', q) /\ PointsIn(heap', BasePlace) /\ InTree(heap', BasePlace.blk)
<1>1. PointsIn(heap, BasePlace)
  BY BasePoints DEF WellFormed
<1>2. PICK q : WellFormed(heap', q)
  BY <1>1, Defaulting
<1>3. Typed(heap')
  BY <1>2 DEF WellFormed
<1> QED BY <1>2, <1>3, BasePoints

LEMMA LoadStartStep ==
  ASSUME NEW r, Inv(r), LoadStart
  PROVE  (\E q : Inv(q)') /\ Pinned
<1>1. /\ phase = "prompt" /\ cmd = <<>> /\ WellFormed(heap, r)
      /\ heap' = Defaulted(BasePlace) /\ phase' = "load" /\ at' = BasePlace
      /\ UNCHANGED <<ctxt, cmd, op>>
  BY DEF Inv, LoadStart
<1>2. PICK q : WellFormed(heap', q) /\ PointsIn(heap', BasePlace)
  BY <1>1, DefaultsAll
<1>3. cmd' \in Seq({}) /\ Len(cmd') = 0
  BY <1>1
<1>4. LoadPath(heap', q, cmd', at')
  BY <1>1, <1>2, <1>3 DEF LoadPath
<1>5. at'.desc \in Desc
  BY <1>1, <1>2 DEF PointsIn
<1> QED BY <1>1, <1>2, <1>4, <1>5 DEF Inv, Pinned

LEMMA LoadEndStep ==
  ASSUME NEW r, Inv(r), LoadEnd \/ LoadFail
  PROVE  (\E q : Inv(q)') /\ Pinned
<1>1. phase = "load" /\ ctxt' = BasePlace /\ AtPrompt /\ WellFormed(heap, r)
  BY DEF Inv, LoadEnd, LoadFail
<1>2. \E q : WellFormed(heap', q) /\ PointsIn(heap', BasePlace) /\ InTree(heap', BasePlace.blk)
  <2>1. CASE LoadEnd
    BY <2>1, <1>1, BasePoints DEF LoadEnd, WellFormed
  <2>2. CASE LoadFail
    BY <2>2, <1>1, DefaultsAll DEF LoadFail
  <2> QED BY <2>1, <2>2
<1>3. \E q : Inv(q)'
  BY <1>1, <1>2, BackAtPrompt
<1> QED BY <1>1, <1>3 DEF Pinned
(* A place that stays in its block, with the rank the block has. *)
Stays(h, r, g, q, n) ==
  \A l : PointsIn(h, l) /\ r[l.blk] <= n => PointsIn(g, l) /\ q[l.blk] = r[l.blk]

LEMMA KeptStays ==
  ASSUME NEW h, NEW r, NEW g, NEW q, NEW n \in Nat, NEW m \in Nat, m <= n,
         WellFormed(h, r), WellFormed(g, q), Keeps(h, r, g, q, n)
  PROVE  Stays(h, r, g, q, m)
<1> SUFFICES ASSUME NEW l, PointsIn(h, l), r[l.blk] <= m
             PROVE  PointsIn(g, l) /\ q[l.blk] = r[l.blk]
  BY DEF Stays
<1>1. r[l.blk] \in Nat /\ Typed(h) /\ Typed(g)
  BY DEF WellFormed, Ranked, PointsIn
<1>2. r[l.blk] <= n
  BY <1>1
<1> QED BY <1>1, <1>2, KeptPoints

LEMMA PathKept ==
  ASSUME NEW h, NEW r, NEW g, NEW q, NEW w, NEW l, LoadPath(h, r, w, l),
         Ranked(h, r), Stays(h, r, g, q, r[l.blk])
  PROVE  LoadPath(g, q, w, l)
<1>1. /\ PointsIn(h, l) /\ r[l.blk] \in Nat
      /\ \E S : w \in Seq(S)
      /\ \A k \in 1 .. Len(w) :
           /\ PointsIn(h, w[k]) /\ r[w[k].blk] <= r[l.blk]
           /\ \A j \in 1 .. k : r[w[j].blk] <= r[w[k].blk]
  BY DEF LoadPath, Ranked, PointsIn
<1>2. PointsIn(g, l) /\ q[l.blk] = r[l.blk]
  BY <1>1 DEF Stays
<1>3. \A k \in 1 .. Len(w) : PointsIn(g, w[k]) /\ q[w[k].blk] = r[w[k].blk]
  BY <1>1 DEF Stays
<1>4. Len(w) \in Nat
  BY <1>1
<1>5. ASSUME NEW k \in 1 .. Len(w), NEW j \in 1 .. k
      PROVE  q[w[j].blk] <= q[w[k].blk]
  <2>1. j \in 1 .. Len(w)
    BY <1>4
  <2> QED BY <2>1, <1>1, <1>3
<1>6. \A k \in 1 .. Len(w) : q[w[k].blk] <= q[l.blk]
  BY <1>1, <1>2, <1>3
<1> QED BY <1>1, <1>2, <1>3, <1>5, <1>6 DEF LoadPath

LEMMA PathLonger ==
  ASSUME NEW h, NEW r, Ranked(h, r), NEW w, NEW l, LoadPath(h, r, w, l),
         NEW m, PointsIn(h, m), r[l.blk] <= r[m.blk]
  PROVE  LoadPath(h, r, Append(w, l), m)
<1>1. PICK S : w \in Seq(S)
  BY DEF LoadPath
<1> DEFINE v == Append(w, l)
           T == S \cup {l}
<1>2. w \in Seq(T) /\ l \in T
  BY <1>1
<1> HIDE DEF T
<1>3. /\ v \in Seq(T) /\ Len(v) = Len(w) + 1 /\ Len(w) \in Nat
      /\ \A k \in 1 .. Len(w) : v[k] = w[k]
      /\ v[Len(w) + 1] = l
  BY <1>2
<1> HIDE DEF v
<1>4. /\ PointsIn(h, l) /\ r[l.blk] \in Nat /\ r[m.blk] \in Nat
      /\ \A k \in 1 .. Len(w) : r[w[k].blk] \in Nat /\ PointsIn(h, w[k]) /\ r[w[k].blk] <= r[l.blk]
      /\ \A k \in 1 .. Len(w) : \A j \in 1 .. k : r[w[j].blk] <= r[w[k].blk]
  BY DEF LoadPath, Ranked, PointsIn
<1>5. ASSUME NEW k \in 1 .. Len(v)
      PROVE  /\ PointsIn(h, v[k]) /\ r[v[k].blk] <= r[m.blk]
             /\ \A j \in 1 .. k : r[v[j].blk] <= r[v[k].blk]
  <2>1. CASE k \in 1 .. Len(w)
    <3>1. PointsIn(h, v[k]) /\ r[v[k].blk] <= r[m.blk]
      BY <2>1, <1>3, <1>4
    <3>2. ASSUME NEW j \in 1 .. k PROVE v[j] = w[j] /\ r[w[j].blk] <= r[w[k].blk]
      BY <2>1, <1>3, <1>4
    <3> QED BY <2>1, <3>1, <3>2, <1>3
  <2>2. CASE k = Len(w) + 1
    <3>1. v[k] = l
      BY <2>2, <1>3
    <3>2. ASSUME NEW j \in 1 .. k PROVE r[v[j].blk] <= r[l.blk]
      <4>1. CASE j = k
        BY <4>1, <3>1, <1>4
      <4>2. CASE j # k
        <5>1. j \in 1 .. Len(w)
          BY <4>2, <2>2, <1>3
        <5> QED BY <5>1, <1>3, <1>4
      <4> QED BY <4>1, <4>2
    <3> QED BY <3>1, <3>2, <1>4
  <2> QED BY <2>1, <2>2, <1>3
<1>6. LoadPath(h, r, v, m)
  BY <1>3, <1>5 DEF LoadPath
<1> QED BY <1>6 DEF v

LEMMA PathShorter ==
  ASSUME NEW h, NEW r, NEW w, NEW l, LoadPath(h, r, w, l), w # <<>>
  PROVE  LoadPath(h, r, Front(w), Last(w))
<1>1. PICK S : w \in Seq(S)
  BY DEF LoadPath
<1>2. /\ Front(w) \in Seq(S) /\ Len(Front(w)) = Len(w) - 1 /\ Len(w) \in Nat \ {0}
      /\ \A k \in 1 .. Len(w) - 1 : Front(w)[k] = w[k]
      /\ Last(w) = w[Len(w)]
  <2>1. Len(w) \in Nat \ {0} /\ \A k \in 1 .. Len(w) - 1 : w[k] \in S
    BY <1>1
  <2>2. /\ Len(Front(w)) = Len(w) - 1
        /\ \A k \in 1 .. Len(w) - 1 : Front(w)[k] = w[k]
    <3>1. SUFFICES ASSUME NEW n, n = Len(w) - 1
                   PROVE  /\ Len(SubSeq(w, 1, n)) = n
                          /\ \A k \in 1 .. n : SubSeq(w, 1, n)[k] = w[k]
      BY DEF Front
    <3>2. n \in 0 .. Len(w)
      BY <2>1, <3>1
    <3> QED BY <1>1, <2>1, <3>2
  <2>3. Front(w) \in Seq(S)
    <3>1. SubSeq(w, 1, Len(w) - 1) \in Seq(S)
      BY <1>1, <2>1
    <3> QED BY <3>1 DEF Front
  <2> QED BY <2>1, <2>2, <2>3 DEF Last
<1>3. \A k \in 1 .. Len(w) :
        PointsIn(h, w[k]) /\ \A j \in 1 .. k : r[w[j].blk] <= r[w[k].blk]
  BY DEF LoadPath
<1>4. Len(w) \in 1 .. Len(w) /\ PointsIn(h, Last(w))
  BY <1>2, <1>3
<1>5. ASSUME NEW k \in 1 .. Len(w) - 1
      PROVE  /\ PointsIn(h, Front(w)[k]) /\ r[Front(w)[k].blk] <= r[Last(w).blk]
             /\ \A j \in 1 .. k : r[Front(w)[j].blk] <= r[Front(w)[k].blk]
  <2>1. k \in 1 .. Len(w) /\ Front(w)[k] = w[k]
    BY <1>2
  <2>2. r[w[k].blk] <= r[w[Len(w)].blk]
    BY <2>1, <1>3, <1>4
  <2>3. ASSUME NEW j \in 1 .. k PROVE r[Front(w)[j].blk] <= r[w[k].blk]
    <3>1. j \in 1 .. Len(w) - 1
      BY <1>2
    <3> QED BY <3>1, <2>1, <1>2, <1>3
  <2> QED BY <2>1, <2>2, <2>3, <1>2, <1>3
<1> QED BY <1>2, <1>4, <1>5 DEF LoadPath

(* An item that was found, or added, gets its value or is gone into. *)
LEMMA LoadsStep ==
  ASSUME NEW r, Inv(r), phase = "load", NEW h, NEW q, WellFormed(h, q),
         Stays(heap, r, h, q, r[at.blk]),
         NEW l, PointsIn(h, l), r[at.blk] <= q[l.blk], NEW v \in Value, Loads(h, l, v)
  PROVE  (\E k : Inv(k)') /\ Pinned
<1>1. /\ LoadPath(heap, r, cmd, at) /\ Ranked(heap, r) /\ Ranked(h, q) /\ at.desc \in Desc
      /\ PointsIn(heap, at)
  BY DEF Inv, WellFormed, LoadPath
<1>2. LoadPath(h, q, cmd, at)
  BY <1>1, PathKept
<1>3. PointsIn(h, at) /\ q[at.blk] = r[at.blk] /\ q[at.blk] \in Nat /\ q[l.blk] \in Nat
  <2>1. r[at.blk] \in Nat
    BY <1>1 DEF Ranked, PointsIn
  <2>2. PointsIn(h, at) /\ q[at.blk] = r[at.blk]
    BY <1>1, <2>1 DEF Stays
  <2> QED BY <2>1, <2>2, <1>1 DEF Ranked, PointsIn
<1>4. CASE l.desc \in Simple
  <2>1. heap' = Written(h, l, v) /\ UNCHANGED <<at, cmd, ctxt, phase, op>>
    BY <1>4 DEF Loads
  <2>2. PICK k : WellFormed(heap', k) /\ Keeps(h, q, heap', k, q[l.blk])
    BY <1>4, <2>1, Writing
  <2>3. Stays(h, q, heap', k, q[at.blk])
    BY <2>2, <1>3, KeptStays
  <2>4. LoadPath(heap', k, cmd, at)
    BY <2>3, <1>1, <1>2, PathKept
  <2> QED BY <2>1, <2>2, <2>4, <1>1 DEF Inv, Pinned
<1>5. CASE l.desc \notin Simple
  <2>1. heap' = h /\ at' = l /\ cmd' = Append(cmd, at) /\ UNCHANGED <<ctxt, phase, op>>
    BY <1>5 DEF Loads
  <2>2. LoadPath(h, q, Append(cmd, at), l)
    BY <1>1, <1>2, <1>3, PathLonger
  <2>3. l.desc \in Desc
    BY DEF PointsIn
  <2> QED BY <2>1, <2>2, <2>3 DEF Inv, Pinned
<1> QED BY <1>4, <1>5

LEMMA LoadContainedStep ==
  ASSUME NEW r, Inv(r), NEW a, NEW i \in Nat, NEW v \in Value, LoadContained(a, i, v)
  PROVE  (\E k : Inv(k)') /\ Pinned
<1>1. /\ phase = "load" /\ a \in ComponentsOf(at.desc) /\ a \notin Owned /\ i < MaxCount[a]
      /\ Loads(heap, Below(at, a, i), v)
  BY DEF LoadContained, Loading
<1>2. WellFormed(heap, r) /\ PointsIn(heap, at)
  BY <1>1 DEF Inv, LoadPath
<1>3. i < CountOf(at, a)
  BY <1>1 DEF CountOf
<1>4. PointsIn(heap, Below(at, a, i)) /\ r[at.blk] <= r[Below(at, a, i).blk]
  BY <1>1, <1>2, <1>3, BelowPoints
<1>5. Stays(heap, r, heap, r, r[at.blk])
  BY DEF Stays
<1> QED BY <1>1, <1>2, <1>4, <1>5, LoadsStep

LEMMA LoadOwnedStep ==
  ASSUME NEW r, Inv(r), NEW a, NEW v \in Value, LoadOwned(a, v)
  PROVE  (\E k : Inv(k)') /\ Pinned
<1>1. /\ phase = "load" /\ a \in ComponentsOf(at.desc) /\ a \in Owned
  BY DEF LoadOwned, Loading, CanAdd
<1>2. WellFormed(heap, r) /\ PointsIn(heap, at)
  BY <1>1 DEF Inv, LoadPath
<1>3. r[at.blk] \in Nat
  BY <1>2 DEF WellFormed, Ranked, PointsIn
<1>4. PICK i, b : /\ i = CountOf(at, a) /\ b \in Targets(at, a)
                  /\ Loads(Added(at, a, i, b), Place(Component[a], b, i, <<>>), v)
  BY DEF LoadOwned
<1>5. i \in 0 .. CountOf(at, a)
  <2>1. CountOf(at, a) \in Nat
    BY <1>1, <1>2, OwnedBlock
  <2> QED BY <2>1, <1>4
<1> SUFFICES ASSUME NEW h, NEW l, h = Added(at, a, i, b), l = Place(Component[a], b, i, <<>>)
             PROVE  (\E k : Inv(k)') /\ Pinned
  OBVIOUS
<1>6. PICK q : /\ WellFormed(h, q) /\ Keeps(heap, r, h, q, r[at.blk])
               /\ r[at.blk] < q[b] /\ PointsIn(h, l)
  BY <1>1, <1>2, <1>4, <1>5, Adding
<1>7. l.blk = b /\ q[b] \in Nat
  <2>1. l.blk = b
    BY DEF Place
  <2> QED BY <2>1, <1>6 DEF WellFormed, Ranked, PointsIn
<1>8. r[at.blk] <= q[l.blk]
  BY <1>3, <1>6, <1>7
<1>9. Stays(heap, r, h, q, r[at.blk])
  BY <1>2, <1>3, <1>6, KeptStays
<1> QED BY <1>1, <1>4, <1>6, <1>8, <1>9, LoadsStep

LEMMA LoadUpStep ==
  ASSUME NEW r, Inv(r), LoadUp
  PROVE  Inv(r)' /\ Pinned
<1>1. /\ phase = "load" /\ cmd # <<>> /\ LoadPath(heap, r, cmd, at) /\ WellFormed(heap, r)
      /\ at' = Last(cmd) /\ cmd' = Front(cmd) /\ UNCHANGED <<heap, ctxt, phase, op>>
  BY DEF Inv, LoadUp
<1>2. LoadPath(heap, r, Front(cmd), Last(cmd))
  BY <1>1, PathShorter
<1>3. Last(cmd).desc \in Desc
  BY <1>2 DEF LoadPath, PointsIn
<1> QED BY <1>1, <1>2, <1>3 DEF Inv, Pinned
-----------------------------------------------------------------------------
(* Start, and start again. *)

LEMMA Fresh ==
  ASSUME NEW h, h = [b \in {Base} |-> <<NewItem(Root)>>]
  PROVE  \E r : WellFormed(h, r)
<1>1. Root \in Desc
  BY DEF Desc
<1>2. /\ DOMAIN h = {Base} /\ h[Base] = <<NewItem(Root)>>
      /\ NewItem(Root) \in Items /\ NewItem(Root).desc = Root
      /\ \A s \in DOMAIN NewItem(Root).own : NewItem(Root).own[s] = NULL
  BY <1>1, NewItemMade
<1>3. Typed(h)
  BY <1>2 DEF Typed, Block
<1>4. ASSUME NEW b, NEW i, NEW s, NEW c, Owns(h, b, i, s, c) PROVE FALSE
  <2>1. b = Base /\ i = 1
    BY <1>2, <1>4 DEF Owns
  <2> QED BY <2>1, <1>2, <1>4 DEF Owns
<1>5. PointersFit(h) /\ OneOwner(h) /\ Ranked(h, [b \in DOMAIN h |-> 0])
  BY <1>4 DEF PointersFit, OneOwner, Ranked
<1> QED BY <1>3, <1>5 DEF WellFormed

LEMMA InitIInv == Init => IInv
<1> SUFFICES ASSUME Init PROVE IInv
  OBVIOUS
<1>1. /\ heap = [b \in {Base} |-> <<NewItem(Root)>>]
      /\ ctxt = BasePlace /\ at = BasePlace /\ phase = "prompt" /\ cmd = <<>>
  BY DEF Init
<1>2. PICK r : WellFormed(heap, r)
  BY <1>1, Fresh
<1>3. PointsIn(heap, ctxt) /\ InTree(heap, ctxt.blk) /\ at.desc \in Desc
  BY <1>1, <1>2, BasePoints DEF WellFormed
<1>4. Inv(r)
  BY <1>1, <1>2, <1>3 DEF Inv
<1> QED BY <1>4 DEF IInv

LEMMA RestartStep ==
  ASSUME NEW r, Inv(r), Restart
  PROVE  (\E k : Inv(k)') /\ Pinned
<1>1. heap' = [b \in {Base} |-> <<NewItem(Root)>>] /\ ctxt' = BasePlace /\ AtPrompt
  BY DEF Restart
<1>2. PICK k : WellFormed(heap', k)
  BY <1>1, Fresh
<1>3. PointsIn(heap', ctxt') /\ InTree(heap', ctxt'.blk)
  BY <1>1, <1>2, BasePoints DEF WellFormed
<1>4. Inv(k)'
  BY <1>1, <1>2, <1>3, BackAtPrompt
<1>5. ctxt' = ctxt => ctxt.blk \in DOMAIN heap' /\ Len(heap'[ctxt.blk]) = Len(heap[ctxt.blk])
  <2>1. Typed(heap) /\ Typed(heap') /\ BasePlace.blk = Base
    BY <1>2 DEF Inv, WellFormed, BasePlace, Place
  <2> QED BY <2>1, <1>1 DEF Typed
<1> QED BY <1>4, <1>5 DEF Pinned

-----------------------------------------------------------------------------
(* Every step keeps the invariant; what a step may do follows from it. *)

OnlySetsAdd == phase = "exec" /\ cmd # <<>> /\ op.kind # "set" => heap' = heap

LEMMA NextStep ==
  ASSUME NEW r, Inv(r), [Next]_vars
  PROVE  (\E k : Inv(k)') /\ Pinned /\ OnlySetsAdd
<1>1. CASE ExecIdWord
  BY <1>1, ExecIdWordStep DEF OnlySetsAdd
<1>2. CASE Next /\ (phase # "exec" \/ cmd = <<>>)
  <2>1. OnlySetsAdd
    BY <1>2 DEF OnlySetsAdd
  <2>2. CASE StartCmd \/ EvalReject
    BY <2>1, <2>2, StartCmdStep, EvalRejectStep
  <2>3. CASE \/ \E v \in Value : EvalSet(v)
             \/ EvalSetDef \/ EvalPrt \/ EvalEmpty
             \/ \E a \in Aggr, n \in Number : EvalAdd(a, n) \/ EvalDel(a, n)
    BY <2>1, <2>3, EvalActionStep
  <2>4. CASE \E a \in Aggr, n \in Number : EvalContained(a, n) \/ EvalOwned(a, n)
    BY <2>1, <2>4, EvalWordStep
  <2>5. CASE ExecSet \/ ExecSetDef \/ ExecPrt \/ ExecEmpty \/ ExecAdd \/ ExecDel
    BY <2>1, <2>5, ExecActionStep
  <2>6. CASE ResetCtxt \/ Restart
    BY <2>1, <2>6, ResetCtxtStep, RestartStep
  <2>7. CASE LoadStart \/ LoadUp \/ LoadEnd \/ LoadFail
    BY <2>1, <2>7, LoadStartStep, LoadUpStep, LoadEndStep
  <2>8. CASE \E a \in Aggr, v \in Value :
               LoadOwned(a, v) \/ \E i \in Indices : LoadContained(a, i, v)
    <3>1. \A i \in Indices : i \in Nat
      BY DEF Indices
    <3> QED BY <2>1, <2>8, <3>1, LoadOwnedStep, LoadContainedStep
  <2>9. CASE ExecIdWord
    BY <2>9, <1>1
  <2> QED BY <2>2, <2>3, <2>4, <2>5, <2>6, <2>7, <2>8, <2>9, <1>2 DEF Next
<1>3. CASE Next /\ ~(phase # "exec" \/ cmd = <<>>) /\ ~ExecIdWord
  <2>1. ~Next
    BY <1>3 DEF Next, StartCmd, EvalReject, EvalSet, EvalSetDef, EvalPrt, EvalEmpty, EvalAdd,
                EvalDel, EvalContained, EvalOwned, Accept, Names, ExecSet, ExecSetDef, ExecPrt,
                ExecEmpty, ExecAdd, ExecDel, ExecOp, ResetCtxt, LoadStart, LoadUp, LoadEnd,
                LoadFail, LoadOwned, LoadContained, Loading, Restart, Stopped
  <2> QED BY <2>1, <1>3
<1>4. CASE UNCHANGED vars
  <2>1. UNCHANGED <<heap, ctxt, phase, cmd, op, at>>
    BY <1>4 DEF vars
  <2>2. /\ phase = "eval" => Evaluating
        /\ phase = "exec" => Executing(r)
        /\ phase # "load" => PointsIn(heap, ctxt)
    BY DEF Inv
  <2>3. phase = "eval" => Evaluating'
    BY <2>1, <2>2, SameHeap DEF Evaluating, Present
  <2>4. phase = "exec" => Executing(r)'
    <3>1. \A d : OpFits(d)' <=> OpFits(d)
      BY <2>1 DEF OpFits
    <3>2. \A m : OpFitsAt(m)' <=> OpFitsAt(m)
      BY <2>1, SameHeap DEF OpFitsAt
    <3> SUFFICES ASSUME NEW l, NEW w, l = at, w = cmd, phase = "exec"
                 PROVE  Executing(r)'
      OBVIOUS
    <3>3. /\ OpFits(DescAt(l.desc, w, Len(w)))'
          /\ \/ \E m : Found(l, w, m)' /\ OpFitsAt(m)'
             \/ op.kind = "set" /\ Creates(l, w)'
             \/ op.kind = "set" /\ OwnsNothing(heap, l) /\ \A k \in 1 .. Len(w) : NewWord(w[k])
      BY <3>1, <3>2, <2>1, <2>2, SameHeap DEF Executing
    <3>4. l = at' /\ w = cmd'
      BY <2>1
    <3> QED BY <3>3, <3>4, <2>1, <2>2 DEF Executing
  <2>5. Inv(r)'
    BY <2>1, <2>3, <2>4 DEF Inv
  <2> QED BY <2>1, <2>2, <2>5 DEF Pinned, OnlySetsAdd, PointsIn
<1> QED BY <1>1, <1>2, <1>3, <1>4
-----------------------------------------------------------------------------
(* What is lost.                                                           *)

(* One of some items owns the block. *)
Holds(items, c) == \E j \in DOMAIN items : \E s \in DOMAIN items[j].own : items[j].own[s] = c /\ c # NULL
Edge(h, x, c)   == x \in DOMAIN h /\ Holds(h[x], c)

(* The blocks of which there is no pointer in the tree. *)
Lost(h) == {x \in DOMAIN h : ~InTree(h, x)}

LEMMA EdgeOwns ==
  ASSUME NEW h, NEW x, NEW c
  PROVE  Edge(h, x, c) <=> \E i, s : Owns(h, x, i, s, c)
BY DEF Edge, Holds, Owns

(* A set with the base and whatever its blocks own. *)
Spans(h, S) == Base \in S /\ \A b \in S : \A c : Edge(h, b, c) => c \in S

LEMMA TreeSpans ==
  ASSUME NEW h, NEW r, WellFormed(h, r), NEW x
  PROVE  InTree(h, x) <=> x \in Block /\ \A S \in SUBSET Block : Spans(h, S) => x \in S
<1>1. /\ \A b, i, s, c : Owns(h, b, i, s, c) => c \in Addr
      /\ \A i, s, c : Owns(h, Base, i, s, c) => i = 1
      /\ Base \notin Addr
  BY AddrAssumption DEF WellFormed, PointersFit, Typed, Block, Owns
<1>2. ASSUME InTree(h, x), NEW S \in SUBSET Block, Spans(h, S) PROVE x \in S
  <2> DEFINE T == S \cap Addr
  <2>1. \A s, c : Owns(h, Base, 1, s, c) => c \in T
    BY <1>1, <1>2, EdgeOwns DEF Spans
  <2>2. \A b \in T : \A i, s, c : Owns(h, b, i, s, c) => c \in T
    BY <1>1, <1>2, EdgeOwns DEF Spans
  <2>3. T \in SUBSET Addr
    OBVIOUS
  <2> HIDE DEF T
  <2>4. x = Base \/ x \in T
    BY <1>2, <2>1, <2>2, <2>3 DEF InTree
  <2> QED BY <2>4, <1>2 DEF T, Spans
<1>3. ASSUME x \in Block, \A S \in SUBSET Block : Spans(h, S) => x \in S, x # Base PROVE InTree(h, x)
  <2>1. x \in Addr
    BY <1>3 DEF Block
  <2> SUFFICES ASSUME NEW S \in SUBSET Addr,
                      \A s, c : Owns(h, Base, 1, s, c) => c \in S,
                      \A b \in S : \A i, s, c : Owns(h, b, i, s, c) => c \in S
               PROVE  x \in S
    BY <2>1 DEF InTree
  <2> DEFINE T == S \cup {Base}
  <2>2. ASSUME NEW b \in T, NEW c, Edge(h, b, c) PROVE c \in S
    <3>1. PICK i, s : Owns(h, b, i, s, c)
      BY <2>2, EdgeOwns
    <3> QED BY <3>1, <1>1
  <2>3. Spans(h, T) /\ T \in SUBSET Block
    BY <2>2 DEF Spans, Block
  <2> QED BY <2>3, <1>3
<1>4. InTree(h, x) => x \in Block
  BY DEF InTree, Block
<1>5. x = Base => InTree(h, x)
  BY DEF InTree
<1> QED BY <1>2, <1>3, <1>4, <1>5

(* What is in the tree is allocated. *)
LEMMA TreeLive ==
  ASSUME NEW h, NEW r, WellFormed(h, r)
  PROVE  /\ \A x : InTree(h, x) => x \in DOMAIN h
         /\ \A x, c : Edge(h, x, c) => /\ c \in DOMAIN h /\ c \in Block /\ c # Base /\ c # NULL
                                       /\ x \in DOMAIN h
         /\ DOMAIN h \subseteq Block /\ Base \in DOMAIN h
<1>1. \A x, i, s, c : Owns(h, x, i, s, c) => c \in DOMAIN h /\ c # Base /\ c # NULL
  BY DEF WellFormed, PointersFit, Owns
<1>2. DOMAIN h \subseteq Block /\ Base \in DOMAIN h
  BY DEF WellFormed, Typed
<1>3. \A x, c : Edge(h, x, c) => c \in DOMAIN h /\ c # Base /\ c # NULL /\ x \in DOMAIN h
  BY <1>1, EdgeOwns DEF Edge
<1>4. Spans(h, DOMAIN h)
  BY <1>2, <1>3 DEF Spans
<1> QED BY <1>2, <1>3, <1>4, TreeSpans

(* The tree when a block is replaced by another that owns what it owned.   *)
LEMMA MovedTree ==
  ASSUME NEW h, NEW r, WellFormed(h, r), NEW g, NEW q, WellFormed(g, q),
         NEW o, NEW b \in Addr, NEW w, InTree(h, w), w # o, o # Base,
         o # NULL => Edge(h, w, o), Edge(g, w, b),
         \A x : Edge(h, x, o) => x = w,
         \A x, c : Edge(h, x, c) /\ c # o => (x = o /\ Edge(g, b, c)) \/ (x # o /\ Edge(g, x, c)),
         \A x, c : Edge(g, x, c) /\ c # b =>
           c # o /\ ((x = b /\ o # NULL /\ Edge(h, o, c)) \/ (x # b /\ Edge(h, x, c)))
  PROVE  \A x : InTree(g, x) <=> x = b \/ (x # o /\ InTree(h, x))
<1>1. b \in Block /\ Base \in Block
  BY DEF Block
<1>2. ASSUME NEW x, InTree(h, x), x # o PROVE InTree(g, x)
  <2>1. x \in Block
    BY <1>2, TreeSpans
  <2> SUFFICES ASSUME NEW S \in SUBSET Block, Spans(g, S) PROVE x \in S
    BY <2>1, TreeSpans
  <2> DEFINE T == {y \in Block : IF y = o THEN b \in S ELSE y \in S}
  <2>2. Base \in T
    BY <1>1 DEF Spans
  <2>3. ASSUME NEW y \in T, NEW c, Edge(h, y, c) PROVE c \in T
    <3>1. c \in Block
      BY <2>3, TreeLive
    <3>2. CASE c = o
      <4>1. y = w /\ y \in S
        BY <2>3, <3>2
      <4>2. b \in S
        BY <4>1 DEF Spans
      <4> QED BY <4>2, <3>1, <3>2
    <3>3. CASE c # o
      <4>1. c \in S
        BY <2>3, <3>3 DEF Spans
      <4> QED BY <4>1, <3>1, <3>3
    <3> QED BY <3>2, <3>3
  <2>4. Spans(h, T)
    BY <2>2, <2>3 DEF Spans
  <2>5. x \in T
    BY <2>4, <1>2, TreeSpans
  <2> QED BY <2>5, <1>2
<1>3. InTree(g, b)
  <2>1. InTree(g, w)
    BY <1>2
  <2> SUFFICES ASSUME NEW S \in SUBSET Block, Spans(g, S) PROVE b \in S
    BY <1>1, TreeSpans
  <2>2. w \in S
    BY <2>1, TreeSpans
  <2> QED BY <2>2 DEF Spans
<1>4. ASSUME NEW x, InTree(g, x), x # b PROVE x # o /\ InTree(h, x)
  <2>1. x \in Block
    BY <1>4, TreeSpans
  <2>2. ASSUME NEW S \in SUBSET Block, Spans(h, S) PROVE x # o /\ x \in S
    <3> DEFINE T == {y \in Block : y = b \/ (y # o /\ y \in S)}
    <3>1. Base \in T
      BY <1>1, <2>2 DEF Spans
    <3>2. w \in S
      BY <2>2, TreeSpans
    <3>3. o # NULL => o \in S
      BY <3>2, <2>2 DEF Spans
    <3>4. ASSUME NEW y \in T, NEW c, Edge(g, y, c) PROVE c \in T
      <4>1. c \in Block
        BY <3>4, TreeLive
      <4>2. CASE c # b
        <5>1. c # o /\ c \in S
          BY <3>3, <3>4, <4>2, <2>2 DEF Spans
        <5> QED BY <4>1, <5>1
      <4> QED BY <4>1, <4>2
    <3>5. Spans(g, T)
      BY <3>1, <3>4 DEF Spans
    <3>6. x \in T
      BY <3>5, <1>4, TreeSpans
    <3> QED BY <3>6, <1>4
  <2>3. Spans(h, Block)
    BY <1>1, TreeLive DEF Spans
  <2> QED BY <2>1, <2>2, <2>3, TreeSpans
<1> QED BY <1>2, <1>3, <1>4

LEMMA SameEdges ==
  ASSUME NEW h, NEW r, WellFormed(h, r), NEW g, NEW q, WellFormed(g, q),
         \A x, c : Edge(g, x, c) <=> Edge(h, x, c)
  PROVE  \A x : InTree(g, x) <=> InTree(h, x)
<1>1. \A S : Spans(g, S) <=> Spans(h, S)
  BY DEF Spans
<1> QED BY <1>1, TreeSpans

(* A write to a simple item changes no pointer. *)
LEMMA WrittenTree ==
  ASSUME NEW h, NEW r, WellFormed(h, r), NEW l, PointsIn(h, l), l.desc \in Simple, NEW v \in Value,
         NEW g, g = Written(h, l, v)
  PROVE  (\A x : InTree(g, x) <=> InTree(h, x)) /\ Lost(g) = Lost(h)
<1>1. PICK q : WellFormed(g, q)
  BY Writing
<1>2. /\ l.blk \in DOMAIN h /\ h[l.blk] \in Seq(Items) /\ l.idx + 1 \in DOMAIN h[l.blk]
      /\ h[l.blk][l.idx + 1] \in Items
  BY DEF WellFormed, Typed, PointsIn
<1> DEFINE K    == l.idx + 1
           item == h[l.blk][K]
           e    == Rewritten(item, l.path, v)
<1>3. l.path \in Values(item.desc)
  BY DEF PointsIn, Values
<1>4. e.own = item.own
  <2> HIDE DEF item, K
  <2>1. item \in Items
    BY <1>2 DEF item, K
  <2> QED BY <2>1, <1>3, ItemWritten
<1>5. /\ DOMAIN g = DOMAIN h
      /\ \A x \in DOMAIN h : g[x] = IF x = l.blk THEN [h[x] EXCEPT ![K] = e] ELSE h[x]
  BY <1>2 DEF Written, Rewritten
<1> HIDE DEF e, K, item
<1>6. ASSUME NEW c PROVE Holds([h[l.blk] EXCEPT ![K] = e], c) <=> Holds(h[l.blk], c)
  BY <1>2, <1>4 DEF Holds, K, item
<1>7. \A x, c : Edge(g, x, c) <=> Edge(h, x, c)
  BY <1>5, <1>6, <1>2 DEF Edge
<1>8. \A x : InTree(g, x) <=> InTree(h, x)
  BY <1>1, <1>7, SameEdges
<1> QED BY <1>5, <1>8 DEF Lost

LEMMA InsertedIs ==
  ASSUME NEW S, NEW s, NEW n, NEW e, NEW t, t = InsertAt(s, n, e),
         s \in Seq(S) /\ n \in 1 .. Len(s) + 1 /\ e \in S
  PROVE  /\ t \in Seq(S) /\ Len(t) = Len(s) + 1
         /\ \A j \in 1 .. Len(s) + 1 :
              t[j] = IF j < n THEN s[j] ELSE IF j = n THEN e ELSE s[j - 1]
<1>1. s \in Seq(S) /\ n \in 1 .. Len(s) + 1 /\ e \in S
  OBVIOUS
<1>2. Len(s) \in Nat /\ n \in Nat
  OBVIOUS
<1>3. /\ InsertAt(s, n, e) \in Seq(S)
      /\ Len(InsertAt(s, n, e)) = Len(s) + 1
  BY ONLY <1>1, <1>2, Inserted
<1>4. ASSUME NEW j \in 1 .. Len(s) + 1
      PROVE  InsertAt(s, n, e)[j] = IF j < n THEN s[j] ELSE IF j = n THEN e ELSE s[j - 1]
  BY ONLY <1>1, <1>2, <1>4, Inserted
<1> QED BY <1>3, <1>4

(* An item is added in the tree: its array is in the tree, and nothing     *)
(* else is that was not, nor is it no longer.                              *)
LEMMA AddedTree ==
  ASSUME NEW r, WellFormed(heap, r), NEW l, PointsIn(heap, l), InTree(heap, l.blk),
         NEW a \in ComponentsOf(l.desc) \cap Owned,
         NEW i \in 0 .. CountOf(l, a), NEW b \in Targets(l, a), NEW g, g = Added(l, a, i, b)
  PROVE  InTree(g, b) /\ Lost(g) = Lost(heap)
<1> DEFINE o     == BlockOf(l, a)
           L     == <<l.path, a>>
           K     == l.idx + 1
           w     == l.blk
           old   == ItemsOf(l, a)
           new   == NewItem(Component[a])
           items == InsertAt(old, i + 1, new)
           e     == Repointed(ItemAt(l), L, b)
           owner == [heap[l.blk] EXCEPT ![l.idx + 1].own[<<l.path, a>>] = b]
<1>1. PICK q : WellFormed(g, q)
  BY Adding
<1>2. /\ ItemAt(l) \in Items /\ K \in 1 .. Len(heap[w])
      /\ L \in Slots(ItemAt(l).desc) /\ o = ItemAt(l).own[L] /\ o \in Ref
      /\ o # NULL => Owns(heap, w, K, L, o)
      /\ Component[a] \in Desc /\ old \in Seq(Items) /\ CountOf(l, a) = Len(old) /\ Len(old) \in Nat
  BY OwnedBlock
<1>3. /\ PointersFit(heap) /\ OneOwner(heap) /\ Ranked(heap, r) /\ Typed(heap)
      /\ w \in DOMAIN heap /\ heap[w] \in Seq(Items) /\ w # NULL /\ w \in Block
  BY AddrAssumption DEF WellFormed, Typed, PointsIn, Block
<1>4. o # NULL => o \in DOMAIN heap \ {Base} /\ o # w
  BY <1>2, <1>3 DEF PointersFit, Ranked
<1>5. b \in Addr /\ b # NULL /\ b # w /\ b # Base /\ (b \in DOMAIN heap => b = o) /\ o # Base
  BY <1>2, <1>3, <1>4, AddrAssumption DEF Targets, Ref
<1>6. e.own = [ItemAt(l).own EXCEPT ![L] = b] /\ ItemAt(l).own \in [Slots(ItemAt(l).desc) -> Ref]
  <2> HIDE DEF L, K
  <2>1. ItemAt(l) \in Items /\ L \in Slots(ItemAt(l).desc) /\ b \in Ref
    BY <1>2, <1>5 DEF Ref
  <2> QED BY ONLY <2>1, ItemRepointed, ItemParts
<1>7. owner = [heap[w] EXCEPT ![K] = e]
  BY <1>2, <1>3 DEF ItemAt, Repointed
<1>8. /\ DOMAIN g = (DOMAIN heap \ {o}) \cup {b}
      /\ \A x \in DOMAIN g : g[x] = IF x = b THEN items ELSE IF x = w THEN owner ELSE heap[x]
  BY <1>5 DEF Rehomed, Added
<1>9. \A s \in DOMAIN new.own : new.own[s] = NULL
  BY <1>2, NewItemMade
<1>10. new \in Items
  BY <1>2, NewItemMade
<1>11. old = IF o = NULL THEN <<>> ELSE heap[o]
  BY DEF ItemsOf
<1>12. DOMAIN heap[w] = 1 .. Len(heap[w]) /\ ItemAt(l) = heap[w][K]
  BY <1>3 DEF ItemAt
<1> HIDE DEF o, K, L, w, old, new, e, owner
<1>13. i + 1 \in 1 .. Len(old) + 1 /\ DOMAIN old = 1 .. Len(old)
  BY <1>2
<1>14. /\ items \in Seq(Items) /\ Len(items) = Len(old) + 1
       /\ \A j \in 1 .. Len(old) + 1 :
            items[j] = IF j < i + 1 THEN old[j] ELSE IF j = i + 1 THEN new ELSE old[j - 1]
  <2>1. old \in Seq(Items) /\ i + 1 \in 1 .. Len(old) + 1 /\ new \in Items
    BY <1>2, <1>10, <1>13
  <2>2. items = InsertAt(old, i + 1, new)
    OBVIOUS
  <2> HIDE DEF items
  <2> QED BY ONLY <2>1, <2>2, InsertedIs, SMTT(40)
<1> HIDE DEF items
<1>15. DOMAIN items = 1 .. Len(old) + 1
  BY <1>2, <1>14
(* The new block owns what the old one did. *)
<1>16. ASSUME NEW c PROVE Holds(items, c) <=> Holds(old, c)
  <2>1. ASSUME NEW j \in DOMAIN items, NEW s \in DOMAIN items[j].own, items[j].own[s] = c, c # NULL
        PROVE  Holds(old, c)
    <3>1. j # i + 1
      BY <2>1, <1>9, <1>14, <1>15
    <3>2. \E k \in DOMAIN old : items[j] = old[k]
      <4>1. CASE j < i + 1
        BY <4>1, <1>13, <1>14, <1>15
      <4>2. CASE j > i + 1
        <5>1. j - 1 \in DOMAIN old /\ items[j] = old[j - 1]
          BY <4>2, <1>13, <1>14, <1>15
        <5> QED BY <5>1
      <4> QED BY <3>1, <4>1, <4>2, <1>13, <1>15
    <3> QED BY <3>2, <2>1 DEF Holds
  <2>2. ASSUME NEW k \in DOMAIN old, NEW s \in DOMAIN old[k].own, old[k].own[s] = c, c # NULL
        PROVE  Holds(items, c)
    <3>1. \E j \in DOMAIN items : items[j] = old[k]
      <4>1. CASE k < i + 1
        <5>1. k \in DOMAIN items /\ items[k] = old[k]
          BY <4>1, <1>2, <1>13, <1>14, <1>15
        <5> QED BY <5>1
      <4>2. CASE k >= i + 1
        <5>1. k + 1 \in DOMAIN items /\ items[k + 1] = old[k]
          BY <4>2, <1>2, <1>13, <1>14, <1>15
        <5> QED BY <5>1
      <4> QED BY <4>1, <4>2, <1>13
    <3> QED BY <3>1, <2>2 DEF Holds
  <2> QED BY <2>1, <2>2 DEF Holds
<1>17. ASSUME NEW c PROVE Edge(g, b, c) <=> o # NULL /\ Edge(heap, o, c)
  <2>1. b \in DOMAIN g /\ g[b] = items
    BY <1>8
  <2>2. o = NULL => ~Holds(old, c)
    BY <1>11 DEF Holds
  <2> QED BY <2>1, <2>2, <1>4, <1>11, <1>16 DEF Edge
(* The owner owns it, and what else it owned. *)
<1>18. ASSUME NEW x, NEW j, NEW s, Owns(heap, x, j, s, o) PROVE x = w /\ j = K /\ s = L
  BY <1>18, <1>2, <1>3 DEF OneOwner, Owns
<1>19. ASSUME NEW c PROVE Holds(owner, c) <=> c = b \/ (c # o /\ Holds(heap[w], c))
  <2>1. /\ DOMAIN owner = DOMAIN heap[w] /\ K \in DOMAIN heap[w]
        /\ \A j \in DOMAIN heap[w] : owner[j] = IF j = K THEN e ELSE heap[w][j]
    BY <1>2, <1>7, <1>12
  <2>2. /\ DOMAIN e.own = DOMAIN heap[w][K].own /\ L \in DOMAIN e.own
        /\ \A s \in DOMAIN e.own : e.own[s] = IF s = L THEN b ELSE heap[w][K].own[s]
    BY <1>2, <1>6, <1>12
  <2>3. ASSUME NEW j \in DOMAIN owner, NEW s \in DOMAIN owner[j].own, owner[j].own[s] = c, c # NULL, c # b
        PROVE  c # o /\ Holds(heap[w], c)
    <3>1. ~(j = K /\ s = L) /\ s \in DOMAIN heap[w][j].own /\ heap[w][j].own[s] = c
      BY <2>1, <2>2, <2>3
    <3>2. Owns(heap, w, j, s, c)
      BY <3>1, <2>1, <2>3, <1>3 DEF Owns
    <3> QED BY <3>1, <3>2, <1>18 DEF Holds, Owns
  <2>4. ASSUME NEW j \in DOMAIN heap[w], NEW s \in DOMAIN heap[w][j].own, heap[w][j].own[s] = c, c # NULL, c # o
        PROVE  Holds(owner, c)
    <3>1. ~(j = K /\ s = L)
      BY <2>4, <1>2, <1>12
    <3>2. s \in DOMAIN owner[j].own /\ owner[j].own[s] = c
      BY <3>1, <2>1, <2>2, <2>4
    <3> QED BY <3>2, <2>1, <2>4 DEF Holds
  <2>5. Holds(owner, b)
    BY <2>1, <2>2, <1>5 DEF Holds
  <2> QED BY <2>3, <2>4, <2>5 DEF Holds
<1>20. ASSUME NEW c PROVE Edge(g, w, c) <=> c = b \/ (c # o /\ Edge(heap, w, c))
  <2>1. w \in DOMAIN g /\ g[w] = owner
    BY <1>3, <1>4, <1>5, <1>8
  <2> QED BY <2>1, <1>3, <1>19 DEF Edge
<1>21. ASSUME NEW x, x # b, x # w, NEW c PROVE Edge(g, x, c) <=> x # o /\ Edge(heap, x, c)
  BY <1>21, <1>8 DEF Edge
<1>22. \A x : Edge(heap, x, o) => x = w
  BY <1>18, EdgeOwns
<1>23. o # NULL => Edge(heap, w, o)
  BY <1>2, EdgeOwns
<1>24. \A c : b # o => ~Edge(heap, b, c)
  BY <1>5 DEF Edge
<1>25. \A x, c : Edge(heap, x, c) => c # NULL /\ x # NULL
  BY TreeLive, AddrAssumption DEF Block
<1>26. \A x : InTree(g, x) <=> x = b \/ (x # o /\ InTree(heap, x))
  <2>1. ASSUME NEW x, NEW c, Edge(heap, x, c), c # o
        PROVE  (x = o /\ Edge(g, b, c)) \/ (x # o /\ Edge(g, x, c))
    BY <2>1, <1>4, <1>17, <1>20, <1>21, <1>24, <1>25
  <2>2. ASSUME NEW x, NEW c, Edge(g, x, c), c # b
        PROVE  c # o /\ ((x = b /\ o # NULL /\ Edge(heap, o, c)) \/ (x # b /\ Edge(heap, x, c)))
    <3>1. CASE x = b
      <4>1. o # NULL /\ Edge(heap, o, c)
        BY <3>1, <2>2, <1>17
      <4>2. c # o
        BY <4>1, <1>4, <1>22
      <4> QED BY <4>1, <4>2, <3>1
    <3>2. CASE x = w
      BY <3>2, <2>2, <1>5, <1>20
    <3>3. CASE x # b /\ x # w
      BY <3>3, <2>2, <1>21, <1>22
    <3> QED BY <3>1, <3>2, <3>3
  <2>3. InTree(heap, w) /\ w # o /\ Edge(g, w, b)
    BY <1>3, <1>4, <1>20 DEF w
  <2> QED BY <2>1, <2>2, <2>3, <1>1, <1>5, <1>22, <1>23, MovedTree
<1>27. o # NULL => InTree(heap, o)
  BY <1>2, InTreeBelow DEF w
<1>28. ~InTree(heap, NULL) /\ NULL \notin DOMAIN heap
  BY TreeLive, AddrAssumption DEF Block
<1>29. Lost(g) = Lost(heap)
  <2>1. ASSUME NEW x \in Lost(g) PROVE x \in Lost(heap)
    BY <2>1, <1>8, <1>26 DEF Lost
  <2>2. ASSUME NEW x \in Lost(heap) PROVE x \in Lost(g)
    <3>1. x # o /\ x # b
      BY <2>2, <1>5, <1>27, <1>28 DEF Lost
    <3> QED BY <3>1, <2>2, <1>8, <1>26 DEF Lost
  <2> QED BY <2>1, <2>2
<1> QED BY <1>26, <1>29

(* What is freed is what is below the item. *)
LEMMA DefaultedTree ==
  ASSUME NEW r, WellFormed(heap, r), NEW l, PointsIn(heap, l), InTree(heap, l.blk),
         NEW g, g = Defaulted(l)
  PROVE  Lost(g) = Lost(heap)
<1> DEFINE K == l.idx + 1
           B == PointersAt(l)
           R == Reachable(B)
<1>1. PICK q : WellFormed(g, q)
  BY Defaulting
<1>2. /\ l.blk \in DOMAIN heap /\ heap[l.blk] \in Seq(Items) /\ K \in DOMAIN heap[l.blk]
      /\ ItemAt(l) = heap[l.blk][K] /\ ItemAt(l) \in Items
  BY DEF WellFormed, Typed, PointsIn, ItemAt
<1>3. \A x, c : Edge(heap, x, c) => c \in Addr
  BY TreeLive DEF Block
<1>4. \A x, i, s, c : Owns(heap, x, i, s, c) => c \in Addr
  BY <1>3, EdgeOwns
<1>5. ASSUME NEW s \in DOMAIN heap[l.blk][K].own, Inside(l, s[1]), heap[l.blk][K].own[s] # NULL
      PROVE  heap[l.blk][K].own[s] \in B
  BY <1>2, <1>5 DEF PointersAt
<1>6. \A c \in B : Edge(heap, l.blk, c)
  BY <1>2 DEF PointersAt, Edge, Holds
<1>7. B \in SUBSET Addr
  BY <1>3, <1>6
<1> HIDE DEF B, R
<1>8. B \subseteq R /\ R \subseteq Addr /\ \A x, i, s, c : x \in R /\ Owns(heap, x, i, s, c) => c \in R
  BY <1>4, <1>7, ReachesOwned DEF R
<1>9. \A x, c : x \in R /\ Edge(heap, x, c) => c \in R
  BY <1>8, EdgeOwns
<1>10. \A x \in R : InTree(heap, x)
  <2> DEFINE S == {c \in Addr : InTree(heap, c)}
  <2>1. \A x, c : InTree(heap, x) /\ Edge(heap, x, c) => InTree(heap, c)
    BY InTreeBelow, EdgeOwns
  <2>2. B \subseteq S
    BY <1>6, <1>7, <2>1
  <2>3. \A x, i, s, c : x \in S /\ Owns(heap, x, i, s, c) => c \in S
    BY <1>3, <2>1, EdgeOwns
  <2> HIDE DEF S
  <2>4. S \in SUBSET Addr
    BY DEF S
  <2>5. R \subseteq S
    BY <2>2, <2>3, <2>4, ReachesLeast DEF R
  <2> QED BY <2>5 DEF S
<1>11. /\ DOMAIN g = DOMAIN heap \ R
       /\ \A x \in DOMAIN g :
            g[x] = IF x = l.blk THEN [heap[x] EXCEPT ![K] = Reset(l)] ELSE heap[x]
  BY DEF Defaulted, R, B
<1>12. Reset(l).own = [s \in DOMAIN ItemAt(l).own |->
                         IF Inside(l, s[1]) THEN NULL ELSE ItemAt(l).own[s]]
  BY <1>2, ResetItem
<1> DEFINE owner == [heap[l.blk] EXCEPT ![K] = Reset(l)]
<1>13. /\ DOMAIN owner = DOMAIN heap[l.blk]
       /\ \A j \in DOMAIN heap[l.blk] : owner[j] = IF j = K THEN Reset(l) ELSE heap[l.blk][j]
  BY <1>2
<1> HIDE DEF owner, K
<1>14. ASSUME NEW c, Holds(owner, c) PROVE Holds(heap[l.blk], c)
  <2>1. PICK j \in DOMAIN owner : \E s \in DOMAIN owner[j].own : owner[j].own[s] = c /\ c # NULL
    BY <1>14 DEF Holds
  <2>2. CASE j = K
    BY <2>1, <2>2, <1>2, <1>12, <1>13 DEF Holds
  <2>3. CASE j # K
    BY <2>1, <2>3, <1>13 DEF Holds
  <2> QED BY <2>2, <2>3
<1>15. ASSUME NEW c, Holds(heap[l.blk], c), c \notin R PROVE Holds(owner, c)
  <2>0. PICK j \in DOMAIN heap[l.blk] :
          \E s \in DOMAIN heap[l.blk][j].own : heap[l.blk][j].own[s] = c /\ c # NULL
    BY <1>15 DEF Holds
  <2>1. PICK s \in DOMAIN heap[l.blk][j].own : heap[l.blk][j].own[s] = c /\ c # NULL
    BY <2>0
  <2>2. CASE j = K
    <3>1. ~Inside(l, s[1])
      BY <2>1, <2>2, <1>5, <1>8, <1>15
    <3>2. s \in DOMAIN Reset(l).own /\ Reset(l).own[s] = c
      BY <3>1, <2>1, <2>2, <1>2, <1>12
    <3> QED BY <3>2, <2>1, <2>2, <1>13 DEF Holds
  <2>3. CASE j # K
    BY <2>1, <2>3, <1>13 DEF Holds
  <2> QED BY <2>2, <2>3
<1>16. \A x, c : Edge(g, x, c) => Edge(heap, x, c)
  BY <1>2, <1>11, <1>14 DEF Edge, owner
<1>17. \A x, c : Edge(heap, x, c) /\ x \notin R /\ c \notin R => Edge(g, x, c)
  BY <1>2, <1>11, <1>15 DEF Edge, owner
<1>18. ASSUME NEW x, InTree(g, x) PROVE InTree(heap, x)
  <2>1. \A S : Spans(heap, S) => Spans(g, S)
    BY <1>16 DEF Spans
  <2> QED BY <2>1, <1>1, <1>18, TreeSpans
<1>19. ASSUME NEW x, InTree(heap, x), x \notin R PROVE InTree(g, x)
  <2>1. x \in Block
    BY <1>19, TreeSpans
  <2> SUFFICES ASSUME NEW S \in SUBSET Block, Spans(g, S) PROVE x \in S
    BY <2>1, <1>1, TreeSpans
  <2> DEFINE T == S \cup R
  <2>2. T \in SUBSET Block
    BY <1>8 DEF Block
  <2>3. Spans(heap, T)
    BY <1>9, <1>17 DEF Spans
  <2> HIDE DEF T
  <2>4. x \in T
    BY <2>2, <2>3, <1>19, TreeSpans
  <2> QED BY <2>4, <1>19 DEF T
<1> QED BY <1>10, <1>11, <1>18, <1>19 DEF Lost

LEMMA TreeKnown ==
  ASSUME NEW r, WellFormed(heap, r)
  PROVE  Lost(heap) = DOMAIN heap \ Tree
<1>1. /\ \A b, i, s, c : Owns(heap, b, i, s, c) => c \in Addr
      /\ Typed(heap)
  BY DEF WellFormed, PointersFit, Typed, Block
<1>2. ASSUME NEW x \in Tree PROVE InTree(heap, x)
  <2>1. x = Base \/ x \in Reachable(Pointers(heap[Base][1]))
    BY DEF Tree
  <2>2. CASE x # Base
    <3> SUFFICES ASSUME NEW S \in SUBSET Addr,
                        \A s, c : Owns(heap, Base, 1, s, c) => c \in S,
                        \A b \in S : \A i, s, c : Owns(heap, b, i, s, c) => c \in S
                 PROVE  x \in S
      BY <2>1, <2>2 DEF InTree, Reachable
    <3>1. Pointers(heap[Base][1]) \subseteq S
      BY <1>1 DEF Pointers, Owns, Typed
    <3>2. \A y, i, s, c : y \in S /\ Owns(heap, y, i, s, c) => c \in S
      OBVIOUS
    <3>3. Reachable(Pointers(heap[Base][1])) \subseteq S
      BY <3>1, <3>2, ReachesLeast
    <3> QED BY <3>3, <2>1, <2>2
  <2> QED BY <2>2 DEF InTree
<1>3. \A x : InTree(heap, x) => x \in Tree
  BY <1>1, TreeIs
<1> QED BY <1>2, <1>3 DEF Lost

(* The walks of a command and of a load are in the tree. *)
WalkInTree ==
  /\ phase = "exec" => InTree(heap, at.blk)
  /\ phase = "load" => InTree(heap, at.blk) /\ \A k \in 1 .. Len(cmd) : InTree(heap, cmd[k].blk)

LosesNothing ==
  /\ WalkInTree'
  /\ phase # "exec" \/ op.kind # "del" => Lost(heap') = Lost(heap) \/ Stopped

LEMMA QuietStep ==
  ASSUME UNCHANGED heap, phase' \notin {"exec", "load"} PROVE LosesNothing
BY DEF LosesNothing, WalkInTree

LEMMA EvalLoses ==
  ASSUME NEW r, Inv(r), WalkInTree, phase = "eval", Next PROVE LosesNothing
<1>1. InTree(heap, ctxt.blk)
  BY ContextRanked
<1>2. UNCHANGED heap /\ (phase' \notin {"exec", "load"} \/ (phase' = "exec" /\ at' = ctxt))
  BY DEF Next, StartCmd, EvalReject, EvalSet, EvalSetDef, EvalPrt, EvalEmpty, EvalAdd,
         EvalDel, EvalContained, EvalOwned, EvalWord, Accept, Names, AtPrompt, ExecIdWord, ExecSet,
         ExecSetDef, ExecPrt, ExecEmpty, ExecAdd, ExecDel, ExecOp, ResetCtxt, LoadStart, LoadUp,
         LoadEnd, LoadFail, LoadOwned, LoadContained, Loading, Restart, Stopped
<1> QED BY <1>1, <1>2 DEF LosesNothing, WalkInTree

LEMMA ExecIdWordLoses ==
  ASSUME NEW r, Inv(r), WalkInTree, ExecIdWord PROVE LosesNothing
<1> SUFFICES ASSUME NEW a, NEW i, a = Head(cmd).aggr, i = Head(cmd).idx
             PROVE  LosesNothing
  OBVIOUS
<1>1. /\ phase = "exec" /\ cmd # <<>> /\ WellFormed(heap, r) /\ PointsIn(heap, at)
      /\ InTree(heap, at.blk)
  BY DEF ExecIdWord, Inv, Executing, WalkInTree
<1>2. a \in ComponentsOf(at.desc) /\ i \in Nat /\ i <= CountOf(at, a) /\ CountOf(at, a) \in Nat
  BY <1>1, WordLeads
<1>3. CASE i < CountOf(at, a) /\ at' = Below(at, a, i) /\ UNCHANGED <<heap, phase>>
  <2>1. InTree(heap, at'.blk)
    BY <1>1, <1>2, <1>3, BelowPoints
  <2> QED BY <2>1, <1>1, <1>3 DEF LosesNothing, WalkInTree
<1>4. ASSUME CanAdd(at, a), NEW b \in Targets(at, a), i = CountOf(at, a),
             heap' = Added(at, a, i, b), at' = Place(Component[a], b, i, <<>>), UNCHANGED phase
      PROVE  LosesNothing
  <2>1. a \in ComponentsOf(at.desc) \cap Owned /\ i \in 0 .. CountOf(at, a)
    BY <1>2, <1>4 DEF CanAdd
  <2>2. InTree(heap', b) /\ Lost(heap') = Lost(heap)
    BY <2>1, <1>1, <1>4, AddedTree
  <2>3. at'.blk = b
    BY <1>4 DEF Place
  <2> QED BY <2>2, <2>3, <1>1, <1>4 DEF LosesNothing, WalkInTree
<1>5. CASE \E why \in {"starved", "full", "missing"} : Stop(why)
  BY <1>5, QuietStep DEF Stop
<1> QED BY <1>3, <1>4, <1>5 DEF ExecIdWord

LEMMA ExecActionLoses ==
  ASSUME NEW r, Inv(r), WalkInTree, ExecSet \/ ExecSetDef \/ ExecPrt \/ ExecEmpty \/ ExecAdd \/ ExecDel
  PROVE  LosesNothing
<1>1. phase = "exec" /\ cmd = <<>> /\ phase' = "prompt"
  BY DEF ExecSet, ExecSetDef, ExecPrt, ExecEmpty, ExecAdd, ExecDel, ExecOp, AtPrompt
<1>2. /\ WellFormed(heap, r) /\ PointsIn(heap, at) /\ OpFits(at.desc)
      /\ op.kind # "set" => OpFitsAt(at)
  BY <1>1, AtOp
<1>3. InTree(heap, at.blk)
  BY <1>1 DEF WalkInTree
<1>4. ASSUME Lost(heap') = Lost(heap) PROVE LosesNothing
  BY <1>1, <1>4 DEF LosesNothing, WalkInTree
<1>5. CASE ExecSet
  <2>1. heap' = Written(heap, at, op.val) /\ at.desc \in Simple /\ op.val \in Value
    BY <1>2, <1>5 DEF ExecSet, ExecOp, OpFits
  <2>2. Lost(heap') = Lost(heap)
    BY <2>1, <1>2, WrittenTree
  <2> QED BY <2>2, <1>4
<1>6. CASE ExecSetDef
  <2>1. Lost(heap') = Lost(heap)
    BY <1>2, <1>3, <1>6, DefaultedTree DEF ExecSetDef
  <2> QED BY <2>1, <1>4
<1>7. CASE ExecAdd
  <2>1. /\ op.aggr \in ComponentsOf(at.desc) \cap Owned /\ op.idx \in Nat
        /\ op.idx <= CountOf(at, op.aggr)
    BY <1>2, <1>7 DEF ExecAdd, ExecOp, OpFits, OpFitsAt
  <2>2. CountOf(at, op.aggr) \in Nat
    BY <2>1, <1>2, OwnedBlock
  <2>3. op.idx \in 0 .. CountOf(at, op.aggr)
    BY <2>1, <2>2
  <2>4. ASSUME NEW b \in Targets(at, op.aggr), heap' = Added(at, op.aggr, op.idx, b)
        PROVE  Lost(heap') = Lost(heap)
    BY <2>1, <2>3, <2>4, <1>2, <1>3, AddedTree
  <2>5. Lost(heap') = Lost(heap)
    BY <2>4, <1>7 DEF ExecAdd
  <2> QED BY <2>5, <1>4
<1>8. CASE ExecDel
  BY <1>1, <1>8 DEF LosesNothing, WalkInTree, ExecDel, ExecOp
<1>9. CASE ExecPrt \/ ExecEmpty
  BY <1>4, <1>9 DEF ExecPrt, ExecEmpty
<1> QED BY <1>5, <1>6, <1>7, <1>8, <1>9

LEMMA LoadsLoses ==
  ASSUME NEW r, Inv(r), WalkInTree, phase = "load", NEW h, NEW q, WellFormed(h, q),
         Lost(h) = Lost(heap),
         InTree(h, at.blk), \A k \in 1 .. Len(cmd) : InTree(h, cmd[k].blk),
         NEW l, PointsIn(h, l), InTree(h, l.blk), NEW v \in Value, Loads(h, l, v)
  PROVE  LosesNothing
<1>1. \E S : cmd \in Seq(S)
  BY DEF Inv, LoadPath
<1>2. CASE l.desc \in Simple
  <2>1. heap' = Written(h, l, v) /\ UNCHANGED <<at, cmd, phase>>
    BY <1>2 DEF Loads
  <2>2. (\A x : InTree(heap', x) <=> InTree(h, x)) /\ Lost(heap') = Lost(heap)
    BY <2>1, <1>2, WrittenTree
  <2> QED BY <2>1, <2>2 DEF LosesNothing, WalkInTree
<1>3. CASE l.desc \notin Simple
  <2>1. heap' = h /\ at' = l /\ cmd' = Append(cmd, at) /\ UNCHANGED phase
    BY <1>3 DEF Loads
  <2> DEFINE w == Append(cmd, at)
  <2>2. Len(w) = Len(cmd) + 1 /\ Len(cmd) \in Nat /\ (\A k \in 1 .. Len(cmd) : w[k] = cmd[k]) /\ w[Len(cmd) + 1] = at
    BY <1>1
  <2> HIDE DEF w
  <2>3. \A k \in 1 .. Len(w) : InTree(h, w[k].blk)
    <3> SUFFICES ASSUME NEW k \in 1 .. Len(w) PROVE InTree(h, w[k].blk)
      OBVIOUS
    <3>1. CASE k \in 1 .. Len(cmd)
      BY <3>1, <2>2
    <3>2. CASE k = Len(cmd) + 1
      BY <3>2, <2>2
    <3> QED BY <3>1, <3>2, <2>2
  <2>4. cmd' = w
    BY <2>1 DEF w
  <2> QED BY <2>1, <2>3, <2>4 DEF LosesNothing, WalkInTree
<1> QED BY <1>2, <1>3

LEMMA LoadContainedLoses ==
  ASSUME NEW r, Inv(r), WalkInTree, NEW a, NEW i \in Nat, NEW v \in Value, LoadContained(a, i, v)
  PROVE  LosesNothing
<1>1. /\ phase = "load" /\ a \in ComponentsOf(at.desc) /\ a \notin Owned /\ i < MaxCount[a]
      /\ Loads(heap, Below(at, a, i), v)
  BY DEF LoadContained, Loading
<1>2. WellFormed(heap, r) /\ PointsIn(heap, at)
  BY <1>1 DEF Inv, LoadPath
<1>3. i < CountOf(at, a)
  BY <1>1 DEF CountOf
<1>4. InTree(heap, at.blk) /\ \A k \in 1 .. Len(cmd) : InTree(heap, cmd[k].blk)
  BY <1>1 DEF WalkInTree
<1>5. PointsIn(heap, Below(at, a, i)) /\ InTree(heap, Below(at, a, i).blk)
  BY <1>1, <1>2, <1>3, <1>4, BelowPoints
<1> QED BY <1>1, <1>2, <1>4, <1>5, LoadsLoses

LEMMA LoadOwnedLoses ==
  ASSUME NEW r, Inv(r), WalkInTree, NEW a, NEW v \in Value, LoadOwned(a, v)
  PROVE  LosesNothing
<1>1. /\ phase = "load" /\ a \in ComponentsOf(at.desc) \cap Owned
  BY DEF LoadOwned, Loading, CanAdd
<1>2. /\ WellFormed(heap, r) /\ PointsIn(heap, at) /\ Len(cmd) \in Nat
      /\ \A k \in 1 .. Len(cmd) : PointsIn(heap, cmd[k]) /\ r[cmd[k].blk] <= r[at.blk]
  BY <1>1 DEF Inv, LoadPath
<1>3. r[at.blk] \in Nat /\ r[at.blk] <= r[at.blk]
  <2>1. r \in [DOMAIN heap -> Nat] /\ at.blk \in DOMAIN heap
    BY <1>2 DEF WellFormed, Ranked, PointsIn
  <2>2. \A n \in Nat : n <= n
    OBVIOUS
  <2> QED BY ONLY <2>1, <2>2
<1>4. PICK i, b : /\ i = CountOf(at, a) /\ b \in Targets(at, a)
                  /\ Loads(Added(at, a, i, b), Place(Component[a], b, i, <<>>), v)
  BY DEF LoadOwned
<1>5. i \in 0 .. CountOf(at, a)
  <2>1. CountOf(at, a) \in Nat
    BY <1>1, <1>2, OwnedBlock
  <2> QED BY <2>1, <1>4
<1> SUFFICES ASSUME NEW h, NEW l, h = Added(at, a, i, b), l = Place(Component[a], b, i, <<>>)
             PROVE  LosesNothing
  OBVIOUS
<1>6. PICK q : WellFormed(h, q) /\ Keeps(heap, r, h, q, r[at.blk]) /\ PointsIn(h, l)
  BY <1>1, <1>2, <1>4, <1>5, Adding
<1>7. InTree(heap, at.blk) /\ \A k \in 1 .. Len(cmd) : InTree(heap, cmd[k].blk)
  BY <1>1 DEF WalkInTree
<1>8. InTree(h, b) /\ Lost(h) = Lost(heap)
  BY <1>1, <1>2, <1>4, <1>5, <1>7, AddedTree
<1>9. l.blk = b
  BY DEF Place
<1>10. ASSUME NEW x, x \in DOMAIN heap, InTree(heap, x), r[x] <= r[at.blk] PROVE InTree(h, x)
  <2> SUFFICES ASSUME NEW n, n = r[at.blk] PROVE InTree(h, x)
    OBVIOUS
  <2>1. n \in Nat /\ Keeps(heap, r, h, q, n) /\ r[x] <= n
    BY <1>3, <1>6, <1>10
  <2> QED BY <2>1, <1>2, <1>10, KeptInTree
<1>11. at.blk \in DOMAIN heap /\ \A k \in 1 .. Len(cmd) : cmd[k].blk \in DOMAIN heap
  BY <1>2 DEF PointsIn
<1>12. InTree(h, at.blk) /\ \A k \in 1 .. Len(cmd) : InTree(h, cmd[k].blk)
  BY <1>2, <1>3, <1>7, <1>10, <1>11
<1> QED BY <1>1, <1>4, <1>6, <1>8, <1>9, <1>12, LoadsLoses

LEMMA FrontKeeps ==
  ASSUME NEW S, NEW w \in Seq(S), w # <<>>
  PROVE  /\ Len(w) \in Nat \ {0} /\ Last(w) = w[Len(w)]
         /\ Len(Front(w)) = Len(w) - 1 /\ \A k \in 1 .. Len(w) - 1 : Front(w)[k] = w[k]
<1>1. Len(w) \in Nat \ {0}
  OBVIOUS
<1>2. SUFFICES ASSUME NEW n, n = Len(w) - 1
               PROVE  /\ Len(SubSeq(w, 1, n)) = n
                      /\ \A k \in 1 .. n : SubSeq(w, 1, n)[k] = w[k]
  BY <1>1 DEF Front, Last
<1>3. n \in 0 .. Len(w)
  BY <1>1, <1>2
<1> QED BY <1>1, <1>3

LEMMA LoadEndsLose ==
  ASSUME NEW r, Inv(r), WalkInTree, LoadStart \/ LoadUp \/ LoadEnd \/ LoadFail
  PROVE  LosesNothing
<1>1. WellFormed(heap, r) /\ PointsIn(heap, BasePlace) /\ InTree(heap, BasePlace.blk)
  BY BasePoints DEF Inv, WellFormed
<1>2. heap' = Defaulted(BasePlace) => Lost(heap') = Lost(heap)
  BY <1>1, DefaultedTree
<1>3. CASE LoadStart
  <2>1. phase = "prompt" /\ cmd = <<>> /\ phase' = "load" /\ at' = BasePlace /\ cmd' = cmd
    BY <1>3 DEF LoadStart, Inv
  <2>2. InTree(heap', BasePlace.blk)
    BY DEF BasePlace, Place, InTree
  <2>3. Len(cmd') = 0
    BY <2>1
  <2>4. WalkInTree'
    BY <2>1, <2>2, <2>3 DEF WalkInTree
  <2> QED BY <2>4, <1>2, <1>3 DEF LosesNothing, LoadStart
<1>4. CASE LoadUp
  <2>1. /\ phase = "load" /\ cmd # <<>> /\ LoadPath(heap, r, cmd, at)
        /\ at' = Last(cmd) /\ cmd' = Front(cmd) /\ UNCHANGED <<heap, phase>>
    BY <1>4 DEF Inv, LoadUp
  <2>2. PICK S : cmd \in Seq(S)
    BY <2>1 DEF LoadPath
  <2>3. /\ Len(cmd) \in Nat \ {0} /\ Last(cmd) = cmd[Len(cmd)]
        /\ Len(Front(cmd)) = Len(cmd) - 1 /\ \A k \in 1 .. Len(cmd) - 1 : Front(cmd)[k] = cmd[k]
    BY <2>1, <2>2, FrontKeeps
  <2>4. \A k \in 1 .. Len(cmd) : InTree(heap, cmd[k].blk)
    BY <2>1 DEF WalkInTree
  <2>5. InTree(heap, Last(cmd).blk) /\ \A k \in 1 .. Len(Front(cmd)) : InTree(heap, Front(cmd)[k].blk)
    BY <2>3, <2>4
  <2> QED BY <2>1, <2>5 DEF LosesNothing, WalkInTree
<1>5. CASE LoadEnd
  BY <1>5, QuietStep DEF LoadEnd, AtPrompt
<1>6. CASE LoadFail
  BY <1>2, <1>6 DEF LosesNothing, WalkInTree, LoadFail, AtPrompt
<1> QED BY <1>3, <1>4, <1>5, <1>6

LEMMA StepLoses ==
  ASSUME NEW r, Inv(r), WalkInTree, [Next]_vars PROVE LosesNothing
<1>1. CASE UNCHANGED vars
  BY <1>1 DEF vars, LosesNothing, WalkInTree
<1>2. CASE phase = "eval" /\ Next
  BY <1>2, EvalLoses
<1>3. CASE StartCmd \/ ResetCtxt
  BY <1>3, QuietStep DEF StartCmd, ResetCtxt, AtPrompt
<1>4. CASE ExecIdWord \/ ExecSet \/ ExecSetDef \/ ExecPrt \/ ExecEmpty \/ ExecAdd \/ ExecDel
  BY <1>4, ExecIdWordLoses, ExecActionLoses
<1>5. CASE LoadStart \/ LoadUp \/ LoadEnd \/ LoadFail
  BY <1>5, LoadEndsLose
<1>6. CASE \E a \in Aggr, v \in Value : LoadOwned(a, v) \/ \E i \in Indices : LoadContained(a, i, v)
  <2>1. \A i \in Indices : i \in Nat
    BY DEF Indices
  <2> QED BY <2>1, <1>6, LoadOwnedLoses, LoadContainedLoses
<1>7. CASE Restart
  BY <1>7 DEF Restart, AtPrompt, LosesNothing, WalkInTree
<1>8. CASE phase # "eval" /\ Next
  <2>1. /\ ~EvalReject /\ ~EvalSetDef /\ ~EvalPrt /\ ~EvalEmpty /\ \A v \in Value : ~EvalSet(v)
        /\ \A a \in Aggr, n \in Number :
             ~EvalContained(a, n) /\ ~EvalOwned(a, n) /\ ~EvalAdd(a, n) /\ ~EvalDel(a, n)
    BY <1>8 DEF EvalReject, EvalSet, EvalSetDef, EvalPrt, EvalEmpty, EvalAdd,
                EvalDel, EvalContained, EvalOwned, Accept, Names
  <2> QED BY <2>1, <1>3, <1>4, <1>5, <1>6, <1>7, <1>8 DEF Next
<1> QED BY <1>1, <1>2, <1>8

-----------------------------------------------------------------------------
(* The theorems. *)

LEMMA InvAlways == Spec => []IInv
<1>1. ASSUME IInv, [Next]_vars PROVE IInv'
  BY <1>1, NextStep DEF IInv
<1> QED BY <1>1, InitIInv, PTL DEF Spec

(* What the invariant says of the properties' definitions. *)
LEMMA InvSays ==
  ASSUME IInv
  PROVE  TypeOK /\ ContextValid /\ OwnershipIsTree /\ ExecFindsItems
<1>1. PICK r : Inv(r)
  BY DEF IInv
<1>2. /\ Typed(heap) /\ PointersFit(heap) /\ OneOwner(heap) /\ at.desc \in Desc
      /\ phase \in {"prompt", "eval", "exec", "load", "starved", "full"}
      /\ phase # "load" => PointsIn(heap, ctxt) /\ InTree(heap, ctxt.blk)
  BY <1>1 DEF Inv, WellFormed
<1>3. TypeOK
  <2>1. \A b \in DOMAIN heap : heap[b] # <<>> /\ \A i \in DOMAIN heap[b] : heap[b][i] \in Items
    BY <1>2 DEF Typed
  <2> QED BY <1>2, <2>1 DEF TypeOK, Typed, Block
<1>4. ContextValid
  <2>1. \A b, i, s, c : Owns(heap, b, i, s, c) => c \in Addr
    BY <1>2 DEF PointersFit, Typed, Block
  <2>2. phase # "load" => ctxt.blk \in Tree
    BY <2>1, <1>2, TreeIs
  <2>3. phase # "load" => Points(ctxt)
    BY <1>2 DEF PointsIn, Points, ItemAt
  <2> QED BY <2>2, <2>3 DEF ContextValid
<1>5. OwnershipIsTree
  <2>1. ASSUME NEW t \in Slot, Target(t) # NULL
        PROVE  t = <<t[1], t[2], t[3]>> /\ Owns(heap, t[1], t[2], t[3], Target(t))
    <3>1. PICK b \in DOMAIN heap :
            t \in UNION {{<<b, i, s>> : s \in DOMAIN heap[b][i].own} : i \in DOMAIN heap[b]}
      BY DEF Slot
    <3>2. PICK i \in DOMAIN heap[b] : t \in {<<b, i, s>> : s \in DOMAIN heap[b][i].own}
      BY <3>1
    <3>3. PICK s \in DOMAIN heap[b][i].own : t = <<b, i, s>>
      BY <3>2
    <3> QED BY <2>1, <3>3 DEF Owns, Target
  <2>2. ASSUME NEW t \in Slot, Target(t) # NULL
        PROVE  /\ Target(t) \in DOMAIN heap
               /\ \A u \in Slot : Target(u) = Target(t) => u = t
    <3>1. Target(t) \in DOMAIN heap
      BY <2>1, <2>2, <1>2 DEF PointersFit
    <3>2. ASSUME NEW u \in Slot, Target(u) = Target(t) PROVE u = t
      <4>1. /\ t = <<t[1], t[2], t[3]>> /\ Owns(heap, t[1], t[2], t[3], Target(t))
            /\ u = <<u[1], u[2], u[3]>> /\ Owns(heap, u[1], u[2], u[3], Target(t))
        BY <2>1, <2>2, <3>2
      <4>2. u[1] = t[1] /\ u[2] = t[2] /\ u[3] = t[3]
        BY <4>1, <1>2 DEF OneOwner
      <4> QED BY <4>1, <4>2
    <3> QED BY <3>1, <3>2
  <2> QED BY <2>2 DEF OwnershipIsTree
<1>6. ExecFindsItems
  BY <1>2 DEF ExecFindsItems
<1> QED BY <1>3, <1>4, <1>5, <1>6

(* Blocks are sequences of items of the schema. *)
THEOREM ConfigManagerType == Spec => []TypeOK
BY InvAlways, InvSays, PTL

(* The context points to an item of the configuration whatever commands    *)
(* and loads were given, whatever blocks realloc moved.                    *)
THEOREM ContextIsAnItem == Spec => []ContextValid
BY InvAlways, InvSays, PTL

(* No pointer of the configuration dangles and no block has two owners.    *)
THEOREM TreeOfBlocks == Spec => []OwnershipIsTree
BY InvAlways, InvSays, PTL

(* The execution walk never meets the assert on a missing item.            *)
THEOREM WalkFindsItems == Spec => []ExecFindsItems
BY InvAlways, InvSays, PTL

(* No command moves or resizes the block the context stays in.             *)
THEOREM ContextStays == Spec => ContextPinned
<1>1. ASSUME IInv, [Next]_vars
      PROVE  [ctxt' = ctxt /\ phase # "load" /\ phase' # "load"
                => ctxt.blk \in DOMAIN heap' /\ Len(heap'[ctxt.blk]) = Len(heap[ctxt.blk])]_vars
  BY <1>1, NextStep DEF IInv, Pinned
<1> QED BY <1>1, InvAlways, PTL DEF Spec, ContextPinned

(* Only a command that sets a value adds items on its way.                 *)
THEOREM OnlySetsAddItems == Spec => OnlySetsCreate
<1>1. ASSUME IInv, [Next]_vars
      PROVE  [phase = "exec" /\ cmd # <<>> /\ op.kind # "set" => heap' = heap]_vars
  BY <1>1, NextStep DEF IInv, OnlySetsAdd
<1> QED BY <1>1, InvAlways, PTL DEF Spec, OnlySetsCreate

(* Whatever is not in the tree was put out of it by 'del': set to default, *)
(* a load and a failed load free all that the items they remove own, and   *)
(* an item that is added takes along what the others in its array own.     *)
THEOREM OnlyDelLosesItems == Spec => OnlyDelLeaks
<1>1. IInv => Lost(heap) = DOMAIN heap \ Tree
  BY TreeKnown DEF IInv, Inv
<1> DEFINE Known == Lost(heap) = DOMAIN heap \ Tree
<1>2. IInv => Known
  BY <1>1
<1>3. IInv /\ WalkInTree /\ [Next]_vars => LosesNothing
  BY StepLoses DEF IInv
<1>4. Init => WalkInTree
  BY DEF Init, WalkInTree
<1>5. IInv /\ WalkInTree /\ [Next]_vars => WalkInTree'
  BY <1>3 DEF LosesNothing
<1>6. IInv /\ WalkInTree /\ [Next]_vars /\ Known /\ Known'
        => [phase # "exec" \/ op.kind # "del"
              => (DOMAIN heap \ Tree) = (DOMAIN heap' \ Tree') \/ Stopped]_vars
  BY <1>3 DEF LosesNothing
<1> HIDE DEF Known
<1> QED BY <1>2, <1>4, <1>5, <1>6, InvAlways, PTL DEF Spec, OnlyDelLeaks

=============================================================================
