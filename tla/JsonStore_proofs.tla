-------------------------- MODULE JsonStore_proofs ---------------------------
(***************************************************************************)
(* Proofs about the JSON store.  The place between two tokens of a file is *)
(* known from what was written before it: which file, item or array it is  *)
(* in, and what may come next.  The writer and the loader are shown to be  *)
(* where these places say, whatever schema the loader has.                 *)
(***************************************************************************)
EXTENDS JsonStore, StoredTree_proofs

-----------------------------------------------------------------------------
(* The brackets of a file.  w gives each closing one the one it closes.    *)
IsOpener(t) == t.kind \in {"{", "["}
IsCloser(t) == t.kind \in {"}", "]"}
Mate(t)    == IF t.kind = "}" THEN "{" ELSE "["

Matched(F, w) ==
  \A q \in 1 .. Len(F) : IsCloser(F[q]) =>
    /\ w[q] \in 1 .. q - 1 /\ F[w[q]].kind = Mate(F[q])
    /\ \A r \in 1 .. Len(F) : IsCloser(F[r]) /\ w[r] = w[q] => r = q
    /\ \A v \in 1 .. Len(F) : v > w[q] /\ v < q /\ IsOpener(F[v]) =>
         \E r \in 1 .. Len(F) : r > v /\ r < q /\ IsCloser(F[r]) /\ w[r] = v

LEMMA BracketsAre ==
  /\ Opener["OBJECT"] = "{" /\ Opener["ARRAY"] = "["
  /\ Closer["OBJECT"] = "}" /\ Closer["ARRAY"] = "]"
BY DEF Opener, Closer

LEMMA MateIs ==
  ASSUME NEW type \in {"OBJECT", "ARRAY"}, NEW t
  PROVE  /\ t.kind = Closer[type] => IsCloser(t) /\ Mate(t) = Opener[type]
         /\ t.kind = Opener[type] => IsOpener(t) /\ ~IsCloser(t)
         /\ IsCloser(t) /\ Mate(t) = Opener[type] => t.kind = Closer[type]
         /\ Opener[type] # Closer[type]
BY BracketsAre DEF IsCloser, Mate, IsOpener

(* The tokens of one kind from o to p. *)
Those(o, p, kind) == {q \in o .. p : file[q].kind = kind}

LEMMA MinIs ==
  ASSUME NEW M \in SUBSET Nat, M # {}
  PROVE  Min(M) \in M /\ \A j \in M : Min(M) <= j
<1>1. \E i \in M : \A j \in M : i <= j
  BY SmallestNumber
<1> QED BY <1>1 DEF Min

LEMMA ThoseAre ==
  ASSUME NEW o \in Nat, NEW p \in Nat, NEW kind
  PROVE  IsFiniteSet(Those(o, p, kind)) /\ Cardinality(Those(o, p, kind)) \in Nat
<1>1. IsFiniteSet(o .. p)
  BY FS_Interval
<1>2. Those(o, p, kind) \in SUBSET (o .. p)
  BY DEF Those
<1>3. IsFiniteSet(Those(o, p, kind))
  BY <1>1, <1>2, FS_Subset
<1> QED BY <1>3, FS_CardinalityType

(* Until an opening bracket is closed every closing one is that of one     *)
(* behind it.                                                              *)
LEMMA ClosesInside ==
  ASSUME Len(file) \in Nat, NEW w, Matched(file, w), NEW o \in 1 .. Len(file), IsOpener(file[o]),
         NEW r \in 1 .. Len(file), r > o, IsCloser(file[r]),
         \A q \in 1 .. Len(file) : q < r /\ IsCloser(file[q]) => w[q] # o
  PROVE  w[r] >= o
<1> SUFFICES ASSUME w[r] < o PROVE FALSE
  <2>1. w[r] \in 1 .. r - 1
    BY DEF Matched
  <2> QED BY <2>1
<1>1. \E q \in 1 .. Len(file) : q > o /\ q < r /\ IsCloser(file[q]) /\ w[q] = o
  BY DEF Matched
<1> QED BY <1>1

(* As long as it is not closed there are more that open than that close.   *)
LEMMA OpenCount ==
  ASSUME Len(file) \in Nat, NEW w, Matched(file, w), NEW o \in 1 .. Len(file),
         NEW type \in {"OBJECT", "ARRAY"}, file[o].kind = Opener[type],
         NEW p \in 1 .. Len(file), p > o,
         \A q \in 1 .. Len(file) : q <= p /\ IsCloser(file[q]) => w[q] # o
  PROVE  Cardinality(Those(o, p, Opener[type])) # Cardinality(Those(o, p, Closer[type]))
<1> DEFINE O == Those(o, p, Opener[type])
           P == O \ {o}
           C == Those(o, p, Closer[type])
           f == [q \in C |-> w[q]]
<1>0. o \in Nat /\ p \in Nat /\ o \in O
  BY DEF Those
<1>1. IsFiniteSet(O) /\ Cardinality(O) \in Nat /\ IsFiniteSet(P) /\ Cardinality(P) = Cardinality(O) - 1
  <2>1. IsFiniteSet(O) /\ Cardinality(O) \in Nat
    BY <1>0, ThoseAre
  <2> HIDE DEF O
  <2> QED BY <2>1, <1>0, FS_RemoveElement
<1>2. IsOpener(file[o]) /\ Opener[type] # Closer[type]
  BY MateIs
<1>3. ASSUME NEW r \in C
      PROVE  r \in 1 .. Len(file) /\ r > o /\ r <= p /\ IsCloser(file[r]) /\ Mate(file[r]) = Opener[type]
  <2>1. r \in o .. p /\ file[r].kind = Closer[type]
    BY DEF Those
  <2>2. r # o
    BY <2>1, <1>2
  <2>3. IsCloser(file[r]) /\ Mate(file[r]) = Opener[type]
    BY <2>1, MateIs
  <2> QED BY <2>1, <2>2, <2>3, <1>0
<1>4. ASSUME NEW r \in C PROVE w[r] \in P
  <2>1. r \in 1 .. Len(file) /\ r > o /\ r <= p /\ IsCloser(file[r]) /\ Mate(file[r]) = Opener[type]
    BY <1>3
  <2>2. w[r] >= o
    BY <2>1, <1>2, ClosesInside
  <2>3. w[r] \in 1 .. r - 1 /\ file[w[r]].kind = Opener[type] /\ w[r] # o
    BY <2>1 DEF Matched
  <2>4. w[r] \in o .. p
    BY <2>1, <2>2, <2>3
  <2> QED BY <2>3, <2>4 DEF Those
<1>5. ASSUME NEW q \in C, NEW r \in C, w[q] = w[r] PROVE q = r
  <2>1. q \in 1 .. Len(file) /\ IsCloser(file[q]) /\ r \in 1 .. Len(file) /\ IsCloser(file[r])
    BY <1>3
  <2> QED BY <2>1, <1>5 DEF Matched
<1>6. f \in Injection(C, P)
  <2> HIDE DEF C, P
  <2>1. f \in [C -> P]
    BY <1>4
  <2>2. IsInjective(f)
    BY <1>5 DEF IsInjective
  <2> QED BY <2>1, <2>2 DEF Injection
<1>7. Cardinality(C) <= Cardinality(P)
  <2> HIDE DEF C, P, f
  <2> QED BY <1>1, <1>6, FS_Injection
<1>8. Cardinality(C) \in Nat
  BY <1>0, ThoseAre
<1> HIDE DEF C, O, P
<1>9. Cardinality(O) # Cardinality(C)
  BY <1>1, <1>7, <1>8
<1> QED BY <1>9 DEF C, O

(* At the one that closes it there are as many. *)
LEMMA CloseCount ==
  ASSUME Len(file) \in Nat, NEW w, Matched(file, w), NEW o \in 1 .. Len(file),
         NEW type \in {"OBJECT", "ARRAY"}, file[o].kind = Opener[type],
         NEW p \in 1 .. Len(file), IsCloser(file[p]), w[p] = o
  PROVE  /\ p > o /\ file[p].kind = Closer[type]
         /\ Cardinality(Those(o, p, Opener[type])) = Cardinality(Those(o, p, Closer[type]))
<1> DEFINE O == Those(o, p, Opener[type])
           C == Those(o, p, Closer[type])
           f == [q \in C |-> w[q]]
<1>0. o \in Nat /\ p \in Nat /\ p > o /\ file[p].kind = Closer[type]
  <2>1. o \in 1 .. p - 1 /\ Opener[type] = Mate(file[p])
    BY DEF Matched
  <2>2. file[p].kind = Closer[type]
    BY <2>1, MateIs
  <2> QED BY <2>1, <2>2
<1>2. IsOpener(file[o]) /\ Opener[type] # Closer[type]
  BY MateIs
<1>a. ASSUME NEW q \in 1 .. Len(file), IsCloser(file[q]), w[q] = o PROVE q = p
  BY <1>a DEF Matched
<1>3. ASSUME NEW r \in C
      PROVE  r \in 1 .. Len(file) /\ r > o /\ r <= p /\ IsCloser(file[r]) /\ Mate(file[r]) = Opener[type]
  <2>1. r \in o .. p /\ file[r].kind = Closer[type]
    BY DEF Those
  <2>2. r # o
    BY <2>1, <1>2
  <2>3. IsCloser(file[r]) /\ Mate(file[r]) = Opener[type]
    BY <2>1, MateIs
  <2> QED BY <2>1, <2>2, <2>3, <1>0
<1>4. ASSUME NEW r \in C PROVE w[r] \in O
  <2>1. r \in 1 .. Len(file) /\ r > o /\ r <= p /\ IsCloser(file[r]) /\ Mate(file[r]) = Opener[type]
    BY <1>3
  <2>0. ASSUME NEW q \in 1 .. Len(file), q < r, IsCloser(file[q]) PROVE w[q] # o
    BY <2>0, <2>1, <1>a, <1>0
  <2>2. w[r] >= o
    BY <2>0, <2>1, <1>2, ClosesInside
  <2>3. w[r] \in 1 .. r - 1 /\ file[w[r]].kind = Opener[type]
    BY <2>1 DEF Matched
  <2>4. w[r] \in o .. p
    BY <2>1, <2>2, <2>3
  <2> QED BY <2>3, <2>4 DEF Those
<1>5. ASSUME NEW q \in C, NEW r \in C, w[q] = w[r] PROVE q = r
  <2>1. q \in 1 .. Len(file) /\ IsCloser(file[q]) /\ r \in 1 .. Len(file) /\ IsCloser(file[r])
    BY <1>3
  <2> QED BY <2>1, <1>5 DEF Matched
<1>6. ASSUME NEW v \in O PROVE \E r \in C : w[r] = v
  <2>1. v \in o .. p /\ file[v].kind = Opener[type] /\ v \in 1 .. Len(file)
    BY <1>0 DEF Those
  <2>2. CASE v = o
    <3>1. p \in C
      BY <1>0 DEF Those
    <3> QED BY <3>1, <2>2
  <2>3. CASE v # o
    <3>1. v > o /\ v < p /\ IsOpener(file[v])
      <4>1. IsOpener(file[v]) /\ v # p
        BY <2>1, <1>0, MateIs
      <4> QED BY <2>1, <2>3, <4>1, <1>0
    <3>2. PICK r \in 1 .. Len(file) : r > v /\ r < p /\ IsCloser(file[r]) /\ w[r] = v
      BY <2>1, <3>1 DEF Matched
    <3>3. Opener[type] = Mate(file[r])
      BY <2>1, <3>2 DEF Matched
    <3>4. file[r].kind = Closer[type] /\ r \in o .. p
      <4>1. file[r].kind = Closer[type]
        BY <3>2, <3>3, MateIs
      <4> QED BY <2>1, <3>1, <3>2, <4>1, <1>0
    <3> QED BY <3>2, <3>4 DEF Those
  <2> QED BY <2>2, <2>3
<1>7. f \in Bijection(C, O)
  <2> HIDE DEF C, O
  <2>1. f \in [C -> O]
    BY <1>4
  <2>2. IsInjective(f)
    BY <1>5 DEF IsInjective
  <2>3. \A v \in O : \E r \in C : f[r] = v
    BY <1>6
  <2> QED BY <2>1, <2>2, <2>3 DEF Injection, Surjection, Bijection
<1>8. IsFiniteSet(C)
  BY <1>0, ThoseAre
<1>9. Cardinality(O) = Cardinality(C)
  <2> HIDE DEF C, O, f
  <2> QED BY <1>7, <1>8, FS_Bijection DEF ExistsBijection
<1> QED BY <1>0, <1>9

(* toCloser goes behind the bracket that closes, or to the end.            *)
LEMMA ClosedIs ==
  ASSUME Len(file) \in Nat, NEW w, Matched(file, w), NEW o \in 1 .. Len(file),
         NEW type \in {"OBJECT", "ARRAY"}, file[o].kind = Opener[type]
  PROVE  \/ Closed(o, type) = Past
         \/ \E q \in 1 .. Len(file) : q > o /\ file[q].kind = Closer[type] /\ IsCloser(file[q]) /\ w[q] = o
                                    /\ Closed(o, type) = q + 1
<1> DEFINE ends == {p \in o + 1 .. Len(file) :
                     Cardinality(Those(o, p, Opener[type])) = Cardinality(Those(o, p, Closer[type]))}
<1>1. Closed(o, type) = IF ends = {} THEN Past ELSE Min(ends) + 1
  BY DEF Closed, Those
<1> SUFFICES ASSUME ends # {}
             PROVE  \E q \in 1 .. Len(file) : q > o /\ file[q].kind = Closer[type] /\ IsCloser(file[q]) /\ w[q] = o
                                    /\ Min(ends) = q
  BY <1>1
<1>2. Min(ends) \in ends /\ \A j \in ends : Min(ends) <= j
  <2>1. ends \in SUBSET Nat
    OBVIOUS
  <2> HIDE DEF ends
  <2> QED BY <2>1, MinIs
<1> DEFINE m == Min(ends)
<1>3. m \in 1 .. Len(file) /\ m > o
      /\ Cardinality(Those(o, m, Opener[type])) = Cardinality(Those(o, m, Closer[type]))
  BY <1>2
<1> HIDE DEF m
<1>4. PICK q \in 1 .. Len(file) : q <= m /\ IsCloser(file[q]) /\ w[q] = o
  BY <1>3, OpenCount
<1>5. q > o /\ file[q].kind = Closer[type]
      /\ Cardinality(Those(o, q, Opener[type])) = Cardinality(Those(o, q, Closer[type]))
  BY <1>4, CloseCount
<1>6. q \in ends
  BY <1>5
<1>7. q = m
  BY <1>2, <1>3, <1>4, <1>6 DEF m
<1> QED BY <1>4, <1>5, <1>7 DEF m

-----------------------------------------------------------------------------
(* What is being written or read: the file, the object of an item, or the  *)
(* array of a component.                                                   *)
Frame(of, p, c)  == [of |-> of, path |-> p, comp |-> c]
Outer            == Frame("file", <<>>, Base)
ItemFrame(p)     == Frame("item", p, Base)
ArrayFrame(p, c) == Frame("array", p, c)

TypeOf(f) == IF f.of = "array" THEN "ARRAY" ELSE "OBJECT"

Composites(S) == {p \in Kept(S) : CompOf(p).desc \in DOMAIN Schema}

Legal(S, f) ==
  \/ f = Outer
  \/ \E p \in Composites(S) :
       f = ItemFrame(p) \/ \E c \in Parts(Schema, p) : c.max > 1 /\ f = ArrayFrame(p, c)

(* The one it is in, and the index behind it there.                        *)
Parent(f) ==
  IF f.of = "array" THEN ItemFrame(f.path)
  ELSE IF f.path = <<>> THEN Outer
  ELSE IF CompOf(f.path).max > 1 THEN ArrayFrame(Front(f.path), CompOf(f.path))
  ELSE ItemFrame(Front(f.path))
Following(f) == IF f.of = "item" /\ f.path # <<>> THEN Last(f.path)[2] + 1 ELSE 1

PathIn(f, c, k) == IF f.of = "file" THEN <<>> ELSE Below(f.path, c, k)

(* Between two tokens: in what, and what may come next.                    *)
Place(f, mode, c, k) == [in |-> f, mode |-> mode, comp |-> c, idx |-> k]
Start        == Place(Outer, "start", Base, 0)
First(f)     == Place(f, "first", Base, 0)
Later(f, k)  == Place(f, "after", Base, k)
Again(f, k)  == Place(f, "next", Base, k)
Awaits(f, c) == Place(f, "value", c, 0)
Finish       == Place(Outer, "end", Base, 0)

(* The item k of component c may be here. *)
Allowed(l, c, k) ==
  \/ l.in.of = "file" /\ l = Awaits(l.in, c) /\ c = Base /\ k = 0
  \/ l.in.of = "item" /\ l = Awaits(l.in, c) /\ c \in Parts(Schema, l.in.path) /\ c.max = 1 /\ k = 0
  \/ /\ l.in.of = "array" /\ c = l.in.comp /\ l.mode \in {"first", "next"}
     /\ k \in Nat /\ l.idx <= k /\ k < c.max /\ (Packed => k = l.idx)

BeginsFile(t, l, m) == t = Mark("{") /\ l = Start /\ m = First(Outer)
BeginsItem(S, t, l, m) ==
  \E c \in Known, k \in Nat :
    /\ Allowed(l, c, k) /\ c.desc # Simple /\ t = Mark("{")
    /\ PathIn(l.in, c, k) \in Composites(S) /\ m = First(ItemFrame(PathIn(l.in, c, k)))
BeginsArray(t, l, m) ==
  \E c \in Known :
    /\ l.in.of = "item" /\ l = Awaits(l.in, c) /\ c \in Parts(Schema, l.in.path) /\ c.max > 1
    /\ t = Mark("[") /\ m = First(ArrayFrame(l.in.path, c))
GivesName(t, l, m) ==
  \E c \in Known :
    /\ t = NameToken(c) /\ m = Awaits(l.in, c) /\ l.mode \in {"first", "next"}
    /\ (l.in = Outer /\ c = Base) \/ (l.in.of = "item" /\ c \in Parts(Schema, l.in.path))
GivesValue(S, t, l, m) ==
  \E c \in Known, k \in Nat :
    /\ Allowed(l, c, k) /\ c.desc = Simple
    /\ t = Token("value", PathIn(l.in, c, k)) /\ PathIn(l.in, c, k) \in Kept(S)
    /\ m = Later(l.in, k + 1)
Separates(t, l, m) ==
  /\ t = Mark(",") /\ l.mode = "after" /\ l.in # Outer /\ m = Again(l.in, l.idx)
  /\ l.in.of = "array" => l.idx < l.in.comp.max
Ends(t, l, m) ==
  /\ t = Mark(Closer[TypeOf(l.in)])
  /\ l.mode = "after" \/ (l.mode = "first" /\ l.in.of # "array")
  /\ m = IF l.in = Outer THEN Finish ELSE Later(Parent(l.in), Following(l.in))

Follows(S, l, t, m) ==
  /\ Legal(S, m.in)
  /\ \/ BeginsFile(t, l, m) \/ BeginsItem(S, t, l, m) \/ BeginsArray(t, l, m)
     \/ GivesName(t, l, m) \/ GivesValue(S, t, l, m) \/ Separates(t, l, m) \/ Ends(t, l, m)

Tokens == [kind : {"{", "}", "[", "]", ",", "name", "value"}, val : Seq(Steps)]

(* The tokens of a file, with the places between them, are what a save of  *)
(* configuration S has written.                                            *)
Text(S, F, lab, w) ==
  /\ F \in Seq(Tokens)
  /\ lab[1] = Start
  /\ \A i \in 1 .. Len(F) : Follows(S, lab[i], F[i], lab[i + 1])
  /\ Matched(F, w)
  /\ \A q \in 1 .. Len(F) : IsCloser(F[q]) => lab[w[q] + 1].in = lab[q].in

(* The brackets that are open, from the outermost on.                      *)
Unclosed(F, w, op) ==
  /\ op \in Seq(Nat)
  /\ \A j \in 1 .. Len(op) : op[j] \in 1 .. Len(F) /\ IsOpener(F[op[j]])
  /\ \A i, j \in 1 .. Len(op) : i < j => op[i] < op[j]
  /\ \A j \in 1 .. Len(op) : \A q \in 1 .. Len(F) : IsCloser(F[q]) => w[q] # op[j]
  /\ \A v \in 1 .. Len(F) : IsOpener(F[v]) =>
       \/ \E j \in 1 .. Len(op) : op[j] = v
       \/ \E q \in 1 .. Len(F) : IsCloser(F[q]) /\ w[q] = v

Framed(lab, op, fr) ==
  /\ Len(fr) = Len(op)
  /\ \A j \in 1 .. Len(op) : lab[op[j] + 1].in = fr[j]

(* A save that is in the frames fr has written F, and is at place l.       *)
Written(S, F, fr, l) ==
  \E lab, w, op :
    Text(S, F, lab, w) /\ Unclosed(F, w, op) /\ Framed(lab, op, fr) /\ lab[Len(F) + 1] = l

Jots(F, t, G) ==
  /\ G \in Seq(Tokens) /\ Len(F) \in Nat /\ Len(G) = Len(F) + 1 /\ G[Len(F) + 1] = t
  /\ \A i \in 1 .. Len(F) : G[i] = F[i]

LEMMA JotsIs ==
  ASSUME NEW F \in Seq(Tokens), NEW t \in Tokens
  PROVE  Jots(F, t, Append(F, t))
BY DEF Jots

LEMMA KindIs ==
  ASSUME NEW k, NEW v, NEW c
  PROVE  /\ Token(k, v).kind = k /\ Token(k, v).val = v /\ Mark(k).kind = k
         /\ NameToken(c).kind = "name"
BY DEF Token, Mark, NameToken

LEMMA TokensAre ==
  /\ \A k \in {"{", "}", "[", "]", ","} : Mark(k) \in Tokens /\ Mark(k).kind = k
  /\ \A c \in Known : NameToken(c) \in Tokens /\ NameToken(c).kind = "name"
  /\ \A p \in Seq(Steps) : Token("value", p) \in Tokens /\ Token("value", p).kind = "value"
                           /\ Token("value", p).val = p
<1>1. ASSUME NEW k \in {"{", "}", "[", "]", ","} PROVE Mark(k) \in Tokens /\ Mark(k).kind = k
  <2>1. <<>> \in Seq(Steps)
    BY EmptySeq
  <2> QED BY <2>1 DEF Mark, Token, Tokens, Group
<1>2. ASSUME NEW c \in Known PROVE NameToken(c) \in Tokens /\ NameToken(c).kind = "name"
  <2>1. <<c.name, 0>> \in Steps
    BY DEF Steps
  <2>2. <<<<c.name, 0>>>> \in Seq(Steps)
    BY <2>1
  <2> QED BY <2>2 DEF NameToken, Token, Tokens
<1>3. ASSUME NEW p \in Seq(Steps)
      PROVE  Token("value", p) \in Tokens /\ Token("value", p).kind = "value" /\ Token("value", p).val = p
  BY DEF Token, Tokens
<1> QED BY <1>1, <1>2, <1>3

(* What a token is tells what it does. *)
LEMMA FollowsKind ==
  ASSUME NEW S, NEW l, NEW t, NEW m, Follows(S, l, t, m)
  PROVE  /\ t.kind = "{" => BeginsFile(t, l, m) \/ BeginsItem(S, t, l, m)
         /\ t.kind = "[" => BeginsArray(t, l, m)
         /\ t.kind = "name" => GivesName(t, l, m)
         /\ t.kind = "value" => GivesValue(S, t, l, m)
         /\ t.kind = "," => Separates(t, l, m)
         /\ IsCloser(t) => Ends(t, l, m)
         /\ t.kind \in {"{", "}", "[", "]", ",", "name", "value"}
<1> USE BracketsAre, KindIs DEF IsCloser
<1>1. CASE BeginsFile(t, l, m)
  <2>1. t.kind = "{"
    BY <1>1 DEF BeginsFile
  <2> QED BY <2>1, <1>1
<1>2. CASE BeginsItem(S, t, l, m)
  <2>1. t.kind = "{"
    BY <1>2 DEF BeginsItem
  <2> QED BY <2>1, <1>2
<1>3. CASE BeginsArray(t, l, m)
  <2>1. t.kind = "["
    BY <1>3 DEF BeginsArray
  <2> QED BY <2>1, <1>3
<1>4. CASE GivesName(t, l, m)
  <2>1. t.kind = "name"
    <3>1. PICK c \in Known : t = NameToken(c)
      BY <1>4 DEF GivesName
    <3> QED BY ONLY <3>1, KindIs
  <2> QED BY <2>1, <1>4
<1>5. CASE GivesValue(S, t, l, m)
  <2>1. t.kind = "value"
    <3>1. PICK c \in Known, k \in Nat : t = Token("value", PathIn(l.in, c, k))
      BY <1>5 DEF GivesValue
    <3> QED BY ONLY <3>1, KindIs
  <2> QED BY <2>1, <1>5
<1>6. CASE Separates(t, l, m)
  <2>1. t.kind = ","
    BY <1>6 DEF Separates
  <2> QED BY <2>1, <1>6
<1>7. CASE Ends(t, l, m)
  <2>1. TypeOf(l.in) \in {"OBJECT", "ARRAY"}
    BY DEF TypeOf
  <2>2. t.kind = Closer[TypeOf(l.in)]
    BY <1>7 DEF Ends
  <2>3. t.kind = "}" \/ t.kind = "]"
    BY <2>1, <2>2
  <2> QED BY <2>3, <1>7
<1> QED BY <1>1, <1>2, <1>3, <1>4, <1>5, <1>6, <1>7 DEF Follows

-----------------------------------------------------------------------------
(* One token more. *)
LEMMA JotsKinds ==
  ASSUME NEW F, NEW t, NEW G, Jots(F, t, G)
  PROVE  /\ Len(F) \in Nat /\ Len(G) = Len(F) + 1 /\ G[Len(G)] = t
         /\ \A i \in 1 .. Len(F) : i \in 1 .. Len(G) /\ G[i] = F[i]
         /\ \A i \in 1 .. Len(G) : i = Len(G) \/ i \in 1 .. Len(F)
BY DEF Jots

LEMMA MatchedPlain ==
  ASSUME NEW F, NEW t, NEW G, Jots(F, t, G), NEW w, Matched(F, w), ~IsCloser(t)
  PROVE  Matched(G, w)
<1>1. Len(F) \in Nat /\ Len(G) = Len(F) + 1 /\ G[Len(G)] = t
  BY JotsKinds
<1>2. \A i \in 1 .. Len(F) : i \in 1 .. Len(G) /\ G[i] = F[i]
  BY JotsKinds
<1>3. \A i \in 1 .. Len(G) : i = Len(G) \/ i \in 1 .. Len(F)
  BY JotsKinds
<1>4. SUFFICES ASSUME NEW q \in 1 .. Len(G), IsCloser(G[q])
      PROVE  /\ w[q] \in 1 .. q - 1 /\ G[w[q]].kind = Mate(G[q])
             /\ \A r \in 1 .. Len(G) : IsCloser(G[r]) /\ w[r] = w[q] => r = q
             /\ \A v \in 1 .. Len(G) : v > w[q] /\ v < q /\ IsOpener(G[v]) =>
                  \E r \in 1 .. Len(G) : r > v /\ r < q /\ IsCloser(G[r]) /\ w[r] = v
  BY DEF Matched
<1>5. \A r \in 1 .. Len(G) : IsCloser(G[r]) => r \in 1 .. Len(F) /\ IsCloser(F[r])
  BY <1>1, <1>2, <1>3
<1>6. q \in 1 .. Len(F) /\ IsCloser(F[q]) /\ G[q] = F[q]
  BY <1>2, <1>4, <1>5
<1>7. w[q] \in 1 .. q - 1 /\ F[w[q]].kind = Mate(F[q])
  BY <1>6 DEF Matched
<1>8. G[w[q]].kind = Mate(G[q])
  BY <1>1, <1>2, <1>6, <1>7
<1>9. ASSUME NEW r \in 1 .. Len(G), IsCloser(G[r]), w[r] = w[q] PROVE r = q
  BY <1>5, <1>6, <1>9 DEF Matched
<1>10. ASSUME NEW v \in 1 .. Len(G), v > w[q], v < q, IsOpener(G[v])
       PROVE  \E r \in 1 .. Len(G) : r > v /\ r < q /\ IsCloser(G[r]) /\ w[r] = v
  <2>1. v \in 1 .. Len(F)
    BY <1>1, <1>6, <1>10
  <2>2. IsOpener(F[v])
    BY <1>2, <1>10, <2>1
  <2>3. PICK r \in 1 .. Len(F) : r > v /\ r < q /\ IsCloser(F[r]) /\ w[r] = v
    BY <1>6, <1>10, <2>1, <2>2 DEF Matched
  <2> QED BY <1>2, <2>3
<1> QED BY <1>7, <1>8, <1>9, <1>10

LEMMA UnclosedPlain ==
  ASSUME NEW F, NEW t, NEW G, Jots(F, t, G), NEW w, NEW op, Unclosed(F, w, op), ~IsCloser(t), ~IsOpener(t)
  PROVE  Unclosed(G, w, op)
<1>1. Len(F) \in Nat /\ Len(G) = Len(F) + 1 /\ G[Len(G)] = t
  BY JotsKinds
<1>2. \A i \in 1 .. Len(F) : i \in 1 .. Len(G) /\ G[i] = F[i]
  BY JotsKinds
<1>3. \A i \in 1 .. Len(G) : i = Len(G) \/ i \in 1 .. Len(F)
  BY JotsKinds
<1>5. \A r \in 1 .. Len(G) : IsCloser(G[r]) => r \in 1 .. Len(F) /\ IsCloser(F[r])
  BY <1>1, <1>2, <1>3
<1>6. \A r \in 1 .. Len(G) : IsOpener(G[r]) => r \in 1 .. Len(F) /\ IsOpener(F[r])
  BY <1>1, <1>2, <1>3
<1>7. \A j \in 1 .. Len(op) : op[j] \in 1 .. Len(G) /\ IsOpener(G[op[j]])
  BY <1>2 DEF Unclosed
<1>8. ASSUME NEW v \in 1 .. Len(G), IsOpener(G[v])
      PROVE  \/ \E j \in 1 .. Len(op) : op[j] = v
             \/ \E q \in 1 .. Len(G) : IsCloser(G[q]) /\ w[q] = v
  <2>1. v \in 1 .. Len(F) /\ IsOpener(F[v])
    BY <1>6, <1>8
  <2>2. \/ \E j \in 1 .. Len(op) : op[j] = v
        \/ \E q \in 1 .. Len(F) : IsCloser(F[q]) /\ w[q] = v
    BY <2>1 DEF Unclosed
  <2> QED BY <1>2, <2>2
<1> QED BY <1>5, <1>7, <1>8 DEF Unclosed

LEMMA UnclosedOpen ==
  ASSUME NEW F, NEW t, NEW G, Jots(F, t, G), NEW w, Matched(F, w), NEW op, Unclosed(F, w, op), IsOpener(t)
  PROVE  Unclosed(G, w, Append(op, Len(G)))
<1>1. Len(F) \in Nat /\ Len(G) = Len(F) + 1 /\ G[Len(G)] = t
  BY JotsKinds
<1>2. \A i \in 1 .. Len(F) : i \in 1 .. Len(G) /\ G[i] = F[i]
  BY JotsKinds
<1>3. \A i \in 1 .. Len(G) : i = Len(G) \/ i \in 1 .. Len(F)
  BY JotsKinds
<1>4. ~IsCloser(t)
  BY DEF IsCloser, IsOpener
<1>5. \A r \in 1 .. Len(G) : IsCloser(G[r]) => r \in 1 .. Len(F) /\ IsCloser(F[r])
  BY <1>1, <1>2, <1>3, <1>4
<1> DEFINE n == Len(G)
           up == Append(op, n)
           m == Len(op)
<1>6. op \in Seq(Nat) /\ n \in Nat /\ m \in Nat
  BY <1>1 DEF Unclosed
<1>7. up \in Seq(Nat) /\ Len(up) = m + 1 /\ up[m + 1] = n /\ \A j \in 1 .. m : up[j] = op[j]
  <2> HIDE DEF n
  <2> QED BY <1>6
<1>8. \A j \in 1 .. m : op[j] \in 1 .. Len(F) /\ IsOpener(F[op[j]])
  BY DEF Unclosed
<1>9. \A j \in 1 .. m + 1 : j = m + 1 \/ j \in 1 .. m
  BY <1>6
<1> HIDE DEF up, m
<1>10. ASSUME NEW j \in 1 .. m + 1 PROVE up[j] \in 1 .. n /\ IsOpener(G[up[j]])
  <2>1. CASE j = m + 1
    BY <1>1, <1>7, <2>1
  <2>2. CASE j \in 1 .. m
    BY <1>2, <1>7, <1>8, <2>2
  <2> QED BY <1>9, <2>1, <2>2
<1>11. ASSUME NEW i \in 1 .. m + 1, NEW j \in 1 .. m + 1, i < j PROVE up[i] < up[j]
  <2>1. i \in 1 .. m
    BY <1>6, <1>11
  <2>2. CASE j = m + 1
    BY <1>1, <1>7, <1>8, <2>1, <2>2
  <2>3. CASE j \in 1 .. m
    <3>1. op[i] < op[j]
      BY <2>1, <2>3, <1>11 DEF Unclosed, m
    <3> QED BY <3>1, <1>7, <2>1, <2>3
  <2> QED BY <1>9, <2>2, <2>3
<1>12. ASSUME NEW j \in 1 .. m + 1, NEW q \in 1 .. n, IsCloser(G[q]) PROVE w[q] # up[j]
  <2>1. q \in 1 .. Len(F) /\ IsCloser(F[q])
    BY <1>5, <1>12
  <2>2. CASE j = m + 1
    <3>1. w[q] \in 1 .. q - 1
      BY <2>1 DEF Matched
    <3> QED BY <3>1, <2>1, <2>2, <1>1, <1>7
  <2>3. CASE j \in 1 .. m
    <3>1. w[q] # op[j]
      BY <2>1, <2>3 DEF Unclosed, m
    <3> QED BY <3>1, <1>7, <2>3
  <2> QED BY <1>9, <2>2, <2>3
<1>13. ASSUME NEW v \in 1 .. n, IsOpener(G[v])
       PROVE  \/ \E j \in 1 .. m + 1 : up[j] = v
              \/ \E q \in 1 .. n : IsCloser(G[q]) /\ w[q] = v
  <2>1. CASE v = n
    <3>1. m + 1 \in 1 .. m + 1
      BY <1>6
    <3> QED BY <3>1, <1>7, <2>1
  <2>2. CASE v \in 1 .. Len(F)
    <3>1. IsOpener(F[v])
      BY <1>2, <1>13, <2>2
    <3>2. \/ \E j \in 1 .. m : op[j] = v
          \/ \E q \in 1 .. Len(F) : IsCloser(F[q]) /\ w[q] = v
      BY <2>2, <3>1 DEF Unclosed, m
    <3>3. ASSUME NEW j \in 1 .. m, op[j] = v PROVE \E i \in 1 .. m + 1 : up[i] = v
      BY <1>6, <1>7, <3>3
    <3> QED BY <1>2, <3>2, <3>3
  <2> QED BY <1>3, <2>1, <2>2
<1>14. Unclosed(G, w, up)
  <2>1. Len(up) = m + 1 /\ up \in Seq(Nat)
    BY <1>7
  <2>2. \A j \in 1 .. Len(up) : up[j] \in 1 .. Len(G) /\ IsOpener(G[up[j]])
    BY <1>10, <2>1
  <2>3. \A i, j \in 1 .. Len(up) : i < j => up[i] < up[j]
    BY <1>11, <2>1
  <2>4. \A j \in 1 .. Len(up) : \A q \in 1 .. Len(G) : IsCloser(G[q]) => w[q] # up[j]
    BY <1>12, <2>1
  <2>5. \A v \in 1 .. Len(G) : IsOpener(G[v]) =>
          \/ \E j \in 1 .. Len(up) : up[j] = v
          \/ \E q \in 1 .. Len(G) : IsCloser(G[q]) /\ w[q] = v
    BY <1>13, <2>1
  <2> QED BY <2>1, <2>2, <2>3, <2>4, <2>5 DEF Unclosed
<1> QED BY <1>14 DEF up

(* The last one that is open is closed. *)
LEMMA Closes ==
  ASSUME NEW F, NEW t, NEW G, Jots(F, t, G), NEW w, Matched(F, w), NEW op, Unclosed(F, w, op),
         IsCloser(t), op # <<>>, F[op[Len(op)]].kind = Mate(t),
         NEW u, u = [i \in 1 .. Len(G) |-> IF i = Len(G) THEN op[Len(op)] ELSE w[i]]
  PROVE  Matched(G, u) /\ Unclosed(G, u, Front(op))
<1>1. Len(F) \in Nat /\ Len(G) = Len(F) + 1 /\ G[Len(G)] = t
  BY JotsKinds
<1>2. \A i \in 1 .. Len(F) : i \in 1 .. Len(G) /\ G[i] = F[i]
  BY JotsKinds
<1>3. \A i \in 1 .. Len(G) : i = Len(G) \/ i \in 1 .. Len(F)
  BY JotsKinds
<1> DEFINE n == Len(G)
           m == Len(op)
           o == op[m]
<1>4. op \in Seq(Nat) /\ m \in Nat /\ m >= 1 /\ m \in 1 .. m /\ n \in Nat /\ n \in 1 .. n
  BY <1>1 DEF Unclosed
<1>5. o \in 1 .. Len(F) /\ IsOpener(F[o])
  BY <1>4 DEF Unclosed
<1>6. ASSUME NEW q \in 1 .. Len(F), IsCloser(F[q]) PROVE w[q] # o /\ w[q] \in 1 .. q - 1
  BY <1>4, <1>6 DEF Unclosed, Matched
<1>7. u[n] = o /\ \A i \in 1 .. Len(F) : u[i] = w[i]
  BY <1>1, <1>2, <1>4
<1>8. ~IsOpener(t)
  BY DEF IsCloser, IsOpener
<1>9. ASSUME NEW v \in 1 .. n, v > o, v < n, IsOpener(G[v])
      PROVE  \E r \in 1 .. n : r > v /\ r < n /\ IsCloser(G[r]) /\ u[r] = v
  <2>1. v \in 1 .. Len(F) /\ IsOpener(F[v])
    BY <1>2, <1>3, <1>9
  <2>2. ASSUME NEW j \in 1 .. m, op[j] = v PROVE FALSE
    <3>1. j < m
      BY <1>4, <1>9, <2>2
    <3>2. op[j] < op[m]
      BY <3>1, <1>4, <2>2 DEF Unclosed
    <3> QED BY <3>2, <1>5, <1>9, <2>2
  <2>3. PICK r \in 1 .. Len(F) : IsCloser(F[r]) /\ w[r] = v
    BY <2>1, <2>2 DEF Unclosed
  <2>4. r > v
    BY <1>6, <2>3
  <2>5. r < n
    BY <1>1
  <2> QED BY <2>3, <2>4, <2>5, <1>2, <1>7
<1>10. Matched(G, u)
  <2>1. SUFFICES ASSUME NEW q \in 1 .. Len(G), IsCloser(G[q])
        PROVE  /\ u[q] \in 1 .. q - 1 /\ G[u[q]].kind = Mate(G[q])
               /\ \A r \in 1 .. Len(G) : IsCloser(G[r]) /\ u[r] = u[q] => r = q
               /\ \A v \in 1 .. Len(G) : v > u[q] /\ v < q /\ IsOpener(G[v]) =>
                    \E r \in 1 .. Len(G) : r > v /\ r < q /\ IsCloser(G[r]) /\ u[r] = v
    BY DEF Matched
  <2>2. CASE q = n
    <3>1. u[q] \in 1 .. q - 1 /\ G[u[q]].kind = Mate(G[q])
      <4>1. G[o] = F[o]
        BY <1>2, <1>5
      <4>2. G[o].kind = Mate(t)
        BY <4>1
      <4> QED BY <4>2, <1>1, <1>5, <1>7, <2>2
    <3>2. ASSUME NEW r \in 1 .. Len(G), IsCloser(G[r]), u[r] = u[q] PROVE r = q
      BY <1>2, <1>3, <1>6, <1>7, <2>2, <3>2
    <3> QED BY <3>1, <3>2, <1>7, <1>9, <2>2
  <2>3. CASE q \in 1 .. Len(F)
    <3>0. IsCloser(F[q]) /\ G[q] = F[q] /\ u[q] = w[q]
      BY <1>2, <1>7, <2>1, <2>3
    <3>1. w[q] \in 1 .. q - 1 /\ F[w[q]].kind = Mate(F[q])
      BY <2>3, <3>0 DEF Matched
    <3>2. G[w[q]].kind = Mate(G[q])
      <4>1. w[q] \in 1 .. Len(F)
        BY <1>1, <2>3, <3>1
      <4>2. G[w[q]] = F[w[q]]
        BY <1>2, <4>1
      <4> QED BY <3>0, <3>1, <4>2
    <3>3. ASSUME NEW r \in 1 .. Len(G), IsCloser(G[r]), u[r] = w[q] PROVE r = q
      <4>1. r # n
        BY <1>6, <1>7, <2>3, <3>0, <3>3
      <4>2. r \in 1 .. Len(F) /\ IsCloser(F[r]) /\ w[r] = w[q]
        BY <1>2, <1>3, <1>7, <3>3, <4>1
      <4> QED BY <4>2, <2>3, <3>0 DEF Matched
    <3>4. ASSUME NEW v \in 1 .. Len(G), v > w[q], v < q, IsOpener(G[v])
          PROVE  \E r \in 1 .. Len(G) : r > v /\ r < q /\ IsCloser(G[r]) /\ u[r] = v
      <4>1. v \in 1 .. Len(F)
        BY <1>1, <2>3, <3>4
      <4>2. IsOpener(F[v])
        BY <1>2, <3>4, <4>1
      <4>3. PICK r \in 1 .. Len(F) : r > v /\ r < q /\ IsCloser(F[r]) /\ w[r] = v
        BY <2>3, <3>0, <3>4, <4>1, <4>2 DEF Matched
      <4> QED BY <1>2, <1>7, <4>3
    <3> QED BY <3>0, <3>1, <3>2, <3>3, <3>4
  <2> QED BY <1>3, <2>2, <2>3
<1> DEFINE down == Front(op)
<1>11. down \in Seq(Nat) /\ Len(down) = m - 1 /\ \A j \in 1 .. m - 1 : down[j] = op[j]
  BY <1>4, FrontIs
<1> HIDE DEF down
<1>12. \A j \in 1 .. Len(down) : j \in 1 .. m /\ j < m /\ down[j] = op[j]
  BY <1>4, <1>11
<1>13. Unclosed(G, u, down)
  <2>1. ASSUME NEW j \in 1 .. Len(down) PROVE down[j] \in 1 .. Len(G) /\ IsOpener(G[down[j]])
    <3>1. op[j] \in 1 .. Len(F) /\ IsOpener(F[op[j]])
      BY <1>12 DEF Unclosed
    <3>2. op[j] \in 1 .. Len(G) /\ G[op[j]] = F[op[j]]
      BY <3>1, <1>2
    <3> QED BY <3>1, <3>2, <1>12
  <2>2. ASSUME NEW i \in 1 .. Len(down), NEW j \in 1 .. Len(down), i < j PROVE down[i] < down[j]
    <3>1. op[i] < op[j]
      BY <1>12, <2>2 DEF Unclosed
    <3> QED BY <3>1, <1>12
  <2>3. ASSUME NEW j \in 1 .. Len(down), NEW q \in 1 .. Len(G), IsCloser(G[q]) PROVE u[q] # down[j]
    <3>1. CASE q = n
      <4>1. op[j] < op[m]
        BY <1>4, <1>12 DEF Unclosed
      <4>2. op[j] \in Nat
        BY <1>4, <1>12
      <4> QED BY <4>1, <4>2, <3>1, <1>7, <1>12, <1>5
    <3>2. CASE q \in 1 .. Len(F)
      <4>1. IsCloser(F[q]) /\ u[q] = w[q]
        BY <1>2, <1>7, <2>3, <3>2
      <4>2. w[q] # op[j]
        BY <4>1, <3>2, <1>12 DEF Unclosed
      <4> QED BY <4>1, <4>2, <1>12
    <3> QED BY <1>3, <3>1, <3>2
  <2>4. ASSUME NEW v \in 1 .. Len(G), IsOpener(G[v])
        PROVE  \/ \E j \in 1 .. Len(down) : down[j] = v
               \/ \E q \in 1 .. Len(G) : IsCloser(G[q]) /\ u[q] = v
    <3>1. v \in 1 .. Len(F) /\ IsOpener(F[v])
      BY <1>1, <1>2, <1>3, <1>8, <2>4
    <3>2. CASE v = o
      <4>1. IsCloser(G[n]) /\ u[n] = v
        BY <1>1, <1>7, <3>2
      <4> QED BY <4>1, <1>4
    <3>3. CASE v # o
      <4>1. \/ \E j \in 1 .. m : op[j] = v
            \/ \E q \in 1 .. Len(F) : IsCloser(F[q]) /\ w[q] = v
        BY <3>1 DEF Unclosed
      <4>2. ASSUME NEW j \in 1 .. m, op[j] = v PROVE j \in 1 .. Len(down) /\ down[j] = v
        <5>1. j # m
          BY <3>3, <4>2
        <5>2. j \in 1 .. m - 1
          BY <1>4, <5>1
        <5> QED BY <5>2, <1>11, <4>2
      <4> QED BY <1>2, <1>7, <4>1, <4>2
    <3> QED BY <3>2, <3>3
  <2> QED BY <1>11, <2>1, <2>2, <2>3, <2>4 DEF Unclosed
<1> QED BY <1>10, <1>13 DEF down

(* What a bracket opens is what it is for. *)
LEMMA OpensIs ==
  ASSUME NEW S, NEW l, NEW t, NEW m, Follows(S, l, t, m), IsOpener(t)
  PROVE  t.kind = Opener[TypeOf(m.in)] /\ m = First(m.in)
<1>1. BeginsFile(t, l, m) \/ BeginsItem(S, t, l, m) \/ BeginsArray(t, l, m)
  <2>1. t.kind = "{" \/ t.kind = "["
    BY DEF IsOpener
  <2> QED BY <2>1, FollowsKind
<1>2. CASE BeginsFile(t, l, m)
  <2>1. m = First(Outer) /\ t = Mark("{")
    BY <1>2 DEF BeginsFile
  <2>2. m.in = Outer /\ TypeOf(Outer) = "OBJECT"
    BY <2>1 DEF First, Place, Outer, Frame, TypeOf
  <2> QED BY <2>1, <2>2, KindIs, BracketsAre
<1>3. CASE BeginsItem(S, t, l, m)
  <2>1. PICK p : m = First(ItemFrame(p)) /\ t = Mark("{")
    BY <1>3 DEF BeginsItem
  <2>2. m.in = ItemFrame(p) /\ TypeOf(ItemFrame(p)) = "OBJECT"
    BY <2>1 DEF First, Place, ItemFrame, Frame, TypeOf
  <2> QED BY <2>1, <2>2, KindIs, BracketsAre
<1>4. CASE BeginsArray(t, l, m)
  <2>1. PICK p, c : m = First(ArrayFrame(p, c)) /\ t = Mark("[")
    BY <1>4 DEF BeginsArray
  <2>2. m.in = ArrayFrame(p, c) /\ TypeOf(ArrayFrame(p, c)) = "ARRAY"
    BY <2>1 DEF First, Place, ArrayFrame, Frame, TypeOf
  <2> QED BY <2>1, <2>2, KindIs, BracketsAre
<1> QED BY <1>1, <1>2, <1>3, <1>4

Extends(S, F, lab, G, lab2, w, m) ==
  /\ Text(S, G, lab2, w) /\ lab2[Len(G) + 1] = m
  /\ \A i \in 1 .. Len(F) + 1 : lab2[i] = lab[i]

LEMMA TextJots ==
  ASSUME NEW S, NEW F, NEW lab, NEW w, Text(S, F, lab, w),
         NEW t, NEW G, Jots(F, t, G), NEW m, Follows(S, lab[Len(F) + 1], t, m),
         NEW lab2, lab2 = [i \in 1 .. Len(G) + 1 |-> IF i = Len(G) + 1 THEN m ELSE lab[i]],
         NEW u, Matched(G, u), \A q \in 1 .. Len(F) : IsCloser(F[q]) => u[q] = w[q],
         IsCloser(t) => u[Len(G)] \in 1 .. Len(F) /\ lab[u[Len(G)] + 1].in = lab[Len(G)].in
  PROVE  Extends(S, F, lab, G, lab2, u, m)
<1>1. Len(F) \in Nat /\ Len(G) = Len(F) + 1 /\ G[Len(G)] = t /\ G \in Seq(Tokens)
  BY JotsKinds DEF Jots
<1>2. \A i \in 1 .. Len(F) : i \in 1 .. Len(G) /\ G[i] = F[i]
  BY JotsKinds
<1>3. \A i \in 1 .. Len(G) : i = Len(G) \/ i \in 1 .. Len(F)
  BY JotsKinds
<1> DEFINE n == Len(G)
<1>4. n \in Nat /\ n >= 1 /\ lab2[n + 1] = m /\ \A i \in 1 .. n : lab2[i] = lab[i]
  BY <1>1
<1>5. ASSUME NEW i \in 1 .. n PROVE Follows(S, lab2[i], G[i], lab2[i + 1])
  <2>1. CASE i = n
    BY <2>1, <1>1, <1>4
  <2>2. CASE i \in 1 .. Len(F)
    <3>1. Follows(S, lab[i], F[i], lab[i + 1])
      BY <2>2 DEF Text
    <3>2. i + 1 \in 1 .. n
      BY <2>2, <1>1
    <3>3. lab2[i] = lab[i] /\ lab2[i + 1] = lab[i + 1]
      BY <3>2, <1>4
    <3> QED BY <3>1, <3>3, <2>2, <1>2
  <2> QED BY <1>3, <2>1, <2>2
<1>6. ASSUME NEW q \in 1 .. n, IsCloser(G[q]) PROVE lab2[u[q] + 1].in = lab2[q].in
  <2>1. CASE q = n
    <3>1. u[n] \in 1 .. Len(F) /\ lab[u[n] + 1].in = lab[n].in
      BY <2>1, <1>1, <1>6
    <3>2. u[n] + 1 \in 1 .. n /\ n \in 1 .. n
      BY <3>1, <1>1
    <3>3. lab2[u[n] + 1] = lab[u[n] + 1] /\ lab2[n] = lab[n]
      BY <3>2, <1>4
    <3> QED BY <3>1, <3>3, <2>1
  <2>2. CASE q \in 1 .. Len(F)
    <3>1. IsCloser(F[q]) /\ u[q] = w[q]
      BY <1>2, <1>6, <2>2
    <3>2. lab[w[q] + 1].in = lab[q].in /\ w[q] \in 1 .. q - 1
      BY <3>1, <2>2 DEF Text, Matched
    <3>3. w[q] + 1 \in 1 .. n
      BY <3>2, <2>2, <1>1
    <3>4. lab2[w[q] + 1] = lab[w[q] + 1] /\ lab2[q] = lab[q]
      BY <3>3, <1>4
    <3> QED BY <3>1, <3>2, <3>4
  <2> QED BY <1>3, <2>1, <2>2
<1>7. lab2[1] = Start
  BY <1>4 DEF Text
<1>8. Text(S, G, lab2, u)
  BY <1>1, <1>5, <1>6, <1>7 DEF Text
<1> QED BY <1>1, <1>4, <1>8 DEF Extends

LEMMA FramedOn ==
  ASSUME NEW S, NEW F, NEW lab, NEW G, NEW lab2, NEW u, NEW m, Extends(S, F, lab, G, lab2, u, m),
         NEW w, NEW op, Unclosed(F, w, op), NEW fr, Framed(lab, op, fr), Len(F) \in Nat
  PROVE  Framed(lab2, op, fr)
<1> SUFFICES ASSUME NEW j \in 1 .. Len(op) PROVE lab2[op[j] + 1].in = fr[j]
  BY DEF Framed
<1>1. op[j] \in 1 .. Len(F) /\ lab[op[j] + 1].in = fr[j]
  BY DEF Unclosed, Framed
<1>2. op[j] + 1 \in 1 .. Len(F) + 1
  BY <1>1
<1>3. lab2[op[j] + 1] = lab[op[j] + 1]
  BY <1>2 DEF Extends
<1> QED BY <1>1, <1>3

LEMMA WritesPlain ==
  ASSUME NEW S, NEW F, NEW fr, NEW l, Written(S, F, fr, l),
         NEW t, NEW m, Follows(S, l, t, m), ~IsOpener(t), ~IsCloser(t), NEW G, Jots(F, t, G)
  PROVE  Written(S, G, fr, m)
<1>1. PICK lab, w, op : Text(S, F, lab, w) /\ Unclosed(F, w, op) /\ Framed(lab, op, fr) /\ lab[Len(F) + 1] = l
  BY DEF Written
<1> DEFINE lab2 == [i \in 1 .. Len(G) + 1 |-> IF i = Len(G) + 1 THEN m ELSE lab[i]]
<1>2. Matched(G, w)
  BY <1>1, MatchedPlain DEF Text
<1>3. Unclosed(G, w, op)
  BY <1>1, UnclosedPlain
<1>4. Extends(S, F, lab, G, lab2, w, m)
  <2>1. Follows(S, lab[Len(F) + 1], t, m)
    BY <1>1
  <2>2. lab2 = [i \in 1 .. Len(G) + 1 |-> IF i = Len(G) + 1 THEN m ELSE lab[i]]
    OBVIOUS
  <2> HIDE DEF lab2
  <2> QED BY <1>1, <1>2, <2>1, <2>2, TextJots
<1> HIDE DEF lab2
<1>5. Framed(lab2, op, fr)
  <2>1. Len(F) \in Nat
    BY JotsKinds
  <2> QED BY <1>1, <1>4, <2>1, FramedOn
<1>6. Text(S, G, lab2, w) /\ lab2[Len(G) + 1] = m
  BY <1>4 DEF Extends
<1> QED BY <1>3, <1>5, <1>6 DEF Written

LEMMA WritesOpen ==
  ASSUME NEW S, NEW F, NEW X, NEW fr \in Seq(X), NEW l, Written(S, F, fr, l),
         NEW t, NEW m, Follows(S, l, t, m), IsOpener(t), NEW G, Jots(F, t, G), m.in \in X
  PROVE  Written(S, G, Append(fr, m.in), m)
<1>1. PICK lab, w, op : Text(S, F, lab, w) /\ Unclosed(F, w, op) /\ Framed(lab, op, fr) /\ lab[Len(F) + 1] = l
  BY DEF Written
<1>0. ~IsCloser(t) /\ Len(F) \in Nat /\ Len(G) = Len(F) + 1
  BY JotsKinds DEF IsCloser, IsOpener
<1> DEFINE lab2 == [i \in 1 .. Len(G) + 1 |-> IF i = Len(G) + 1 THEN m ELSE lab[i]]
           up == Append(op, Len(G))
           on == Append(fr, m.in)
           k  == Len(op)
<1>2. Matched(G, w) /\ Matched(F, w)
  BY <1>0, <1>1, MatchedPlain DEF Text
<1>3. Unclosed(G, w, up)
  BY <1>1, <1>2, UnclosedOpen
<1>4. Extends(S, F, lab, G, lab2, w, m)
  <2>1. Follows(S, lab[Len(F) + 1], t, m)
    BY <1>1
  <2>2. lab2 = [i \in 1 .. Len(G) + 1 |-> IF i = Len(G) + 1 THEN m ELSE lab[i]]
    OBVIOUS
  <2> HIDE DEF lab2
  <2> QED BY <1>0, <1>1, <1>2, <2>1, <2>2, TextJots
<1> HIDE DEF lab2
<1>5. Framed(lab2, op, fr)
  BY <1>0, <1>1, <1>4, FramedOn
<1>6. Text(S, G, lab2, w) /\ lab2[Len(G) + 1] = m
  BY <1>4 DEF Extends
<1>7. k \in Nat /\ Len(fr) = k /\ op \in Seq(Nat)
  BY <1>1 DEF Unclosed, Framed
<1>8. Len(up) = k + 1 /\ up[k + 1] = Len(G) /\ \A j \in 1 .. k : up[j] = op[j]
  BY <1>0, <1>7
<1>9. Len(on) = k + 1 /\ on[k + 1] = m.in /\ \A j \in 1 .. k : on[j] = fr[j]
  BY <1>7
<1> HIDE DEF up, on
<1>10. Framed(lab2, up, on)
  <2> SUFFICES ASSUME NEW j \in 1 .. k + 1 PROVE lab2[up[j] + 1].in = on[j]
    BY <1>8, <1>9 DEF Framed
  <2>1. CASE j = k + 1
    BY <2>1, <1>6, <1>8, <1>9
  <2>2. CASE j # k + 1
    <3>1. j \in 1 .. k
      BY <2>2, <1>7
    <3> QED BY <3>1, <1>5, <1>8, <1>9 DEF Framed
  <2> QED BY <2>1, <2>2
<1>11. Written(S, G, on, m)
  BY <1>3, <1>6, <1>10 DEF Written
<1> QED BY <1>11 DEF on

LEMMA WritesClose ==
  ASSUME NEW S, NEW F, NEW X, NEW fr \in Seq(X), NEW l, Written(S, F, fr, l), fr # <<>>, l.in = Last(fr),
         NEW t, NEW m, Follows(S, l, t, m), IsCloser(t), NEW G, Jots(F, t, G)
  PROVE  Written(S, G, Front(fr), m)
<1>1. PICK lab, w, op : Text(S, F, lab, w) /\ Unclosed(F, w, op) /\ Framed(lab, op, fr) /\ lab[Len(F) + 1] = l
  BY DEF Written
<1>0. Len(F) \in Nat /\ Len(G) = Len(F) + 1
  BY JotsKinds
<1> DEFINE lab2 == [i \in 1 .. Len(G) + 1 |-> IF i = Len(G) + 1 THEN m ELSE lab[i]]
           k  == Len(op)
           u  == [i \in 1 .. Len(G) |-> IF i = Len(G) THEN op[k] ELSE w[i]]
           down == Front(op)
           off1 == Front(fr)
<1>2. op \in Seq(Nat) /\ k \in Nat /\ Len(fr) = k /\ k >= 1 /\ op # <<>> /\ k \in 1 .. k
  <2>1. op \in Seq(Nat) /\ Len(fr) = k
    BY <1>1 DEF Unclosed, Framed
  <2>2. Len(fr) \in Nat /\ Len(fr) >= 1
    OBVIOUS
  <2> QED BY <2>1, <2>2
<1>3. op[k] \in 1 .. Len(F) /\ IsOpener(F[op[k]]) /\ lab[op[k] + 1].in = fr[k]
  BY <1>1, <1>2 DEF Unclosed, Framed
<1>4. l.in = fr[k]
  BY <1>2, FrontIs
<1>5. F[op[k]].kind = Mate(t)
  <2>1. Follows(S, lab[op[k]], F[op[k]], lab[op[k] + 1])
    BY <1>1, <1>3 DEF Text
  <2>2. F[op[k]].kind = Opener[TypeOf(fr[k])]
    BY <1>3, <2>1, OpensIs
  <2>3. Ends(t, l, m)
    BY FollowsKind
  <2>4. t.kind = Closer[TypeOf(fr[k])]
    BY <1>4, <2>3, KindIs DEF Ends
  <2>5. TypeOf(fr[k]) \in {"OBJECT", "ARRAY"}
    BY DEF TypeOf
  <2> QED BY <2>2, <2>4, <2>5, MateIs
<1>6. Matched(G, u) /\ Unclosed(G, u, down)
  <2>1. u = [i \in 1 .. Len(G) |-> IF i = Len(G) THEN op[Len(op)] ELSE w[i]]
    OBVIOUS
  <2>2. Matched(F, w)
    BY <1>1 DEF Text
  <2> HIDE DEF u, k
  <2>3. F[op[Len(op)]].kind = Mate(t)
    BY <1>5 DEF k
  <2> QED BY <1>1, <1>2, <2>1, <2>2, <2>3, Closes
<1>7. Extends(S, F, lab, G, lab2, u, m)
  <2>1. Follows(S, lab[Len(F) + 1], t, m)
    BY <1>1
  <2>2. lab2 = [i \in 1 .. Len(G) + 1 |-> IF i = Len(G) + 1 THEN m ELSE lab[i]]
    OBVIOUS
  <2>3. \A q \in 1 .. Len(F) : IsCloser(F[q]) => u[q] = w[q]
    BY <1>0
  <2>4. u[Len(G)] \in 1 .. Len(F) /\ lab[u[Len(G)] + 1].in = lab[Len(G)].in
    BY <1>0, <1>1, <1>3, <1>4
  <2> HIDE DEF lab2, u, k
  <2> QED BY <1>1, <1>6, <2>1, <2>2, <2>3, <2>4, TextJots
<1> HIDE DEF lab2, u
<1>8. Framed(lab2, op, fr)
  BY <1>0, <1>1, <1>7, FramedOn
<1>9. Text(S, G, lab2, u) /\ lab2[Len(G) + 1] = m
  BY <1>7 DEF Extends
<1>10. Len(down) = k - 1 /\ \A j \in 1 .. k - 1 : down[j] = op[j]
  BY <1>2, FrontIs
<1>11. Len(off1) = k - 1 /\ \A j \in 1 .. k - 1 : off1[j] = fr[j]
  <2>1. Len(off1) = Len(fr) - 1 /\ \A j \in 1 .. Len(fr) - 1 : off1[j] = fr[j]
    BY FrontIs
  <2> QED BY <2>1, <1>2
<1> HIDE DEF down, off1
<1>12. Framed(lab2, down, off1)
  <2> SUFFICES ASSUME NEW j \in 1 .. k - 1 PROVE lab2[down[j] + 1].in = off1[j]
    BY <1>10, <1>11 DEF Framed
  <2>1. j \in 1 .. k
    BY <1>2
  <2>2. lab2[op[j] + 1].in = fr[j]
    BY <2>1, <1>8 DEF Framed
  <2> QED BY <2>2, <1>10, <1>11
<1>13. Written(S, G, off1, m)
  BY <1>6, <1>9, <1>12 DEF Written
<1> QED BY <1>13 DEF off1

(* The file when a save begins. *)
LEMMA WritesFirst ==
  ASSUME NEW S
  PROVE  Written(S, <<Mark("{")>>, <<Outer>>, First(Outer))
<1> DEFINE t   == Mark("{")
           F   == <<t>>
           lab == [i \in {1, 2} |-> IF i = 1 THEN Start ELSE First(Outer)]
           op  == <<1>>
           fr  == <<Outer>>
<1>0. t \in Tokens /\ t.kind = "{" /\ IsOpener(t) /\ ~IsCloser(t)
  BY TokensAre, KindIs DEF IsOpener, IsCloser
<1>1. F \in Seq(Tokens) /\ Len(F) = 1 /\ F[1] = t
  <2>1. t \in Tokens
    BY <1>0
  <2> HIDE DEF t
  <2> QED BY <2>1
<1>2. op \in Seq(Nat) /\ Len(op) = 1 /\ op[1] = 1
  OBVIOUS
<1>3. Len(fr) = 1 /\ fr[1] = Outer
  <2> HIDE DEF Outer
  <2> QED OBVIOUS
<1>4. lab[1] = Start /\ lab[2] = First(Outer)
  OBVIOUS
<1>5. First(Outer).in = Outer
  BY DEF First, Place
<1>6. Follows(S, Start, t, First(Outer))
  <2>1. BeginsFile(t, Start, First(Outer))
    BY DEF BeginsFile
  <2>2. Legal(S, First(Outer).in)
    BY <1>5 DEF Legal
  <2> QED BY <2>1, <2>2 DEF Follows
<1> HIDE DEF t, F, lab, op, fr
<1>7. Text(S, F, lab, <<>>)
  <2>1. \A i \in 1 .. Len(F) : i = 1
    BY <1>1
  <2>2. \A q \in 1 .. Len(F) : ~IsCloser(F[q])
    BY <2>1, <1>0, <1>1
  <2>3. Matched(F, <<>>)
    BY <2>2 DEF Matched
  <2>4. \A i \in 1 .. Len(F) : Follows(S, lab[i], F[i], lab[i + 1])
    BY <2>1, <1>1, <1>4, <1>6
  <2> QED BY <2>2, <2>3, <2>4, <1>1, <1>4 DEF Text
<1>8. Unclosed(F, <<>>, op)
  <2>1. \A i \in 1 .. Len(F) : i = 1
    BY <1>1
  <2>2. \A i \in 1 .. Len(op) : i = 1
    BY <1>2
  <2>3. \A q \in 1 .. Len(F) : ~IsCloser(F[q])
    BY <2>1, <1>0, <1>1
  <2>4. 1 \in 1 .. Len(op) /\ 1 \in 1 .. Len(F)
    BY <1>1, <1>2
  <2>5. \A j \in 1 .. Len(op) : op[j] \in 1 .. Len(F) /\ IsOpener(F[op[j]])
    BY <2>2, <2>4, <1>0, <1>1, <1>2
  <2>6. \A v \in 1 .. Len(F) : IsOpener(F[v]) => \E j \in 1 .. Len(op) : op[j] = v
    BY <2>1, <2>4, <1>2
  <2>7. \A i, j \in 1 .. Len(op) : ~(i < j)
    BY <2>2
  <2> QED BY <2>3, <2>5, <2>6, <2>7, <1>2 DEF Unclosed
<1>9. Framed(lab, op, fr)
  <2>1. \A i \in 1 .. Len(op) : i = 1
    BY <1>2
  <2>2. lab[op[1] + 1].in = fr[1]
    BY <1>2, <1>3, <1>4, <1>5
  <2> QED BY <2>1, <2>2, <1>2, <1>3 DEF Framed
<1>10. lab[Len(F) + 1] = First(Outer)
  BY <1>1, <1>4
<1>11. Written(S, F, fr, First(Outer))
  BY <1>7, <1>8, <1>9, <1>10 DEF Written
<1> QED BY <1>11 DEF F, fr, t

(* What is left of a save that was cut short. *)
LEMMA TextCut ==
  ASSUME NEW S, NEW F, NEW lab, NEW w, Text(S, F, lab, w), NEW n \in 0 .. Len(F), NEW G, G = SubSeq(F, 1, n)
  PROVE  Text(S, G, lab, w)
<1>1. F \in Seq(Tokens) /\ Len(F) \in Nat /\ n \in Nat
  BY DEF Text
<1>2. G \in Seq(Tokens) /\ Len(G) = n /\ \A i \in 1 .. n : G[i] = F[i]
  BY <1>1
<1>3. \A i \in 1 .. n : i \in 1 .. Len(F)
  BY <1>1
<1>4. Matched(G, w)
  <2>1. SUFFICES ASSUME NEW q \in 1 .. n, IsCloser(F[q])
        PROVE  /\ w[q] \in 1 .. q - 1 /\ G[w[q]].kind = Mate(G[q])
               /\ \A r \in 1 .. n : IsCloser(G[r]) /\ w[r] = w[q] => r = q
               /\ \A v \in 1 .. n : v > w[q] /\ v < q /\ IsOpener(G[v]) =>
                    \E r \in 1 .. n : r > v /\ r < q /\ IsCloser(G[r]) /\ w[r] = v
    BY <1>2 DEF Matched
  <2>0. Matched(F, w) /\ q \in 1 .. Len(F)
    BY <1>3 DEF Text
  <2>2. w[q] \in 1 .. q - 1 /\ F[w[q]].kind = Mate(F[q])
    BY <2>0, <2>1 DEF Matched
  <2>3. w[q] \in 1 .. n
    BY <2>2, <1>1
  <2>4. \A r \in 1 .. n : IsCloser(F[r]) /\ w[r] = w[q] => r = q
    BY <2>0, <2>1, <1>3 DEF Matched
  <2>5. ASSUME NEW v \in 1 .. n, v > w[q], v < q, IsOpener(F[v])
        PROVE  \E r \in 1 .. n : r > v /\ r < q /\ IsCloser(F[r]) /\ w[r] = v
    <3>1. PICK r \in 1 .. Len(F) : r > v /\ r < q /\ IsCloser(F[r]) /\ w[r] = v
      BY <2>0, <2>1, <2>5, <1>3 DEF Matched
    <3>2. r \in 1 .. n
      BY <3>1, <1>1
    <3> QED BY <3>1, <3>2
  <2> QED BY <2>1, <2>2, <2>3, <2>4, <2>5, <1>2
<1> QED BY <1>2, <1>3, <1>4 DEF Text

-----------------------------------------------------------------------------
(* Frames and places. *)
LEMMA LegalIs ==
  ASSUME NEW S \in Configs \cup {Nothing}, NEW f, Legal(S, f)
  PROVE  /\ f.of \in {"file", "item", "array"} /\ f.path \in Seq(Steps)
         /\ f.of = "file" <=> f = Outer
         /\ f.of = "item" => f = ItemFrame(f.path) /\ f.path \in Composites(S)
         /\ f.of = "array" =>
              /\ f = ArrayFrame(f.path, f.comp) /\ f.path \in Composites(S)
              /\ f.comp \in Parts(Schema, f.path) /\ f.comp.max > 1
         /\ f # Outer => f.path \in Kept(S) /\ CompOf(f.path).desc \in DOMAIN Schema
<1>1. CASE f = Outer
  BY <1>1, EmptySeq DEF Outer, Frame
<1>2. ASSUME NEW p \in Composites(S), f = ItemFrame(p)
      PROVE  /\ f.of = "item" /\ f.path = p /\ f # Outer
  BY <1>2 DEF ItemFrame, Outer, Frame
<1>3. ASSUME NEW p \in Composites(S), NEW c, f = ArrayFrame(p, c)
      PROVE  /\ f.of = "array" /\ f.path = p /\ f.comp = c /\ f # Outer
  BY <1>3 DEF ArrayFrame, Outer, Frame
<1>4. ASSUME NEW p \in Composites(S)
      PROVE  p \in Seq(Steps) /\ p \in Kept(S) /\ CompOf(p).desc \in DOMAIN Schema
  BY KeptIs DEF Composites
<1> QED BY <1>1, <1>2, <1>3, <1>4 DEF Legal

LEMMA LegalPath ==
  ASSUME NEW S \in Configs \cup {Nothing}, NEW f, Legal(S, f), f # Outer
  PROVE  /\ f.path \in Composites(S) /\ f.path \in Kept(S) /\ f.path \in Seq(Steps)
         /\ CompOf(f.path).desc \in DOMAIN Schema
<1>1. f.path \in Composites(S)
  <2>1. \/ f.of = "item" \/ f.of = "array"
    BY LegalIs
  <2> QED BY <2>1, LegalIs
<1>2. f.path \in Kept(S) /\ CompOf(f.path).desc \in DOMAIN Schema
  BY <1>1 DEF Composites
<1> QED BY <1>1, <1>2, KeptIs

LEMMA PartOf ==
  ASSUME NEW S \in Configs \cup {Nothing}, NEW f, Legal(S, f), f # Outer, NEW c, c \in Parts(Schema, f.path)
  PROVE  c \in Known /\ c # Base /\ c.max \in Nat \ {0} /\ c.desc \in DOMAIN Schema \cup {Simple}
<1> DEFINE d == CompOf(f.path).desc
<1>1. d \in DOMAIN Schema
  BY LegalPath
<1>2. c \in ToSet(Schema[d])
  BY DEF Parts
<1>3. Schema \in {Schema, NewSchema}
  OBVIOUS
<1> HIDE DEF d
<1>4. QED
  BY <1>1, <1>2, <1>3, PartsAre

(* An item is in the frame it is written in. *)
LEMMA ItemIn ==
  ASSUME NEW S \in Configs \cup {Nothing}, NEW l, Legal(S, l.in), NEW c \in Known, NEW k \in Nat,
         Allowed(l, c, k), NEW p, p = PathIn(l.in, c, k)
  PROVE  /\ p \in Seq(Steps) /\ CompOf(p) = c
         /\ Parent(ItemFrame(p)) = l.in /\ Following(ItemFrame(p)) = k + 1
<1>0. ItemFrame(p).of = "item" /\ ItemFrame(p).path = p
  BY DEF ItemFrame, Frame
<1>1. CASE l.in.of = "file"
  <2>1. c = Base /\ k = 0
    BY <1>1 DEF Allowed
  <2>2. p = <<>> /\ l.in = Outer
    BY <1>1, LegalIs DEF PathIn
  <2>3. CompOf(p) = c /\ p \in Seq(Steps)
    BY <2>1, <2>2, BaseIs, EmptySeq
  <2>4. Parent(ItemFrame(p)) = l.in
    BY <2>2, <1>0 DEF Parent
  <2>5. Following(ItemFrame(p)) = k + 1
    BY <2>1, <2>2, <1>0 DEF Following
  <2> QED BY <2>3, <2>4, <2>5
<1>2. CASE l.in.of # "file"
  <2>0. l.in.path \in Seq(Steps) /\ l.in # Outer
    BY <1>2, LegalIs DEF Outer, Frame
  <2>1. p = Below(l.in.path, c, k)
    BY <1>2 DEF PathIn
  <2>2. p \in Seq(Steps) /\ p # <<>> /\ Last(p) = <<c.name, k>> /\ Front(p) = l.in.path /\ CompOf(p) = c
    <3>1. \A r \in Seq(Steps) :
            /\ Below(r, c, k) \in Seq(Steps) /\ Below(r, c, k) # <<>> /\ Last(Below(r, c, k)) = <<c.name, k>>
            /\ Front(Below(r, c, k)) = r /\ CompOf(Below(r, c, k)) = c
      BY BelowIs
    <3> QED BY <2>0, <2>1, <3>1
  <2>3. Following(ItemFrame(p)) = k + 1
    BY <2>2, <1>0 DEF Following
  <2>4. CASE l.in.of = "item"
    <3>1. c.max = 1 /\ l.in = ItemFrame(l.in.path)
      BY <2>4, LegalIs DEF Allowed
    <3>2. Parent(ItemFrame(p)) = ItemFrame(l.in.path)
      BY <3>1, <2>2, <1>0 DEF Parent
    <3> QED BY <3>1, <3>2, <2>2, <2>3
  <2>5. CASE l.in.of = "array"
    <3>1. c = l.in.comp /\ c.max > 1 /\ l.in = ArrayFrame(l.in.path, l.in.comp)
      BY <2>5, LegalIs DEF Allowed
    <3>2. Parent(ItemFrame(p)) = ArrayFrame(l.in.path, c)
      BY <3>1, <2>2, <1>0 DEF Parent
    <3> QED BY <3>1, <3>2, <2>2, <2>3
  <2> QED BY <1>2, <2>4, <2>5, LegalIs
<1> QED BY <1>1, <1>2

LEMMA ArrayIn ==
  ASSUME NEW p, NEW c
  PROVE  /\ Parent(ArrayFrame(p, c)) = ItemFrame(p) /\ Following(ArrayFrame(p, c)) = 1
         /\ ArrayFrame(p, c).of = "array" /\ ArrayFrame(p, c).path = p /\ ArrayFrame(p, c).comp = c
         /\ ItemFrame(p).of = "item" /\ ItemFrame(p).path = p
         /\ ArrayFrame(p, c) # Outer /\ ItemFrame(p) # Outer /\ Outer.of = "file" /\ Outer.path = <<>>
BY DEF ArrayFrame, ItemFrame, Outer, Frame, Parent, Following

LEMMA PlaceIs ==
  ASSUME NEW f, NEW c, NEW k
  PROVE  /\ Start.mode = "start" /\ Start.in = Outer
         /\ First(f).mode = "first" /\ First(f).in = f /\ First(f).idx = 0
         /\ Later(f, k).mode = "after" /\ Later(f, k).in = f /\ Later(f, k).idx = k
         /\ Again(f, k).mode = "next" /\ Again(f, k).in = f /\ Again(f, k).idx = k
         /\ Awaits(f, c).mode = "value" /\ Awaits(f, c).in = f /\ Awaits(f, c).comp = c
         /\ Finish.mode = "end" /\ Finish.in = Outer
BY DEF Start, First, Later, Again, Awaits, Finish, Place

(* Where a token is tells what it may be. *)
LEMMA FollowsMode ==
  ASSUME NEW S \in Configs \cup {Nothing}, NEW l, NEW t, NEW m, Follows(S, l, t, m)
  PROVE  /\ l.mode = "start" => BeginsFile(t, l, m)
         /\ l.mode = "value" => BeginsItem(S, t, l, m) \/ BeginsArray(t, l, m) \/ GivesValue(S, t, l, m)
         /\ l.mode = "after" => Separates(t, l, m) \/ Ends(t, l, m)
         /\ l.mode = "first" /\ l.in.of # "array" => GivesName(t, l, m) \/ Ends(t, l, m)
         /\ l.mode = "next" /\ l.in.of # "array" => GivesName(t, l, m)
         /\ l.mode \in {"first", "next"} /\ l.in.of = "array" => BeginsItem(S, t, l, m) \/ GivesValue(S, t, l, m)
         /\ l.mode # "end"
<1>1. CASE BeginsFile(t, l, m)
  <2>1. l.mode = "start"
    BY <1>1, PlaceIs DEF BeginsFile
  <2> QED BY <1>1, <2>1
<1>2. ASSUME NEW c, NEW k, Allowed(l, c, k)
      PROVE  l.mode = "value" \/ (l.in.of = "array" /\ l.mode \in {"first", "next"})
  BY <1>2, PlaceIs DEF Allowed
<1>3. CASE BeginsItem(S, t, l, m)
  <2>1. l.mode = "value" \/ (l.in.of = "array" /\ l.mode \in {"first", "next"})
    BY <1>2, <1>3 DEF BeginsItem
  <2> QED BY <1>3, <2>1
<1>4. CASE GivesValue(S, t, l, m)
  <2>1. l.mode = "value" \/ (l.in.of = "array" /\ l.mode \in {"first", "next"})
    BY <1>2, <1>4 DEF GivesValue
  <2> QED BY <1>4, <2>1
<1>5. CASE BeginsArray(t, l, m)
  <2>1. l.mode = "value"
    BY <1>5, PlaceIs DEF BeginsArray
  <2> QED BY <1>5, <2>1
<1>6. CASE GivesName(t, l, m)
  <2>1. l.mode \in {"first", "next"} /\ l.in.of # "array"
    BY <1>6, ArrayIn DEF GivesName
  <2> QED BY <1>6, <2>1
<1>7. CASE Separates(t, l, m)
  <2>1. l.mode = "after"
    BY <1>7 DEF Separates
  <2> QED BY <1>7, <2>1
<1>8. CASE Ends(t, l, m)
  <2>1. l.mode = "after" \/ (l.mode = "first" /\ l.in.of # "array")
    BY <1>8 DEF Ends
  <2> QED BY <1>8, <2>1
<1> QED BY <1>1, <1>3, <1>4, <1>5, <1>6, <1>7, <1>8 DEF Follows

-----------------------------------------------------------------------------
(* What the search for a name passes over. *)
Readable(S, lab, w) == S \in Configs \cup {Nothing} /\ Text(S, file, lab, w)

LEMMA ReadableIs ==
  ASSUME NEW S, NEW lab, NEW w, Readable(S, lab, w)
  PROVE  /\ S \in Configs \cup {Nothing} /\ file \in Seq(Tokens) /\ Len(file) \in Nat /\ Past \in Nat
         /\ Past = Len(file) + 1
         /\ Matched(file, w)
         /\ lab[1] = Start
         /\ \A i \in 1 .. Len(file) : Follows(S, lab[i], file[i], lab[i + 1]) /\ i + 1 \in 1 .. Past
         /\ \A i \in 1 .. Past : Legal(S, lab[i].in)
<1>1. /\ S \in Configs \cup {Nothing} /\ file \in Seq(Tokens) /\ Len(file) \in Nat /\ Past \in Nat
      /\ Past = Len(file) + 1 /\ Matched(file, w) /\ lab[1] = Start
  BY DEF Readable, Text, Past
<1>2. ASSUME NEW i \in 1 .. Len(file) PROVE Follows(S, lab[i], file[i], lab[i + 1]) /\ i + 1 \in 1 .. Past
  BY <1>1 DEF Readable, Text
<1>3. ASSUME NEW i \in 1 .. Past PROVE Legal(S, lab[i].in)
  <2>1. CASE i = 1
    BY <2>1, <1>1, PlaceIs DEF Legal
  <2>2. CASE i # 1
    <3>1. i - 1 \in 1 .. Len(file) /\ (i - 1) + 1 = i
      BY <1>1, <2>2
    <3>2. Follows(S, lab[i - 1], file[i - 1], lab[i])
      BY <3>1, <1>2
    <3> QED BY <3>2 DEF Follows
  <2> QED BY <2>1, <2>2
<1> QED BY <1>1, <1>2, <1>3

LEMMA ShutIs ==
  ASSUME NEW S, NEW lab, NEW w, Readable(S, lab, w), NEW q \in 1 .. Len(file), IsCloser(file[q]),
         NEW o, o = w[q], lab[o].mode # "start"
  PROVE  lab[q + 1] = Later(lab[o].in, Following(lab[o + 1].in))
<1>1. o \in 1 .. Len(file) /\ file[o].kind = Mate(file[q]) /\ lab[o + 1].in = lab[q].in
  <2>1. o \in 1 .. q - 1 /\ file[o].kind = Mate(file[q]) /\ lab[o + 1].in = lab[q].in
    BY ReadableIs DEF Matched, Readable, Text
  <2> QED BY <2>1, ReadableIs
<1>2. Ends(file[q], lab[q], lab[q + 1])
  BY ReadableIs, FollowsKind
<1> DEFINE f == lab[o + 1].in
<1>3. f # Outer /\ Parent(f) = lab[o].in
  <2>1. Follows(S, lab[o], file[o], lab[o + 1]) /\ Legal(S, lab[o].in) /\ S \in Configs \cup {Nothing}
    <3>1. o \in 1 .. Past
      BY <1>1, ReadableIs
    <3> QED BY <3>1, <1>1, ReadableIs
  <2>2. file[o].kind = "{" \/ file[o].kind = "["
    BY <1>1 DEF Mate
  <2>3. ~BeginsFile(file[o], lab[o], lab[o + 1])
    BY PlaceIs DEF BeginsFile
  <2>4. BeginsItem(S, file[o], lab[o], lab[o + 1]) \/ BeginsArray(file[o], lab[o], lab[o + 1])
    BY <2>1, <2>2, <2>3, FollowsKind
  <2>5. CASE BeginsItem(S, file[o], lab[o], lab[o + 1])
    <3>1. PICK c \in Known : \E k \in Nat :
            Allowed(lab[o], c, k) /\ lab[o + 1] = First(ItemFrame(PathIn(lab[o].in, c, k)))
      BY <2>5 DEF BeginsItem
    <3>2. PICK k \in Nat : Allowed(lab[o], c, k) /\ lab[o + 1] = First(ItemFrame(PathIn(lab[o].in, c, k)))
      BY <3>1
    <3> DEFINE p == PathIn(lab[o].in, c, k)
    <3>3. f = ItemFrame(p)
      BY <3>2, PlaceIs
    <3>4. Parent(ItemFrame(p)) = lab[o].in
      BY <2>1, <3>2, ItemIn
    <3> QED BY <3>3, <3>4, ArrayIn
  <2>6. CASE BeginsArray(file[o], lab[o], lab[o + 1])
    <3>1. PICK c \in Known : lab[o].in.of = "item" /\ lab[o + 1] = First(ArrayFrame(lab[o].in.path, c))
      BY <2>6 DEF BeginsArray
    <3>2. f = ArrayFrame(lab[o].in.path, c)
      BY <3>1, PlaceIs
    <3>3. lab[o].in = ItemFrame(lab[o].in.path)
      BY <2>1, <3>1, LegalIs
    <3> QED BY <3>2, <3>3, ArrayIn
  <2> QED BY <2>4, <2>5, <2>6
<1>4. lab[q + 1] = Later(Parent(f), Following(f))
  BY <1>1, <1>2, <1>3 DEF Ends
<1> QED BY <1>3, <1>4

(* A value is skipped to its end. *)
LEMMA SkipIs ==
  ASSUME NEW S, NEW lab, NEW w, Readable(S, lab, w), NEW o \in 1 .. Past, lab[o].mode = "value"
  PROVE  \/ SkipValue(o) = Past
         \/ /\ SkipValue(o) \in 1 .. Past
            /\ lab[SkipValue(o)].mode = "after" /\ lab[SkipValue(o)].in = lab[o].in
<1>0. Len(file) \in Nat /\ Past = Len(file) + 1 /\ file \in Seq(Tokens)
  BY ReadableIs
<1>1. CASE o = Past
  <2>1. o \notin DOMAIN file
    BY <1>0, <1>1
  <2>2. SkipValue(o) = Min({o + 1, Past})
    BY <2>1 DEF SkipValue, Is, Step
  <2>3. Min({o + 1, Past}) \in {o + 1, Past} /\ Min({o + 1, Past}) <= Past
    <3>1. {o + 1, Past} \in SUBSET Nat /\ {o + 1, Past} # {} /\ Past \in {o + 1, Past}
      BY <1>0
    <3> QED BY <3>1, MinIs
  <2>4. Min({o + 1, Past}) = Past
    BY <2>3, <1>0, <1>1
  <2> QED BY <2>2, <2>4
<1>2. CASE o # Past
  <2>0. o \in 1 .. Len(file) /\ o \in DOMAIN file /\ o + 1 \in 1 .. Past
    BY <1>0, <1>2
  <2>1. Follows(S, lab[o], file[o], lab[o + 1]) /\ S \in Configs \cup {Nothing}
    BY <2>0, ReadableIs
  <2>2. \/ BeginsItem(S, file[o], lab[o], lab[o + 1]) \/ BeginsArray(file[o], lab[o], lab[o + 1])
        \/ GivesValue(S, file[o], lab[o], lab[o + 1])
    BY <2>1, FollowsMode
  <2>3. ASSUME NEW type \in {"OBJECT", "ARRAY"}, file[o].kind = Opener[type], SkipValue(o) = Closed(o, type)
        PROVE  \/ SkipValue(o) = Past
               \/ /\ SkipValue(o) \in 1 .. Past
                  /\ lab[SkipValue(o)].mode = "after" /\ lab[SkipValue(o)].in = lab[o].in
    <3>1. CASE Closed(o, type) = Past
      BY <2>3, <3>1
    <3>2. CASE Closed(o, type) # Past
      <4>1. PICK q \in 1 .. Len(file) : IsCloser(file[q]) /\ w[q] = o /\ Closed(o, type) = q + 1
        BY <1>0, <2>0, <2>3, <3>2, ClosedIs, ReadableIs
      <4>2. lab[o].mode # "start"
        OBVIOUS
      <4>3. lab[q + 1] = Later(lab[o].in, Following(lab[o + 1].in))
        BY <4>1, <4>2, ShutIs
      <4>4. q + 1 \in 1 .. Past
        BY <1>0
      <4> QED BY <2>3, <4>1, <4>3, <4>4, PlaceIs
    <3> QED BY <3>1, <3>2
  <2>4. CASE BeginsItem(S, file[o], lab[o], lab[o + 1])
    <3>1. file[o].kind = "{"
      <4>1. PICK c \in Known : file[o] = Mark("{")
        BY <2>4 DEF BeginsItem
      <4> QED BY <4>1, KindIs
    <3>2. SkipValue(o) = Closed(o, "OBJECT")
      BY <2>0, <3>1 DEF SkipValue, Is
    <3> QED BY <2>3, <3>1, <3>2, BracketsAre
  <2>5. CASE BeginsArray(file[o], lab[o], lab[o + 1])
    <3>1. file[o].kind = "["
      <4>1. PICK c \in Known : file[o] = Mark("[")
        BY <2>5 DEF BeginsArray
      <4> QED BY <4>1, KindIs
    <3>2. SkipValue(o) = Closed(o, "ARRAY")
      BY <2>0, <3>1 DEF SkipValue, Is
    <3> QED BY <2>3, <3>1, <3>2, BracketsAre
  <2>6. CASE GivesValue(S, file[o], lab[o], lab[o + 1])
    <3>1. PICK c \in Known, k \in Nat : file[o] = Token("value", PathIn(lab[o].in, c, k)) /\ lab[o + 1] = Later(lab[o].in, k + 1)
      BY <2>6 DEF GivesValue
    <3>2. file[o].kind = "value"
      BY <3>1, KindIs
    <3>3. SkipValue(o) = Min({o + 1, Past})
      BY <3>2 DEF SkipValue, Is, Step
    <3>4. Min({o + 1, Past}) \in {o + 1, Past} /\ Min({o + 1, Past}) <= o + 1
      <4>1. {o + 1, Past} \in SUBSET Nat /\ {o + 1, Past} # {} /\ o + 1 \in {o + 1, Past}
        BY <1>0
      <4> QED BY <4>1, MinIs
    <3>5. Min({o + 1, Past}) = o + 1
      BY <3>4, <2>0, <1>0
    <3> QED BY <3>1, <3>3, <3>5, <2>0, PlaceIs
  <2> QED BY <2>2, <2>4, <2>5, <2>6
<1> QED BY <1>1, <1>2

LEMMA ReadSize ==
  ASSUME NEW S, NEW lab, NEW w, Readable(S, lab, w)
  PROVE  Len(file) \in Nat /\ Past \in Nat /\ Past = Len(file) + 1
<1>1. /\ S \in Configs \cup {Nothing} /\ file \in Seq(Tokens) /\ Len(file) \in Nat /\ Past \in Nat
      /\ Past = Len(file) + 1
  BY ReadableIs
<1> QED BY ONLY <1>1

LEMMA ReadAt ==
  ASSUME NEW S, NEW lab, NEW w, Readable(S, lab, w), NEW i \in 1 .. Past
  PROVE  /\ S \in Configs \cup {Nothing} /\ Legal(S, lab[i].in)
         /\ i # Past => i \in 1 .. Len(file) /\ i + 1 \in 1 .. Past /\ Follows(S, lab[i], file[i], lab[i + 1])
<1>1. /\ S \in Configs \cup {Nothing}
      /\ \A k \in 1 .. Len(file) : Follows(S, lab[k], file[k], lab[k + 1]) /\ k + 1 \in 1 .. Past
      /\ \A k \in 1 .. Past : Legal(S, lab[k].in)
  BY ReadableIs
<1>2. Len(file) \in Nat /\ Past \in Nat /\ Past = Len(file) + 1
  BY ReadSize
<1>3. i # Past => i \in 1 .. Len(file)
  BY ONLY <1>2, i \in 1 .. Past
<1> QED BY ONLY <1>1, <1>3, i \in 1 .. Past

(* The frames around one. *)
Around(g, f) == g = f \/ g = Outer \/ IsStrictPrefix(g.path, f.path)

LEMMA StrictIs ==
  ASSUME NEW s \in Seq(Steps), NEW t \in Seq(Steps)
  PROVE  IsStrictPrefix(s, t) <=> Len(s) < Len(t) /\ \A i \in 1 .. Len(s) : s[i] = t[i]
<1>0. Len(s) \in Nat /\ Len(t) \in Nat
  OBVIOUS
<1>1. ASSUME IsStrictPrefix(s, t) PROVE Len(s) < Len(t) /\ \A i \in 1 .. Len(s) : s[i] = t[i]
  <2>1. IsPrefix(s, t) /\ s # t
    BY <1>1 DEF IsStrictPrefix
  <2>2. Len(s) <= Len(t) /\ \A i \in 1 .. Len(s) : s[i] = t[i]
    BY <2>1, PrefixIs
  <2>3. Len(s) # Len(t)
    <3>1. Len(s) = Len(t) => s = t
      BY <2>2, SeqEqual
    <3> QED BY <2>1, <3>1
  <2> QED BY <2>2, <2>3, <1>0
<1>2. ASSUME Len(s) < Len(t), \A i \in 1 .. Len(s) : s[i] = t[i] PROVE IsStrictPrefix(s, t)
  <2>1. IsPrefix(s, t)
    BY <1>0, <1>2, PrefixIs
  <2>2. s # t
    BY <1>0, <1>2
  <2> QED BY <2>1, <2>2 DEF IsStrictPrefix
<1> QED BY <1>1, <1>2

LEMMA StrictFront ==
  ASSUME NEW s \in Seq(Steps), s # <<>>, NEW t \in Seq(Steps), s = t \/ IsStrictPrefix(s, t)
  PROVE  IsStrictPrefix(Front(s), t) /\ Front(s) \in Seq(Steps)
<1> DEFINE r == Front(s)
<1>1. r \in Seq(Steps) /\ Len(r) = Len(s) - 1 /\ \A i \in 1 .. Len(s) - 1 : r[i] = s[i]
  BY FrontIs
<1>2. Len(s) <= Len(t) /\ \A i \in 1 .. Len(s) : s[i] = t[i]
  <2>1. CASE s = t
    BY <2>1
  <2>2. CASE IsStrictPrefix(s, t)
    BY <2>2, StrictIs
  <2> QED BY <2>1, <2>2
<1> HIDE DEF r
<1>3. Len(s) \in Nat /\ Len(t) \in Nat
  OBVIOUS
<1>4. Len(r) < Len(t) /\ \A i \in 1 .. Len(r) : r[i] = t[i]
  BY <1>1, <1>2, <1>3
<1>5. IsStrictPrefix(r, t)
  BY <1>1, <1>4, StrictIs
<1> QED BY <1>1, <1>5 DEF r

LEMMA AroundParent ==
  ASSUME NEW S \in Configs \cup {Nothing}, NEW f, Legal(S, f), f.of # "array",
         NEW g, Legal(S, g), Around(g, f), g # Outer
  PROVE  Around(Parent(g), f)
<1>1. f.path \in Seq(Steps) /\ g.path \in Seq(Steps) /\ g.of \in {"item", "array"}
  BY LegalIs
<1>2. CASE g.of = "array"
  <2>1. g # f
    BY <1>2
  <2>2. IsStrictPrefix(g.path, f.path)
    BY <2>1 DEF Around
  <2>3. Parent(g) = ItemFrame(g.path)
    BY <1>2 DEF Parent
  <2> QED BY <2>2, <2>3, ArrayIn DEF Around
<1>3. CASE g.of = "item"
  <2>1. CASE g.path = <<>>
    BY <1>3, <2>1 DEF Parent, Around
  <2>2. CASE g.path # <<>>
    <3>1. g.path = f.path \/ IsStrictPrefix(g.path, f.path)
      BY DEF Around
    <3>2. IsStrictPrefix(Front(g.path), f.path)
      BY <1>1, <2>2, <3>1, StrictFront
    <3>3. Parent(g).path = Front(g.path)
      BY <1>3, <2>2, ArrayIn DEF Parent
    <3> QED BY <3>2, <3>3 DEF Around
  <2> QED BY <2>1, <2>2
<1> QED BY <1>1, <1>2, <1>3

IsComma(t) == t.kind = ","

LEMMA EndsNext ==
  ASSUME NEW S, NEW lab, NEW w, Readable(S, lab, w), NEW f, Legal(S, f), f.of # "array",
         NEW i \in 1 .. Past, i + 1 \in 1 .. Len(file), lab[i].mode = "after", Around(lab[i].in, f),
         ~IsComma(file[i])
  PROVE  lab[i + 1].mode = "after" /\ Around(lab[i + 1].in, f)
<1>0. i # Past /\ i + 1 \in 1 .. Past /\ i + 1 # Past
  <2>1. Len(file) \in Nat /\ Past \in Nat /\ Past = Len(file) + 1
    BY ReadSize
  <2> QED BY ONLY <2>1, i \in 1 .. Past, i + 1 \in 1 .. Len(file)
<1> DEFINE l == lab[i]
           m == lab[i + 1]
<1>1. S \in Configs \cup {Nothing} /\ Legal(S, l.in) /\ Follows(S, l, file[i], m)
  BY <1>0, ReadAt
<1>2. Legal(S, m.in) /\ Follows(S, m, file[i + 1], lab[i + 1 + 1])
  BY <1>0, ReadAt
<1>3. l.mode = "after" /\ Around(l.in, f)
  OBVIOUS
<1> HIDE DEF l, m
<1>4. ~IsComma(file[i])
  OBVIOUS
<1>5. ~Separates(file[i], l, m)
  BY ONLY <1>4, KindIs DEF Separates, IsComma
<1>6. Ends(file[i], l, m)
  BY <1>1, <1>3, <1>5, FollowsMode
<1>7. l.in # Outer
  <2> SUFFICES ASSUME l.in = Outer PROVE FALSE
    OBVIOUS
  <2>1. m = Finish
    BY <1>6 DEF Ends
  <2>2. m.mode = "end"
    BY <2>1, PlaceIs
  <2> QED BY <2>2, <1>1, <1>2, FollowsMode
<1>8. m = Later(Parent(l.in), Following(l.in))
  BY <1>6, <1>7 DEF Ends
<1>9. Around(Parent(l.in), f)
  BY <1>1, <1>3, <1>7, AroundParent
<1>10. m.mode = "after" /\ m.in = Parent(l.in)
  BY <1>8, PlaceIs
<1> QED BY <1>9, <1>10 DEF m

(* Up to the next comma there are only ends. *)
LEMMA ToComma ==
  ASSUME NEW S, NEW lab, NEW w, Readable(S, lab, w), NEW f, Legal(S, f), f.of # "array",
         NEW e \in 1 .. Past, lab[e].mode = "after", Around(lab[e].in, f),
         NEW j \in 1 .. Len(file), e <= j, \A i \in 1 .. Len(file) : e <= i /\ i < j => ~IsComma(file[i])
  PROVE  lab[j].mode = "after" /\ Around(lab[j].in, f)
<1>a. Len(file) \in Nat /\ Past \in Nat /\ Past = Len(file) + 1
  BY ReadSize
<1> DEFINE n == j - e
           T == {k \in 0 .. n : lab[e + k].mode = "after" /\ Around(lab[e + k].in, f)}
<1>0. n \in Nat /\ e + n = j /\ e \in Nat /\ e + 0 = e
  BY <1>a
<1>1. 0 \in T
  BY <1>0
<1>2. ASSUME NEW k \in 0 .. n, k \in T, k # n PROVE k + 1 \in T
  <2> DEFINE i == e + k
  <2>0. k \in Nat /\ k + 1 \in 0 .. n /\ k + 1 <= n
    BY <1>0, <1>2
  <2>1. i \in 1 .. Len(file) /\ e <= i /\ i < j /\ i \in 1 .. Past /\ e + (k + 1) = i + 1
        /\ i + 1 \in 1 .. Len(file)
    <3> HIDE DEF T
    <3> QED BY <1>a, <1>0, <2>0
  <2>2. lab[i].mode = "after" /\ Around(lab[i].in, f)
    BY <1>2
  <2>4. ~IsComma(file[i])
    BY <2>1
  <2> HIDE DEF i
  <2>5. lab[i + 1].mode = "after" /\ Around(lab[i + 1].in, f)
    BY <2>1, <2>2, <2>4, EndsNext
  <2>6. lab[e + (k + 1)].mode = "after" /\ Around(lab[e + (k + 1)].in, f)
    BY <2>1, <2>5
  <2> QED BY <2>0, <2>6
<1> HIDE DEF n, T
<1>3. \A k \in 0 .. n : k \in T
  BY <1>0, <1>1, <1>2, Upwards
<1>4. n \in T
  BY <1>0, <1>3
<1>5. lab[e + n].mode = "after" /\ Around(lab[e + n].in, f)
  BY <1>4 DEF T
<1> QED BY <1>0, <1>5

LEMMA SeparatesIs ==
  ASSUME NEW t, NEW l, NEW m, Separates(t, l, m)
  PROVE  m.mode = "next" /\ m.in = l.in /\ m.idx = l.idx
<1>1. m = Again(l.in, l.idx)
  BY DEF Separates
<1> QED BY ONLY <1>1 DEF Again, Place

(* Where the search for the next name ends. *)
LEMMA NextNameIs ==
  ASSUME NEW S, NEW lab, NEW w, Readable(S, lab, w), NEW f, Legal(S, f), f.of # "array",
         NEW o \in 1 .. Past, lab[o].mode = "value", Around(lab[o].in, f)
  PROVE  \/ NextName(o) = Past + 1
         \/ /\ NextName(o) \in 1 .. Past
            /\ lab[NextName(o)].mode = "next" /\ Around(lab[NextName(o)].in, f)
<1>0. Len(file) \in Nat /\ Past = Len(file) + 1
  BY ReadSize
<1>2. SkipValue(o) = Past \/ (SkipValue(o) \in 1 .. Past /\ lab[SkipValue(o)].mode = "after"
                             /\ lab[SkipValue(o)].in = lab[o].in)
  BY SkipIs
<1> DEFINE e == SkipValue(o)
           commas == {p \in e .. Len(file) : Is(p, ",")}
<1>1. NextName(o) = IF commas = {} THEN Past + 1 ELSE Min(commas) + 1
  BY DEF NextName
<1>3. e = Past \/ (e \in 1 .. Past /\ lab[e].mode = "after" /\ lab[e].in = lab[o].in)
  BY <1>2
<1> HIDE DEF e
<1>4. CASE commas = {}
  BY <1>1, <1>4
<1>5. CASE commas # {}
  <2>1. e # Past
    <3> SUFFICES ASSUME e = Past PROVE FALSE
      OBVIOUS
    <3>1. \A p \in e .. Len(file) : FALSE
      BY <1>0
    <3> QED BY <3>1, <1>5
  <2>2. e \in 1 .. Past /\ lab[e].mode = "after" /\ Around(lab[e].in, f)
    BY <1>3, <2>1
  <2>a. e \in 1 .. Past
    BY ONLY <2>2
  <2>b. \A p \in e .. Len(file) : p \in Nat /\ p \in 1 .. Len(file) /\ e <= p /\ p \in 1 .. Past /\ p # Past
    BY ONLY <1>0, <2>a
  <2>3. commas \in SUBSET Nat
    BY ONLY <2>b
  <2>4. PICK j : j \in commas /\ j = Min(commas) /\ \A i \in commas : j <= i
    <3> HIDE DEF commas
    <3>1. Min(commas) \in commas /\ \A i \in commas : Min(commas) <= i
      BY <2>3, <1>5, MinIs
    <3> QED BY <3>1
  <2>5. j \in e .. Len(file) /\ Is(j, ",")
    BY <2>4
  <2>6. j \in 1 .. Len(file) /\ e <= j /\ j \in 1 .. Past /\ j # Past
    BY ONLY <2>5, <2>b
  <2>7. ASSUME NEW i \in 1 .. Len(file), e <= i, i < j PROVE ~IsComma(file[i])
    <3> SUFFICES ASSUME IsComma(file[i]) PROVE FALSE
      OBVIOUS
    <3>0. file \in Seq(Tokens)
      BY DEF Readable, Text
    <3>a. i \in e .. Len(file)
      BY ONLY <1>0, <2>a, <2>7, i \in 1 .. Len(file)
    <3>1. i \in DOMAIN file /\ i \in e .. Len(file)
      BY <3>0, <3>a
    <3>2. i \in commas
      BY <3>1 DEF Is, IsComma
    <3>3. j <= i
      BY <3>2, <2>4
    <3>4. j \in Nat /\ i \in Nat
      BY ONLY <1>0, <2>6, i \in 1 .. Len(file)
    <3> QED BY ONLY <3>3, <3>4, i < j
  <2>8. lab[j].mode = "after" /\ Around(lab[j].in, f)
    BY <2>2, <2>6, <2>7, ToComma
  <2>9. Follows(S, lab[j], file[j], lab[j + 1]) /\ j + 1 \in 1 .. Past
    BY <2>6, ReadAt
  <2>10. IsComma(file[j])
    BY <2>5 DEF Is, IsComma
  <2>11. Separates(file[j], lab[j], lab[j + 1])
    BY <2>9, <2>10, FollowsKind DEF IsComma
  <2>12. lab[j + 1].mode = "next" /\ lab[j + 1].in = lab[j].in
    BY ONLY <2>11, SeparatesIs
  <2>13. NextName(o) = j + 1
    BY <1>1, <1>5, <2>4
  <2> QED BY <2>8, <2>9, <2>12, <2>13
<1> QED BY <1>4, <1>5

-----------------------------------------------------------------------------
(* The search for a name. *)
LEMMA StepIs ==
  ASSUME Len(file) \in Nat, NEW o \in 1 .. Past
  PROVE  Step(o) \in 1 .. Past /\ Step(o) >= o /\ (o # Past => Step(o) = o + 1) /\ (o = Past => Step(o) = Past)
<1>0. Past = Len(file) + 1
  BY DEF Past
<1>1. {o + 1, Past} \in SUBSET Nat /\ {o + 1, Past} # {}
  BY <1>0
<1>2. Min({o + 1, Past}) \in {o + 1, Past} /\ \A j \in {o + 1, Past} : Min({o + 1, Past}) <= j
  BY <1>1, MinIs
<1>3. Step(o) \in {o + 1, Past} /\ Step(o) <= o + 1 /\ Step(o) <= Past
  BY <1>2 DEF Step
<1> QED BY <1>0, <1>3

LEMMA ClosedOn ==
  ASSUME Len(file) \in Nat, NEW o \in 1 .. Past, NEW type
  PROVE  Closed(o, type) \in Nat /\ Closed(o, type) >= o
<1> DEFINE ends == {p \in o + 1 .. Len(file) :
                     Cardinality(Those(o, p, Opener[type])) = Cardinality(Those(o, p, Closer[type]))}
<1>0. Past = Len(file) + 1 /\ o \in Nat /\ o <= Past
  BY DEF Past
<1>1. Closed(o, type) = IF ends = {} THEN Past ELSE Min(ends) + 1
  BY DEF Closed, Those
<1>2. ends \in SUBSET Nat /\ \A j \in ends : j >= o + 1
  BY <1>0
<1> HIDE DEF ends
<1>3. ends # {} => Min(ends) \in ends
  BY <1>2, MinIs
<1>4. ends # {} => Min(ends) \in Nat /\ Min(ends) >= o + 1
  BY <1>2, <1>3
<1>5. CASE ends = {}
  BY <1>0, <1>1, <1>5
<1>6. CASE ends # {}
  <2>1. Closed(o, type) = Min(ends) + 1
    BY <1>1, <1>6
  <2> QED BY ONLY <2>1, <1>4, <1>6, <1>0
<1> QED BY <1>5, <1>6

LEMMA NextNameOn ==
  ASSUME Len(file) \in Nat, NEW o \in 1 .. Past
  PROVE  NextName(o) \in Nat /\ NextName(o) > o
<1>0. Past = Len(file) + 1 /\ o \in Nat /\ o <= Past
  BY DEF Past
<1>1. SkipValue(o) \in Nat /\ SkipValue(o) >= o
  <2>1. Step(o) \in Nat /\ Step(o) >= o
    BY <1>0, StepIs
  <2>2. /\ Closed(o, "OBJECT") \in Nat /\ Closed(o, "OBJECT") >= o
        /\ Closed(o, "ARRAY") \in Nat /\ Closed(o, "ARRAY") >= o
    BY ClosedOn
  <2> QED BY ONLY <2>1, <2>2 DEF SkipValue
<1> DEFINE e == SkipValue(o)
           commas == {p \in e .. Len(file) : Is(p, ",")}
<1>2. NextName(o) = IF commas = {} THEN Past + 1 ELSE Min(commas) + 1
  BY DEF NextName
<1> HIDE DEF e
<1>3. e \in Nat /\ e >= o
  BY <1>1 DEF e
<1>4. commas \in SUBSET Nat /\ \A j \in commas : j >= e
  <2>1. \A p \in e .. Len(file) : p \in Nat /\ p >= e
    BY ONLY <1>3, Len(file) \in Nat
  <2> QED BY ONLY <2>1
<1> HIDE DEF commas
<1>5. commas # {} => Min(commas) \in commas
  BY <1>4, MinIs
<1>6. commas # {} => Min(commas) \in Nat /\ Min(commas) >= e
  BY <1>4, <1>5
<1>7. CASE commas = {}
  BY <1>0, <1>2, <1>7
<1>8. CASE commas # {}
  <2>1. NextName(o) = Min(commas) + 1
    BY <1>2, <1>8
  <2> QED BY ONLY <2>1, <1>8, <1>6, <1>3, <1>0
<1> QED BY <1>7, <1>8

(* One round of the loop of findName, when the others are known. *)
Result(res, o) == [res |-> res, off |-> o]

Looks(c, find, p) ==
  IF ~Is(p, "name") THEN Result("incoherent", off)
  ELSE IF file[p] = NameToken(c) THEN Result("success", p + 1)
  ELSE IF p + 1 >= Past THEN Result("incoherent", off)
  ELSE IF NextName(p + 1) > Past THEN Result("not found", off)
  ELSE find[NextName(p + 1)]

Searching(c, find) ==
  /\ \A p \in 1 .. Past + 1 : find[p] = Looks(c, find, p)
  /\ \A o \in 1 .. Past + 1 : FindName(c, o) = find[o]

LEMMA LooksSame ==
  ASSUME Len(file) \in Nat, NEW c, NEW p \in 1 .. Past + 1, NEW f, NEW g,
         \A q \in 1 .. Past : q > p => f[q] = g[q]
  PROVE  Looks(c, f, p) = Looks(c, g, p)
<1>0. Past \in Nat /\ Past = Len(file) + 1
  BY DEF Past
<1> DEFINE q == NextName(p + 1)
<1>1. p + 1 < Past /\ q <= Past => f[q] = g[q]
  <2> SUFFICES ASSUME p + 1 < Past, q <= Past PROVE f[q] = g[q]
    OBVIOUS
  <2>1. p + 1 \in 1 .. Past
    BY <1>0
  <2>2. q \in Nat /\ q > p + 1
    BY <2>1, NextNameOn
  <2> HIDE DEF q
  <2>3. q \in 1 .. Past /\ q > p
    BY <2>2, <1>0
  <2> QED BY <2>3
<1>2. q \in Nat \/ ~(p + 1 < Past)
  <2>1. p + 1 < Past => p + 1 \in 1 .. Past
    BY <1>0
  <2> QED BY <2>1, NextNameOn
<1>3. p + 1 >= Past \/ q > Past \/ f[q] = g[q]
  <2> HIDE DEF q
  <2> QED BY <1>0, <1>1, <1>2
<1> QED BY <1>3 DEF Looks

LEMMA Searches ==
  ASSUME file \in Seq(Tokens), NEW c
  PROVE  \E find : Searching(c, find)
<1> DEFINE m == Past + 1
           IsFind(f, k) == f = [p \in k .. m |-> Looks(c, f, p)]
           T == {k \in 1 .. m : \E f : IsFind(f, k)}
<1>0. Len(file) \in Nat /\ Past \in Nat /\ Past = Len(file) + 1 /\ m \in Nat /\ m \in 1 .. m /\ 1 \in 1 .. m
      /\ m = Past + 1 /\ DOMAIN file = 1 .. Len(file)
  BY DEF Past
<1>1. m \in T
  <2> DEFINE f == [p \in m .. m |-> Result("incoherent", off)]
  <2>1. ASSUME NEW p \in m .. m PROVE ~Is(p, "name")
    <3>1. p = Len(file) + 2
      BY <1>0
    <3>2. p \notin 1 .. Len(file)
      BY ONLY <3>1, <1>0
    <3> QED BY <3>2, <1>0 DEF Is
  <2>2. \A p \in m .. m : Looks(c, f, p) = Result("incoherent", off)
    BY <2>1 DEF Looks
  <2>3. IsFind(f, m)
    BY <2>2
  <2> HIDE DEF f, IsFind
  <2> QED BY <1>0, <2>3
<1>2. ASSUME NEW k \in 1 .. m, k # m, k + 1 \in T PROVE k \in T
  <2>1. PICK f : IsFind(f, k + 1)
    BY <1>2
  <2> DEFINE g == [p \in k .. m |-> IF p = k THEN Looks(c, f, p) ELSE f[p]]
  <2>2. ASSUME NEW p \in k .. m PROVE Looks(c, g, p) = Looks(c, f, p)
    <3>1. p \in 1 .. Past + 1
      BY <1>0
    <3>2. \A q \in 1 .. Past : q > p => q \in k .. m /\ q # k
      BY <1>0
    <3>3. \A q \in 1 .. Past : q > p => g[q] = f[q]
      BY <3>2
    <3> HIDE DEF g, IsFind, T, m
    <3> QED BY <1>0, <3>1, <3>3, LooksSame
  <2>3. ASSUME NEW p \in k .. m PROVE g[p] = Looks(c, f, p)
    <3>1. CASE p = k
      BY <3>1
    <3>2. CASE p # k
      <4>1. p \in k + 1 .. m
        BY <1>0, <3>2
      <4> QED BY <2>1, <3>2, <4>1
    <3> QED BY <3>1, <3>2
  <2>4. IsFind(g, k)
    <3>1. \A p \in k .. m : g[p] = Looks(c, g, p)
      BY <2>2, <2>3
    <3> HIDE DEF Looks
    <3> QED BY <3>1
  <2> HIDE DEF g, IsFind
  <2> QED BY <2>4
<1>3. \A k \in 1 .. m : k \in T
  <2> HIDE DEF m, T
  <2> QED BY <1>0, <1>1, <1>2, Downwards
<1>4. PICK f : IsFind(f, 1)
  BY <1>0, <1>3
<1> DEFINE find[p \in 1 .. Past + 1] ==
      IF ~Is(p, "name") THEN [res |-> "incoherent", off |-> off]
      ELSE IF file[p] = NameToken(c) THEN [res |-> "success", off |-> p + 1]
      ELSE IF p + 1 >= Past THEN [res |-> "incoherent", off |-> off]
      ELSE IF NextName(p + 1) > Past THEN [res |-> "not found", off |-> off]
      ELSE find[NextName(p + 1)]
<1>5. find = [p \in 1 .. Past + 1 |-> Looks(c, find, p)]
  <2>1. f = [p \in 1 .. Past + 1 |-> Looks(c, f, p)]
    BY <1>4
  <2> HIDE DEF IsFind, T, m
  <2> QED BY <2>1 DEF Looks, Result
<1>6. \A o \in 1 .. Past + 1 : FindName(c, o) = find[o]
  BY DEF FindName
<1> HIDE DEF find
<1> QED BY <1>5, <1>6 DEF Searching

(* The name is that of no other member around. *)
Alone(S, f, c) ==
  \A g : /\ Legal(S, g) /\ Around(g, f)
         /\ (g = Outer /\ c = Base) \/ (g.of = "item" /\ c \in Parts(Schema, g.path))
         => g = f

(* What a search in f for component c may result in. *)
Shaped(r) == r = Result(r.res, r.off)

Answers(f, c, lab, r) ==
  /\ Shaped(r)
  /\ \/ r.res = "success" /\ r.off \in 1 .. Past /\ lab[r.off] = Awaits(f, c)
     \/ r.res \in {"incoherent", "not found"} /\ r.off = off

LEMMA ResultIs ==
  ASSUME NEW x, NEW o
  PROVE  Result(x, o).res = x /\ Result(x, o).off = o /\ Shaped(Result(x, o))
BY DEF Result, Shaped

LEMMA AnswersNot ==
  ASSUME NEW f, NEW c, NEW lab
  PROVE  Answers(f, c, lab, Result("not found", off)) /\ Answers(f, c, lab, Result("incoherent", off))
<1>1. \A x \in {"incoherent", "not found"} : Result(x, off).res = x /\ Result(x, off).off = off /\ Shaped(Result(x, off))
  BY ResultIs
<1> QED BY <1>1 DEF Answers

Turns(f, lab, p) == p \in 1 .. Past /\ lab[p].mode \in {"first", "next"} /\ Around(lab[p].in, f)

LEMMA SameName ==
  ASSUME NEW c \in Known, NEW e \in Known, NameToken(c) = NameToken(e)
  PROVE  c = e
<1>1. <<<<c.name, 0>>>> = <<<<e.name, 0>>>>
  <2>1. NameToken(c).val = NameToken(e).val
    OBVIOUS
  <2> QED BY <2>1 DEF NameToken, Token
<1>2. <<<<c.name, 0>>>>[1] = <<<<e.name, 0>>>>[1]
  BY <1>1
<1>3. c.name = e.name
  BY <1>2
<1> QED BY <1>3, NamesAssumption

(* The name is there. *)
LEMMA LooksHere ==
  ASSUME NEW S, NEW lab, NEW w, Readable(S, lab, w), NEW f, Legal(S, f), NEW c \in Known, Alone(S, f, c),
         NEW p, Turns(f, lab, p), Is(p, "name")
  PROVE  /\ p \in 1 .. Len(file) /\ p + 1 \in 1 .. Past /\ lab[p + 1].mode = "value"
         /\ Around(lab[p + 1].in, f)
         /\ file[p] = NameToken(c) => lab[p + 1] = Awaits(f, c)
<1>1. p \in 1 .. Len(file) /\ p \in 1 .. Past /\ p # Past
  <2>1. file \in Seq(Tokens) /\ Len(file) \in Nat
    BY ReadSize DEF Readable, Text
  <2>2. p \in DOMAIN file
    BY DEF Is
  <2> QED BY <2>1, <2>2, ReadSize
<1>2. p + 1 \in 1 .. Past /\ Follows(S, lab[p], file[p], lab[p + 1]) /\ Legal(S, lab[p].in)
  BY <1>1, ReadAt
<1>3. GivesName(file[p], lab[p], lab[p + 1])
  <2>1. file[p].kind = "name"
    BY DEF Is
  <2> QED BY <2>1, <1>2, FollowsKind
<1>4. PICK e \in Known :
        /\ file[p] = NameToken(e) /\ lab[p + 1] = Awaits(lab[p].in, e)
        /\ (lab[p].in = Outer /\ e = Base) \/ (lab[p].in.of = "item" /\ e \in Parts(Schema, lab[p].in.path))
  BY <1>3 DEF GivesName
<1>5. Around(lab[p].in, f)
  BY DEF Turns
<1>6. lab[p + 1].mode = "value" /\ lab[p + 1].in = lab[p].in
  BY <1>4 DEF Awaits, Place
<1>7. ASSUME file[p] = NameToken(c) PROVE lab[p + 1] = Awaits(f, c)
  <2>1. e = c
    BY <1>4, <1>7, SameName
  <2>2. lab[p].in = f
    BY <1>2, <1>4, <1>5, <2>1 DEF Alone
  <2> QED BY <1>4, <2>1, <2>2
<1> QED BY <1>1, <1>2, <1>5, <1>6, <1>7

LEMMA FindIs ==
  ASSUME NEW S, NEW lab, NEW w, Readable(S, lab, w), NEW f, Legal(S, f), f.of # "array",
         NEW c \in Known, Alone(S, f, c), NEW o, Turns(f, lab, o)
  PROVE  Answers(f, c, lab, FindName(c, o))
<1>0. file \in Seq(Tokens) /\ Len(file) \in Nat /\ Past \in Nat /\ Past = Len(file) + 1
  BY ReadSize DEF Readable, Text
<1>1. PICK find : Searching(c, find)
  BY <1>0, Searches
<1> DEFINE m == Past + 1
           T == {k \in 1 .. m : \A q \in k .. m : Turns(f, lab, q) => Answers(f, c, lab, find[q])}
<1>2. m \in T
  <2>1. ~Turns(f, lab, m)
    BY <1>0 DEF Turns
  <2>2. \A q \in m .. m : q = m
    BY <1>0
  <2> QED BY <1>0, <2>1, <2>2
<1>3. ASSUME NEW k \in 1 .. m, k # m, k + 1 \in T PROVE k \in T
  <2>1. ASSUME Turns(f, lab, k) PROVE Answers(f, c, lab, find[k])
    <3> DEFINE q == NextName(k + 1)
    <3>0. k \in 1 .. Past + 1
      BY <1>0
    <3>1. find[k] = Looks(c, find, k)
      BY <1>1, <3>0 DEF Searching
    <3>2. CASE ~Is(k, "name")
      <4>1. Looks(c, find, k) = Result("incoherent", off)
        BY <3>2 DEF Looks
      <4>2. find[k] = Result("incoherent", off)
        BY ONLY <3>1, <4>1
      <4> QED BY ONLY <4>2, AnswersNot
    <3>3. CASE Is(k, "name")
      <4>1. /\ k \in 1 .. Len(file) /\ k + 1 \in 1 .. Past /\ lab[k + 1].mode = "value"
            /\ Around(lab[k + 1].in, f)
            /\ file[k] = NameToken(c) => lab[k + 1] = Awaits(f, c)
        BY <2>1, <3>3, LooksHere
      <4>2. CASE file[k] = NameToken(c)
        <5>1. Looks(c, find, k) = Result("success", k + 1)
          BY <3>3, <4>2 DEF Looks
        <5>2. find[k] = Result("success", k + 1)
          BY ONLY <3>1, <5>1
        <5>3. find[k].res = "success" /\ find[k].off = k + 1 /\ Shaped(find[k])
          BY ONLY <5>2, ResultIs
        <5> QED BY <4>1, <4>2, <5>3 DEF Answers
      <4>3. CASE file[k] # NameToken(c) /\ k + 1 >= Past
        <5>1. Looks(c, find, k) = Result("incoherent", off)
          BY <3>3, <4>3 DEF Looks
        <5>2. find[k] = Result("incoherent", off)
          BY ONLY <3>1, <5>1
        <5> QED BY ONLY <5>2, AnswersNot
      <4>4. CASE file[k] # NameToken(c) /\ ~(k + 1 >= Past)
        <5>1. CASE q > Past
          <6>1. Looks(c, find, k) = Result("not found", off)
            BY <3>3, <4>4, <5>1 DEF Looks
          <6>2. find[k] = Result("not found", off)
            BY ONLY <3>1, <6>1
          <6> QED BY ONLY <6>2, AnswersNot
        <5>2. CASE ~(q > Past)
          <6>1. find[k] = find[q]
            BY <3>1, <3>3, <4>4, <5>2 DEF Looks
          <6>2. q = Past + 1 \/ (q \in 1 .. Past /\ lab[q].mode = "next" /\ Around(lab[q].in, f))
            BY <4>1, NextNameIs
          <6>3. q \in Nat /\ q > k + 1
            BY <4>1, <1>0, NextNameOn
          <6> HIDE DEF q
          <6>4. Turns(f, lab, q)
            <7>1. q # Past + 1
              BY <5>2, <1>0
            <7> QED BY <6>2, <7>1 DEF Turns
          <6>5. q \in k + 1 .. m
            BY ONLY <6>3, <5>2, <1>0, k \in 1 .. m
          <6>6. Answers(f, c, lab, find[q])
            BY <1>3, <6>4, <6>5
          <6> QED BY <6>1, <6>6
        <5> QED BY <5>1, <5>2
      <4> QED BY <4>2, <4>3, <4>4
    <3> QED BY <3>2, <3>3
  <2>2. \A q \in k .. m : q = k \/ q \in k + 1 .. m
    BY <1>0
  <2> QED BY <1>3, <2>1, <2>2
<1>4. \A k \in 1 .. m : k \in T
  <2>1. m \in Nat
    BY <1>0
  <2> HIDE DEF m, T
  <2> QED BY <2>1, <1>2, <1>3, Downwards
<1>5. o \in 1 .. m /\ o \in o .. m /\ o \in 1 .. Past + 1
  BY <1>0 DEF Turns
<1>6. Answers(f, c, lab, find[o])
  BY <1>4, <1>5
<1> QED BY <1>1, <1>5, <1>6 DEF Searching

LEMMA AloneOuter ==
  ASSUME NEW S \in Configs \cup {Nothing}
  PROVE  Alone(S, Outer, Base)
<1> SUFFICES ASSUME NEW g, Legal(S, g), g.of = "item", Base \in Parts(Schema, g.path) PROVE FALSE
  BY DEF Alone
<1>1. g # Outer
  BY LegalIs
<1> QED BY <1>1, PartOf

LEMMA AloneItem ==
  ASSUME Apart, NEW S \in Configs \cup {Nothing}, NEW f, Legal(S, f), f.of = "item",
         NEW schema \in {Schema, NewSchema}, CompOf(f.path).desc \in DOMAIN schema,
         NEW c \in Parts(schema, f.path)
  PROVE  Alone(S, f, c)
<1>1. f # Outer /\ f.path \in Kept(S)
  BY LegalIs, ArrayIn
<1>2. S \in Configs /\ f.path \in S
  BY <1>1, KeptIs
<1>3. c # Base
  BY PartsAre DEF Parts
<1>4. ASSUME NEW g, Legal(S, g), Around(g, f), g.of = "item", c \in Parts(Schema, g.path), g # f PROVE FALSE
  <2>1. g # Outer /\ g.path \in Kept(S) /\ CompOf(g.path).desc \in DOMAIN Schema
    BY <1>4, LegalIs, ArrayIn
  <2>2. g.path \in S
    BY <2>1, KeptIs
  <2>3. IsStrictPrefix(g.path, f.path)
    BY <1>4, <2>1 DEF Around
  <2>4. Parts(Schema, g.path) \cap Parts(schema, f.path) = {}
    BY <1>2, <2>1, <2>2, <2>3 DEF Apart
  <2> QED BY <1>4, <2>4
<1> QED BY <1>3, <1>4 DEF Alone

-----------------------------------------------------------------------------
(* The frames that are open, and the contexts on the stack. *)
Frames  == [of : {"file", "item", "array"}, path : Seq(Steps), comp : Known]
Stacked == [type : {"OBJECT", "ARRAY"}, first : BOOLEAN]

Stack(S, fr, ctx) ==
  /\ fr \in Seq(Frames) /\ fr # <<>> /\ fr[1] = Outer
  /\ \A j \in 1 .. Len(fr) : Legal(S, fr[j])
  /\ \A j \in 2 .. Len(fr) : fr[j] # Outer /\ fr[j - 1] = Parent(fr[j])
  /\ ctx \in Seq(Stacked) /\ Len(ctx) = Len(fr)
  /\ \A j \in 1 .. Len(fr) : ctx[j].type = TypeOf(fr[j])

LEMMA FrameIs ==
  ASSUME NEW S \in Configs \cup {Nothing}, NEW f, Legal(S, f)
  PROVE  f \in Frames
<1>1. CASE f = Outer
  BY <1>1, BaseIs, EmptySeq DEF Outer, Frame, Frames
<1>2. CASE f.of = "item"
  <2>1. f = Frame("item", f.path, Base) /\ f.path \in Seq(Steps)
    BY <1>2, LegalIs DEF ItemFrame
  <2> QED BY ONLY <2>1, BaseIs DEF Frame, Frames
<1>3. CASE f.of = "array"
  <2>1. f = Frame("array", f.path, f.comp) /\ f.path \in Seq(Steps) /\ f.comp \in Parts(Schema, f.path) /\ f # Outer
    BY <1>3, LegalIs, ArrayIn DEF ArrayFrame
  <2>2. f.comp \in Known
    BY <2>1, PartOf
  <2> QED BY ONLY <2>1, <2>2 DEF Frame, Frames
<1> QED BY <1>1, <1>2, <1>3, LegalIs

LEMMA ContextIs ==
  ASSUME NEW f, NEW b \in BOOLEAN
  PROVE  /\ Context(TypeOf(f), b) \in Stacked
         /\ Context(TypeOf(f), b).type = TypeOf(f) /\ Context(TypeOf(f), b).first = b
BY DEF Context, Stacked, TypeOf

LEMMA StackTop ==
  ASSUME NEW S, NEW fr, NEW ctx, Stack(S, fr, ctx)
  PROVE  /\ Len(fr) \in Nat /\ Len(fr) >= 1 /\ Last(fr) = fr[Len(fr)] /\ Last(ctx) = ctx[Len(fr)]
         /\ fr \in Seq(Frames) /\ fr # <<>> /\ Len(ctx) = Len(fr) /\ ctx # <<>> /\ ctx \in Seq(Stacked)
         /\ Legal(S, Last(fr)) /\ Last(fr) \in Frames
         /\ Last(ctx).type = TypeOf(Last(fr)) /\ Last(ctx).first \in BOOLEAN
         /\ Last(fr) = Outer => Len(fr) = 1
<1>1. Len(fr) \in Nat /\ Len(fr) >= 1 /\ Len(fr) \in 1 .. Len(fr) /\ fr \in Seq(Frames) /\ fr # <<>>
      /\ Len(ctx) = Len(fr) /\ ctx # <<>> /\ ctx \in Seq(Stacked)
  <2>1. fr \in Seq(Frames) /\ fr # <<>> /\ Len(ctx) = Len(fr) /\ ctx \in Seq(Stacked)
    BY DEF Stack
  <2> QED BY <2>1
<1>2. Last(fr) = fr[Len(fr)] /\ Last(ctx) = ctx[Len(fr)]
  BY <1>1 DEF Last
<1>3. Legal(S, Last(fr)) /\ Last(ctx).type = TypeOf(Last(fr))
  BY <1>1, <1>2 DEF Stack
<1>4. Last(ctx).first \in BOOLEAN /\ Last(fr) \in Frames
  <2>1. ctx[Len(fr)] \in Stacked /\ fr[Len(fr)] \in Frames
    BY <1>1
  <2> QED BY <1>2, <2>1 DEF Stacked
<1>5. Len(fr) # 1 => Last(fr) # Outer
  <2>1. Len(fr) # 1 => Len(fr) \in 2 .. Len(fr)
    BY ONLY <1>1
  <2> QED BY <2>1, <1>2 DEF Stack
<1> QED BY <1>1, <1>2, <1>3, <1>4, <1>5

LEMMA AppendIs ==
  ASSUME NEW X, NEW s \in Seq(X), NEW x \in X
  PROVE  /\ Append(s, x) \in Seq(X) /\ Len(Append(s, x)) = Len(s) + 1 /\ Append(s, x)[Len(s) + 1] = x
         /\ Last(Append(s, x)) = x /\ Append(s, x) # <<>>
         /\ \A i \in 1 .. Len(s) : Append(s, x)[i] = s[i]
<1>1. Append(s, x) \in Seq(X) /\ Len(Append(s, x)) = Len(s) + 1 /\ Append(s, x)[Len(s) + 1] = x
      /\ \A i \in 1 .. Len(s) : Append(s, x)[i] = s[i]
  OBVIOUS
<1> DEFINE t == Append(s, x)
<1>2. Last(t) = t[Len(t)]
  BY DEF Last
<1>3. Len(s) \in Nat
  OBVIOUS
<1>4. t # <<>>
  <2> HIDE DEF t
  <2>1. Len(t) # 0
    BY <1>1, <1>3 DEF t
  <2> QED BY <2>1
<1> QED BY <1>1, <1>2, <1>4

LEMMA StackOpens ==
  ASSUME NEW S \in Configs \cup {Nothing}, NEW fr, NEW ctx, Stack(S, fr, ctx),
         NEW f, Legal(S, f), f # Outer, Parent(f) = Last(fr)
  PROVE  Stack(S, Append(fr, f), Append(ctx, Context(TypeOf(f), TRUE)))
<1>1. /\ Len(fr) \in Nat /\ Len(fr) >= 1 /\ Last(fr) = fr[Len(fr)] /\ fr \in Seq(Frames)
      /\ Len(ctx) = Len(fr) /\ ctx \in Seq(Stacked)
  BY StackTop
<1>2. f \in Frames
  BY FrameIs
<1> DEFINE x == Context(TypeOf(f), TRUE)
           r == Append(fr, f)
           y == Append(ctx, x)
<1>3. x \in Stacked /\ x.type = TypeOf(f)
  BY ContextIs
<1> HIDE DEF x
<1>4. /\ r \in Seq(Frames) /\ Len(r) = Len(fr) + 1 /\ r[Len(fr) + 1] = f /\ r # <<>>
      /\ \A i \in 1 .. Len(fr) : r[i] = fr[i]
  BY <1>1, <1>2, AppendIs
<1>5. /\ y \in Seq(Stacked) /\ Len(y) = Len(fr) + 1 /\ y[Len(fr) + 1] = x
      /\ \A i \in 1 .. Len(fr) : y[i] = ctx[i]
  BY <1>1, <1>3, AppendIs
<1> HIDE DEF r, y
<1> DEFINE n == Len(fr)
<1>6. n \in Nat /\ n >= 1 /\ 1 \in 1 .. n /\ \A j \in 1 .. n + 1 : j \in 1 .. n \/ j = n + 1
  BY <1>1
<1>7. \A j \in 2 .. n + 1 : (j \in 2 .. n /\ j \in 1 .. n /\ j - 1 \in 1 .. n) \/ (j = n + 1 /\ j - 1 = n /\ n \in 1 .. n)
  BY ONLY <1>6
<1>8. \A j \in 1 .. Len(r) : Legal(S, r[j]) /\ y[j].type = TypeOf(r[j])
  <2>1. \A j \in 1 .. n : Legal(S, fr[j]) /\ ctx[j].type = TypeOf(fr[j])
    BY DEF Stack
  <2> HIDE DEF n
  <2>2. Len(r) = n + 1 /\ r[n + 1] = f /\ y[n + 1] = x /\ \A i \in 1 .. n : r[i] = fr[i] /\ y[i] = ctx[i]
    BY <1>4, <1>5 DEF n
  <2> QED BY ONLY <1>6, <1>3, <2>1, <2>2, Legal(S, f)
<1>9. \A j \in 2 .. Len(r) : r[j] # Outer /\ r[j - 1] = Parent(r[j])
  <2>1. \A j \in 2 .. n : fr[j] # Outer /\ fr[j - 1] = Parent(fr[j])
    BY DEF Stack
  <2>2. Len(r) = n + 1 /\ r[n + 1] = f /\ fr[n] = Parent(f) /\ \A i \in 1 .. n : r[i] = fr[i]
    BY <1>1, <1>4
  <2> HIDE DEF n
  <2> QED BY ONLY <1>7, <2>1, <2>2, f # Outer
<1>10. r[1] = Outer
  BY <1>4, <1>6 DEF Stack
<1>11. Len(y) = Len(r)
  BY <1>4, <1>5
<1>12. Stack(S, r, y)
  BY ONLY <1>4, <1>5, <1>8, <1>9, <1>10, <1>11 DEF Stack
<1> QED BY <1>12 DEF r, y, x

LEMMA NotFirstIs ==
  ASSUME NEW s \in Seq(Stacked), s # <<>>, NEW r, r = NotFirst(s)
  PROVE  /\ r \in Seq(Stacked) /\ Len(r) = Len(s) /\ r # <<>>
         /\ Last(r).first = FALSE /\ Last(r) = r[Len(s)]
         /\ \A j \in 1 .. Len(s) : r[j].type = s[j].type
<1> DEFINE n == Len(s)
<1>0. n \in Nat /\ n \in 1 .. n
  BY EmptySeq
<1> DEFINE x == [s[n] EXCEPT !.first = FALSE]
<1>1. r = [s EXCEPT ![n] = x]
  BY DEF NotFirst
<1>2. s[n] \in Stacked
  BY <1>0
<1>3. x \in Stacked /\ x.first = FALSE /\ x.type = s[n].type
  BY <1>2 DEF Stacked
<1> HIDE DEF x
<1>4. r \in Seq(Stacked) /\ Len(r) = n /\ r[n] = x /\ \A j \in 1 .. n : r[j] = IF j = n THEN x ELSE s[j]
  BY <1>0, <1>1, <1>3
<1>5. Last(r) = r[n] /\ r # <<>>
  BY <1>0, <1>4 DEF Last
<1>6. \A j \in 1 .. n : r[j].type = s[j].type
  BY <1>3, <1>4
<1> QED BY <1>3, <1>4, <1>5, <1>6

LEMMA StackRetypes ==
  ASSUME NEW S, NEW fr, NEW ctx, Stack(S, fr, ctx), NEW c2 \in Seq(Stacked), Len(c2) = Len(ctx),
         \A j \in 1 .. Len(ctx) : c2[j].type = ctx[j].type
  PROVE  Stack(S, fr, c2)
<1>1. /\ fr \in Seq(Frames) /\ fr # <<>> /\ fr[1] = Outer
      /\ \A j \in 1 .. Len(fr) : Legal(S, fr[j])
      /\ \A j \in 2 .. Len(fr) : fr[j] # Outer /\ fr[j - 1] = Parent(fr[j])
      /\ Len(ctx) = Len(fr)
      /\ \A j \in 1 .. Len(fr) : ctx[j].type = TypeOf(fr[j])
  BY DEF Stack
<1>2. Len(c2) = Len(fr) /\ \A j \in 1 .. Len(fr) : c2[j].type = TypeOf(fr[j])
  BY <1>1
<1> QED BY ONLY <1>1, <1>2, c2 \in Seq(Stacked) DEF Stack

LEMMA StackMoves ==
  ASSUME NEW S, NEW fr, NEW ctx, Stack(S, fr, ctx), NEW c2, c2 = NotFirst(ctx)
  PROVE  Stack(S, fr, c2) /\ Last(c2).first = FALSE
<1>1. ctx \in Seq(Stacked) /\ ctx # <<>>
  BY StackTop
<1>2. /\ c2 \in Seq(Stacked) /\ Len(c2) = Len(ctx) /\ Last(c2).first = FALSE
      /\ \A j \in 1 .. Len(ctx) : c2[j].type = ctx[j].type
  BY <1>1, NotFirstIs
<1> QED BY <1>2, StackRetypes

LEMMA StackFront ==
  ASSUME NEW S, NEW fr, NEW ctx, Stack(S, fr, ctx), Last(fr) # Outer
  PROVE  /\ Stack(S, Front(fr), Front(ctx)) /\ Last(Front(fr)) = Parent(Last(fr))
         /\ Len(Front(fr)) = Len(fr) - 1
<1>1. /\ Len(fr) \in Nat /\ Len(fr) >= 1 /\ Last(fr) = fr[Len(fr)] /\ fr \in Seq(Frames) /\ fr # <<>>
      /\ Len(ctx) = Len(fr) /\ ctx \in Seq(Stacked) /\ ctx # <<>>
  BY StackTop
<1> DEFINE n == Len(fr)
           r == Front(fr)
           y == Front(ctx)
<1>2. r \in Seq(Frames) /\ Len(r) = n - 1 /\ \A i \in 1 .. n - 1 : r[i] = fr[i]
  BY <1>1, FrontIs
<1>3. y \in Seq(Stacked) /\ Len(y) = n - 1 /\ \A i \in 1 .. n - 1 : y[i] = ctx[i]
  BY <1>1, FrontIs
<1> HIDE DEF r, y
<1>4. /\ fr[1] = Outer
      /\ \A j \in 1 .. n : Legal(S, fr[j]) /\ ctx[j].type = TypeOf(fr[j])
      /\ \A j \in 2 .. n : fr[j] # Outer /\ fr[j - 1] = Parent(fr[j])
  BY DEF Stack
<1>5. n # 1
  BY <1>1, <1>4
<1>6. n \in Nat /\ n >= 2 /\ n \in 2 .. n /\ n - 1 >= 1 /\ 1 \in 1 .. n - 1 /\ n - 1 \in 1 .. n - 1 /\ n - 1 \in Nat
  BY <1>1, <1>5
<1> HIDE DEF n
<1>7. /\ \A j \in 1 .. n - 1 : j \in 1 .. n
      /\ \A j \in 2 .. n - 1 : j \in 2 .. n /\ j - 1 \in 1 .. n - 1 /\ j \in 1 .. n - 1
  BY ONLY <1>6
<1>8. r[1] = Outer /\ \A j \in 1 .. Len(r) : Legal(S, r[j]) /\ y[j].type = TypeOf(r[j])
  BY ONLY <1>2, <1>3, <1>4, <1>6, <1>7
<1>9. \A j \in 2 .. Len(r) : r[j] # Outer /\ r[j - 1] = Parent(r[j])
  BY ONLY <1>2, <1>4, <1>7
<1>10. r # <<>> /\ Len(y) = Len(r)
  <2>1. Len(r) = n - 1 /\ Len(y) = n - 1
    BY ONLY <1>2, <1>3
  <2>2. Len(r) # 0
    BY ONLY <2>1, <1>6
  <2>3. r # <<>>
    BY ONLY <2>2
  <2> QED BY ONLY <2>1, <2>3
<1>11. Stack(S, r, y)
  BY ONLY <1>2, <1>3, <1>8, <1>9, <1>10 DEF Stack
<1>12. Last(r) = fr[n - 1] /\ fr[n - 1] = Parent(fr[n])
  <2>1. Last(r) = r[n - 1]
    BY ONLY <1>2 DEF Last
  <2> QED BY <2>1, <1>2, <1>4, <1>6
<1>13. Last(fr) = fr[n] /\ Len(r) = Len(fr) - 1
  BY <1>1, <1>2 DEF n
<1> QED BY <1>11, <1>12, <1>13 DEF r, y

LEMMA StackCloses ==
  ASSUME NEW S, NEW fr, NEW ctx, Stack(S, fr, ctx), Last(fr) # Outer, NEW c2, c2 = NotFirst(Front(ctx))
  PROVE  Stack(S, Front(fr), c2) /\ Last(c2).first = FALSE
<1>1. Stack(S, Front(fr), Front(ctx))
  BY StackFront
<1> QED BY <1>1, StackMoves

LEMMA StackStarts ==
  ASSUME NEW S
  PROVE  Stack(S, <<Outer>>, InitStack) /\ Last(InitStack).first = TRUE /\ Last(<<Outer>>) = Outer
         /\ InitStack \in Seq(Stacked) /\ Len(InitStack) = 1
<1> DEFINE x == Context("OBJECT", TRUE)
<1>1. x \in Stacked /\ x.type = TypeOf(Outer) /\ x.first = TRUE
  BY ArrayIn DEF Context, Stacked, TypeOf
<1> HIDE DEF x
<1>2. InitStack = <<x>>
  BY DEF InitStack, x
<1>3. <<x>> \in Seq(Stacked) /\ Len(<<x>>) = 1 /\ <<x>>[1] = x
  BY <1>1
<1>4. Outer \in Frames
  BY BaseIs, EmptySeq DEF Outer, Frame, Frames
<1>5. <<Outer>> \in Seq(Frames) /\ Len(<<Outer>>) = 1 /\ <<Outer>>[1] = Outer /\ <<Outer>> # <<>>
  BY <1>4
<1>6. Legal(S, Outer)
  BY DEF Legal
<1>7. \A j \in 1 .. 1 : j = 1
  OBVIOUS
<1>8. \A j \in 2 .. 1 : FALSE
  OBVIOUS
<1>9. Stack(S, <<Outer>>, <<x>>)
  BY ONLY <1>1, <1>3, <1>5, <1>6, <1>7, <1>8 DEF Stack
<1>10. Last(<<Outer>>) = Outer /\ Last(<<x>>) = x
  BY <1>3, <1>5 DEF Last
<1> QED BY <1>1, <1>2, <1>3, <1>9, <1>10

(* The stack has room for the contexts of all frames that are open. *)
Need(height, f) ==
  IF f = Outer THEN 1 + height["Root"]
  ELSE IF f.of = "item" THEN height[CompOf(f.path).desc]
  ELSE IF f.comp.desc = Simple THEN 0 ELSE 1 + height[f.comp.desc]

Heights(height) ==
  /\ height \in [DOMAIN Schema -> Nat]
  /\ 2 + height["Root"] <= StackDepth
  /\ \A d \in DOMAIN Schema : \A c \in ToSet(Schema[d]) :
       /\ c.max > 1 /\ c.desc = Simple => 1 <= height[d]
       /\ c.max > 1 /\ c.desc # Simple => 2 + height[c.desc] <= height[d]
       /\ c.max = 1 /\ c.desc # Simple => 1 + height[c.desc] <= height[d]

LEMMA HeightsAre == StackDepth \in Nat /\ \E height : Heights(height)
<1>1. StackDepth \in Nat
  BY DepthAssumption
<1>2. PICK height \in [DOMAIN Schema -> 0 .. StackDepth] :
        /\ 2 + height["Root"] <= StackDepth
        /\ \A d \in DOMAIN Schema : \A c \in ToSet(Schema[d]) :
             (IF c.max > 1 THEN 1 ELSE 0) + (IF c.desc = Simple THEN 0 ELSE 1 + height[c.desc])
               <= height[d]
  BY DepthAssumption
<1>3. height \in [DOMAIN Schema -> Nat]
  BY <1>1, <1>2
<1>4. ASSUME NEW d \in DOMAIN Schema, NEW c \in ToSet(Schema[d])
      PROVE  /\ c.max > 1 /\ c.desc = Simple => 1 <= height[d]
             /\ c.max > 1 /\ c.desc # Simple => 2 + height[c.desc] <= height[d]
             /\ c.max = 1 /\ c.desc # Simple => 1 + height[c.desc] <= height[d]
  <2>1. c.max \in Nat \ {0} /\ c.desc \in DOMAIN Schema \cup {Simple}
    BY PartsAre
  <2>2. height[d] \in Nat /\ (c.desc # Simple => height[c.desc] \in Nat)
    BY <1>3, <2>1
  <2> DEFINE h == height[c.desc]
             g == height[d]
             x == c.max
  <2>3. (IF x > 1 THEN 1 ELSE 0) + (IF c.desc = Simple THEN 0 ELSE 1 + h) <= g
    BY <1>2
  <2>4. x \in Nat /\ g \in Nat /\ (c.desc # Simple => h \in Nat)
    BY <2>1, <2>2
  <2> HIDE DEF h, g, x
  <2>5. /\ x > 1 /\ c.desc = Simple => 1 <= g
        /\ x > 1 /\ c.desc # Simple => 2 + h <= g
        /\ x = 1 /\ c.desc # Simple => 1 + h <= g
    BY ONLY <2>3, <2>4
  <2> QED BY ONLY <2>5 DEF h, g, x
<1> QED BY <1>1, <1>2, <1>3, <1>4 DEF Heights

LEMMA NeedIs ==
  ASSUME NEW S \in Configs \cup {Nothing}, NEW height, Heights(height), NEW f, Legal(S, f)
  PROVE  Need(height, f) \in Nat
<1>0. height \in [DOMAIN Schema -> Nat] /\ "Root" \in DOMAIN Schema
  BY SchemaAssumption DEF Heights
<1>1. CASE f = Outer
  BY <1>0, <1>1 DEF Need
<1>2. CASE f # Outer /\ f.of = "item"
  BY <1>0, <1>2, LegalIs DEF Need
<1>3. CASE f # Outer /\ f.of = "array"
  <2>1. f.comp.desc \in DOMAIN Schema \cup {Simple}
    BY <1>3, LegalIs, PartOf
  <2> QED BY <1>0, <1>3, <2>1 DEF Need
<1> QED BY <1>1, <1>2, <1>3, LegalIs

LEMMA NeedMore ==
  ASSUME NEW S \in Configs \cup {Nothing}, NEW height, Heights(height), NEW f, Legal(S, f), f # Outer,
         Legal(S, Parent(f))
  PROVE  Need(height, f) + 1 <= Need(height, Parent(f))
<1>0. height \in [DOMAIN Schema -> Nat]
  BY DEF Heights
<1>1. f.path \in Kept(S) /\ f.path \in Seq(Steps) /\ CompOf(f.path).desc \in DOMAIN Schema /\ f.of \in {"item", "array"}
  BY LegalPath, LegalIs
<1>2. CASE f.of = "array"
  <2>1. Parent(f) = ItemFrame(f.path)
    BY <1>2 DEF Parent
  <2>2. Parent(f) # Outer /\ Parent(f).of = "item" /\ Parent(f).path = f.path
    BY <2>1, ArrayIn
  <2>3. Need(height, Parent(f)) = height[CompOf(f.path).desc]
    BY <2>2 DEF Need
  <2>4. f.comp \in ToSet(Schema[CompOf(f.path).desc]) /\ f.comp.max > 1
    BY <1>2, LegalIs DEF Parts
  <2>5. /\ f.comp.desc = Simple => 1 <= height[CompOf(f.path).desc]
        /\ f.comp.desc # Simple => 2 + height[f.comp.desc] <= height[CompOf(f.path).desc]
    BY <1>1, <2>4 DEF Heights
  <2>6. f.comp.desc # Simple => height[f.comp.desc] \in Nat
    <3>1. f.comp.desc \in DOMAIN Schema \cup {Simple}
      BY <1>2, LegalIs, PartOf
    <3> QED BY <3>1, <1>0
  <2>7. Need(height, f) = IF f.comp.desc = Simple THEN 0 ELSE 1 + height[f.comp.desc]
    BY <1>2 DEF Need
  <2>8. height[CompOf(f.path).desc] \in Nat
    BY <1>0, <1>1
  <2> DEFINE a == height[f.comp.desc]
             b == height[CompOf(f.path).desc]
  <2>9. /\ f.comp.desc = Simple => 1 <= b
        /\ f.comp.desc # Simple => 2 + a <= b /\ a \in Nat
        /\ b \in Nat
    BY <2>5, <2>6, <2>8
  <2>10. Need(height, f) = (IF f.comp.desc = Simple THEN 0 ELSE 1 + a) /\ Need(height, Parent(f)) = b
    BY <2>3, <2>7
  <2> HIDE DEF a, b
  <2> QED BY ONLY <2>9, <2>10
<1>3. CASE f.of = "item" /\ f.path = <<>>
  <2>1. Parent(f) = Outer
    BY <1>3 DEF Parent
  <2>2. Need(height, f) = height["Root"]
    BY <1>3, BaseIs DEF Need
  <2>3. Need(height, Outer) = 1 + height["Root"]
    BY DEF Need
  <2>4. height["Root"] \in Nat
    BY <1>0, SchemaAssumption
  <2> QED BY ONLY <2>1, <2>2, <2>3, <2>4
<1>4. CASE f.of = "item" /\ f.path # <<>>
  <2> DEFINE p == Front(f.path)
  <2>1. PICK c \in Parts(Schema, p) : CompOf(f.path) = c /\ c \in Known
    BY <1>1, <1>4, KeptPart
  <2>2. CompOf(p).desc \in DOMAIN Schema
    BY <1>1, <1>4, KeptPart
  <2> HIDE DEF p
  <2>3. c \in ToSet(Schema[CompOf(p).desc])
    BY <2>1 DEF Parts
  <2>4. c.max \in Nat \ {0}
    BY <2>2, <2>3, PartsAre
  <2>5. c.desc # Simple
    BY <1>1, <2>1, SchemaAssumption
  <2>6. /\ c.max > 1 => 2 + height[c.desc] <= height[CompOf(p).desc]
        /\ c.max = 1 => 1 + height[c.desc] <= height[CompOf(p).desc]
    BY <2>2, <2>3, <2>5 DEF Heights
  <2>7. height[c.desc] \in Nat /\ height[CompOf(p).desc] \in Nat
    BY <1>0, <1>1, <2>1, <2>2
  <2>8. Need(height, f) = height[c.desc]
    BY <1>4, <2>1 DEF Need
  <2>9. CASE c.max > 1
    <3>1. Parent(f) = ArrayFrame(p, c)
      BY <1>4, <2>1, <2>9 DEF Parent, p
    <3>2. Need(height, Parent(f)) = 1 + height[c.desc]
      BY <3>1, <2>5, ArrayIn DEF Need
    <3> QED BY ONLY <3>2, <2>7, <2>8
  <2>10. CASE ~(c.max > 1)
    <3>1. Parent(f) = ItemFrame(p)
      BY <1>4, <2>1, <2>10 DEF Parent, p
    <3>2. Need(height, Parent(f)) = height[CompOf(p).desc]
      BY <3>1, ArrayIn DEF Need
    <3>3. c.max = 1
      BY ONLY <2>4, <2>10
    <3> QED BY ONLY <3>2, <3>3, <2>6, <2>7, <2>8
  <2> QED BY <2>9, <2>10
<1> QED BY <1>1, <1>2, <1>3, <1>4

LEMMA StackFits ==
  ASSUME NEW S \in Configs \cup {Nothing}, NEW fr, NEW ctx, Stack(S, fr, ctx)
  PROVE  Len(ctx) \in 1 .. StackDepth
<1>1. PICK height : Heights(height)
  BY HeightsAre
<1>2. Len(fr) \in Nat /\ Len(fr) >= 1 /\ Len(ctx) = Len(fr)
  BY StackTop
<1>3. /\ fr[1] = Outer
      /\ \A j \in 1 .. Len(fr) : Legal(S, fr[j])
      /\ \A j \in 2 .. Len(fr) : fr[j] # Outer /\ fr[j - 1] = Parent(fr[j])
  BY DEF Stack
<1> DEFINE m == Len(fr) - 1
           T == {n \in 0 .. m : n + 1 + Need(height, fr[n + 1]) <= StackDepth}
<1>4. m \in Nat /\ 0 \in 0 .. m /\ m + 1 = Len(fr) /\ StackDepth \in Nat
  BY <1>2, HeightsAre
<1>5. 0 \in T
  <2>1. Need(height, fr[1]) = 1 + height["Root"]
    BY <1>3 DEF Need
  <2>2. height["Root"] \in Nat /\ 2 + height["Root"] <= StackDepth
    BY <1>1, SchemaAssumption DEF Heights
  <2>3. 0 + 1 + Need(height, fr[0 + 1]) <= StackDepth
    BY <2>1, <2>2
  <2> QED BY <2>3, <1>4
<1>6. ASSUME NEW n \in 0 .. m, n \in T, n # m PROVE n + 1 \in T
  <2>1. n + 1 \in 0 .. m /\ n + 1 \in 1 .. Len(fr) /\ n + 1 + 1 \in 2 .. Len(fr) /\ n + 1 + 1 \in 1 .. Len(fr)
        /\ n + 1 + 1 - 1 = n + 1 /\ n \in Nat
    <3>1. n # m
      BY <1>6
    <3> DEFINE l == Len(fr)
    <3>2. m \in Nat /\ m + 1 = l /\ l \in Nat
      BY <1>2, <1>4
    <3> HIDE DEF m, T, l
    <3>3. n + 1 \in 0 .. m /\ n + 1 \in 1 .. l /\ n + 1 + 1 \in 2 .. l /\ n + 1 + 1 \in 1 .. l
          /\ n + 1 + 1 - 1 = n + 1 /\ n \in Nat
      BY ONLY <3>1, <3>2, n \in 0 .. m
    <3> QED BY ONLY <3>3 DEF l
  <2> DEFINE f == fr[n + 1 + 1]
             g == fr[n + 1]
  <2>2. Legal(S, f) /\ Legal(S, g) /\ f # Outer /\ g = Parent(f)
    BY <2>1, <1>3
  <2>3. n + 1 + Need(height, g) <= StackDepth
    BY <1>6
  <2> HIDE DEF f, g
  <2>4. Need(height, f) \in Nat /\ Need(height, g) \in Nat /\ Need(height, f) + 1 <= Need(height, g)
    BY <1>1, <2>2, NeedIs, NeedMore
  <2>5. n + 1 + 1 + Need(height, f) <= StackDepth
    BY ONLY <2>1, <2>3, <2>4, <1>4
  <2> QED BY <2>1, <2>5 DEF f
<1>7. \A n \in 0 .. m : n \in T
  <2> HIDE DEF m, T
  <2> QED BY <1>4, <1>5, <1>6, Upwards
<1>8. Len(fr) + Need(height, fr[Len(fr)]) <= StackDepth
  <2>1. m \in T
    BY <1>4, <1>7
  <2>2. m + 1 + Need(height, fr[m + 1]) <= StackDepth
    BY <2>1
  <2> QED BY <2>2, <1>4
<1>9. Need(height, fr[Len(fr)]) \in Nat
  <2>1. Len(fr) \in 1 .. Len(fr)
    BY <1>2
  <2> QED BY <2>1, <1>1, <1>3, NeedIs
<1> QED BY ONLY <1>2, <1>4, <1>8, <1>9

-----------------------------------------------------------------------------
(* What a save or a load still has to do, each thing in its frame.  v says *)
(* which of them it is, with what schema, and what is saved.               *)
Jobs == [do : {"aggr", "item", "OBJECT", "ARRAY"}, comp : Known, path : Seq(Steps), idx : Nat]

Shuts(t)     == t.do \in {"OBJECT", "ARRAY"}
Onward(t, f) == IF Shuts(t) THEN Parent(f) ELSE f

(* An item that is to be saved, and one that is to be loaded. *)
SaveSuits(S, t, f) ==
  /\ t.path = f.path /\ PathOf(t) = PathIn(f, t.comp, t.idx)
  /\ PathOf(t) \in S
  /\ f.of = "file" => t.comp = Base /\ t.idx = 0
  /\ f.of # "file" => t.comp \in Parts(Schema, f.path) /\ t.comp.name \notin Volatile
  /\ f.of = "item" => t.comp.max = 1 /\ t.idx = 0
  /\ f.of = "array" => t.comp = f.comp /\ t.idx \in 0 .. t.comp.max - 1

LoadSuits(schema, t, f) ==
  /\ f.of = "file" => t = Task("item", Base, <<>>, 0)
  /\ f.of # "file" =>
       /\ CompOf(f.path).desc \in DOMAIN schema /\ t.comp \in Parts(schema, f.path)
       /\ t.comp.name \notin Volatile /\ (Packed => t.path = f.path)
  /\ f.of = "item" => t.comp.max = 1 /\ t.idx = 0
  /\ f.of = "array" => t.comp = f.comp /\ t.idx \in 0 .. t.comp.max - 1

Job(kind, schema, S) == [kind |-> kind, schema |-> schema, of |-> S]

Suited(v, t, f) ==
  /\ t.do = "aggr" => /\ f.of = "item" /\ CompOf(f.path).desc \in DOMAIN v.schema
                      /\ t.comp \in Parts(v.schema, f.path)
                      /\ (v.kind = "load" => (Packed => t.path = f.path))
                      /\ (v.kind = "save" => t.path = f.path)
  /\ t.do = "item" => IF v.kind = "save" THEN SaveSuits(v.of, t, f) ELSE LoadSuits(v.schema, t, f)
  /\ t.do = "OBJECT" => f.of = "item"
  /\ t.do = "ARRAY" => f.of = "array"

(* What comes behind something in an array. *)
Beside(v, t, f, u) ==
  /\ ~(t.do = "item" /\ f = Outer) /\ ~(t.do = "OBJECT" /\ Parent(f) = Outer)
  /\ t.do = "item" /\ f.of = "array" =>
       \/ u.do = "ARRAY" /\ (v.kind = "save" => t.idx + 1 \notin Present(v.of, f.path, f.comp))
       \/ v.kind = "save" /\ u.do = "item" /\ u.idx = t.idx + 1
  /\ t.do = "OBJECT" /\ Parent(f).of = "array" =>
       \/ u.do = "ARRAY" /\ (v.kind = "load" => Following(f) >= Parent(f).comp.max)
       \/ /\ u.do = "item" /\ u.idx <= Following(f)
          /\ (v.kind = "save" \/ Packed => u.idx = Following(f))

Track(v, s, at) ==
  /\ s \in Seq(Jobs) /\ at[Len(s) + 1] = Outer
  /\ \A i \in 1 .. Len(s) : Suited(v, s[i], at[i]) /\ at[i + 1] = Onward(s[i], at[i])
  /\ \A i \in 1 .. Len(s) - 1 : Beside(v, s[i], at[i], s[i + 1])

Tracked(v, s, f) == \E at : Track(v, s, at) /\ at[1] = f

LEMMA TrackedNone ==
  ASSUME NEW v, NEW f
  PROVE  Tracked(v, <<>>, f) <=> f = Outer
<1>1. ASSUME f = Outer PROVE Tracked(v, <<>>, f)
  <2>1. <<>> \in Seq(Jobs) /\ Len(<<>>) = 0
    BY EmptySeq
  <2>2. <<f>>[Len(<<>>) + 1] = f /\ <<f>>[1] = f
    BY <2>1
  <2>3. \A i \in 1 .. Len(<<>>) : FALSE
    BY <2>1
  <2>4. \A i \in 1 .. Len(<<>>) - 1 : FALSE
    BY <2>1
  <2>5. Track(v, <<>>, <<f>>)
    BY <2>1, <2>2, <2>3, <2>4, <1>1 DEF Track
  <2> QED BY <2>2, <2>5 DEF Tracked
<1>2. ASSUME Tracked(v, <<>>, f) PROVE f = Outer
  <2>1. PICK at : Track(v, <<>>, at) /\ at[1] = f
    BY <1>2 DEF Tracked
  <2>2. at[0 + 1] = Outer
    <3>1. Len(<<>>) = 0
      OBVIOUS
    <3> QED BY <2>1, <3>1 DEF Track
  <2> QED BY <2>1, <2>2
<1> QED BY <1>1, <1>2

LEMMA TrackedHead ==
  ASSUME NEW v, NEW s, NEW f, Tracked(v, s, f), s # <<>>
  PROVE  /\ s \in Seq(Jobs) /\ Head(s) \in Jobs /\ Suited(v, Head(s), f) /\ Tail(s) \in Seq(Jobs)
         /\ Tracked(v, Tail(s), Onward(Head(s), f))
         /\ Tail(s) # <<>> => Beside(v, Head(s), f, Head(Tail(s)))
<1>1. PICK at : Track(v, s, at) /\ at[1] = f
  BY DEF Tracked
<1>2. s \in Seq(Jobs) /\ at[Len(s) + 1] = Outer
  BY <1>1 DEF Track
<1> DEFINE n == Len(s)
           t == Tail(s)
<1>3. n \in Nat /\ n >= 1 /\ 1 \in 1 .. n
  BY <1>2
<1>4. Head(s) = s[1] /\ Head(s) \in Jobs /\ t \in Seq(Jobs) /\ Len(t) = n - 1 /\ \A i \in 1 .. n - 1 : t[i] = s[i + 1]
  BY <1>2
<1>5. Suited(v, s[1], f) /\ at[2] = Onward(s[1], f)
  <2>1. Suited(v, s[1], at[1]) /\ at[1 + 1] = Onward(s[1], at[1])
    BY <1>1, <1>3 DEF Track
  <2> QED BY <2>1, <1>1
<1> DEFINE up == [i \in 1 .. n |-> at[i + 1]]
<1> HIDE DEF t
<1>6. up[1] = at[2] /\ \A i \in 1 .. n : up[i] = at[i + 1]
  BY <1>3
<1>8. \A i \in 1 .. n : Suited(v, s[i], at[i]) /\ at[i + 1] = Onward(s[i], at[i])
  BY <1>1 DEF Track
<1>9. \A i \in 1 .. n - 1 : Beside(v, s[i], at[i], s[i + 1])
  BY <1>1 DEF Track
<1>10. at[n + 1] = Outer
  BY <1>2
<1> HIDE DEF n, up
<1>11. \A i \in 1 .. n - 1 : i \in 1 .. n /\ i + 1 \in 1 .. n
  BY ONLY <1>3
<1>12. \A i \in 1 .. Len(t) : Suited(v, t[i], up[i]) /\ up[i + 1] = Onward(t[i], up[i])
  BY ONLY <1>4, <1>6, <1>8, <1>11
<1>13. \A i \in 1 .. Len(t) - 1 : Beside(v, t[i], up[i], t[i + 1])
  <2>1. \A i \in 1 .. n - 1 - 1 : i \in 1 .. n - 1 /\ i + 1 \in 1 .. n - 1 /\ i \in 1 .. n
    BY ONLY <1>3
  <2> QED BY ONLY <1>4, <1>6, <1>9, <2>1
<1>14. up[Len(t) + 1] = Outer
  <2>1. n \in 1 .. n /\ n - 1 + 1 = n
    BY <1>3
  <2> QED BY ONLY <1>4, <1>6, <1>10, <2>1
<1>15. Track(v, t, up)
  BY ONLY <1>4, <1>12, <1>13, <1>14 DEF Track
<1>16. Tracked(v, t, Onward(Head(s), f))
  BY <1>4, <1>5, <1>6, <1>15 DEF Tracked
<1>17. t # <<>> => Beside(v, Head(s), f, Head(t))
  <2> SUFFICES ASSUME t # <<>> PROVE Beside(v, Head(s), f, Head(t))
    OBVIOUS
  <2>1. Len(t) # 0 /\ Head(t) = t[1]
    BY <1>4
  <2>2. 1 \in 1 .. n - 1
    BY <2>1, <1>3, <1>4
  <2>3. Beside(v, s[1], at[1], s[1 + 1])
    BY <1>9, <2>2
  <2> QED BY <2>1, <2>2, <2>3, <1>1, <1>4
<1> QED BY <1>2, <1>4, <1>5, <1>16, <1>17 DEF t

LEMMA TrackedMore ==
  ASSUME NEW v, NEW t \in Jobs, NEW f, Suited(v, t, f), NEW s, Tracked(v, s, Onward(t, f)),
         s # <<>> => Beside(v, t, f, Head(s)), NEW r, r = <<t>> \o s
  PROVE  Tracked(v, r, f) /\ r # <<>> /\ Head(r) = t
<1>1. PICK at : Track(v, s, at) /\ at[1] = Onward(t, f)
  BY DEF Tracked
<1>2. s \in Seq(Jobs) /\ at[Len(s) + 1] = Outer
  BY <1>1 DEF Track
<1> DEFINE n == Len(s)
<1>3. n \in Nat
  BY <1>2
<1>4. r \in Seq(Jobs) /\ Len(r) = n + 1 /\ r[1] = t /\ \A i \in 1 .. n : r[i + 1] = s[i]
  <2>1. <<t>> \in Seq(Jobs) /\ Len(<<t>>) = 1 /\ <<t>>[1] = t
    OBVIOUS
  <2>2. r \in Seq(Jobs) /\ Len(r) = 1 + n /\ \A i \in 1 .. 1 + n : r[i] = IF i <= 1 THEN <<t>>[i] ELSE s[i - 1]
    BY <1>2, <2>1, JoinedIs
  <2> HIDE DEF n
  <2>3. \A i \in 1 .. n : i + 1 \in 1 .. 1 + n /\ ~(i + 1 <= 1) /\ i + 1 - 1 = i
    BY ONLY <1>3
  <2>4. 1 \in 1 .. 1 + n /\ 1 <= 1 /\ 1 + n = n + 1
    BY ONLY <1>3
  <2> QED BY ONLY <2>1, <2>2, <2>3, <2>4
<1> DEFINE up == [i \in 1 .. n + 2 |-> IF i = 1 THEN f ELSE at[i - 1]]
<1>5. up[1] = f /\ \A i \in 1 .. n + 1 : up[i + 1] = at[i]
  BY <1>3
<1>6. \A i \in 1 .. n : Suited(v, s[i], at[i]) /\ at[i + 1] = Onward(s[i], at[i])
  BY <1>1 DEF Track
<1>7. \A i \in 1 .. n - 1 : Beside(v, s[i], at[i], s[i + 1])
  BY <1>1 DEF Track
<1>8. at[n + 1] = Outer
  BY <1>2
<1>9. s # <<>> => s[1] = Head(s)
  BY <1>2
<1>a. n # 0 => s # <<>>
  OBVIOUS
<1> HIDE DEF n, up
<1>10. \A i \in 1 .. n + 1 : Suited(v, r[i], up[i]) /\ up[i + 1] = Onward(r[i], up[i])
  <2> SUFFICES ASSUME NEW i \in 1 .. n + 1 PROVE Suited(v, r[i], up[i]) /\ up[i + 1] = Onward(r[i], up[i])
    OBVIOUS
  <2>1. CASE i = 1
    <3>1. 1 \in 1 .. n + 1
      BY ONLY <1>3
    <3>2. up[1 + 1] = at[1]
      BY <1>5, <3>1
    <3> QED BY <2>1, <3>2, <1>1, <1>4, <1>5
  <2>2. CASE i # 1
    <3>1. i - 1 \in 1 .. n /\ i - 1 \in 1 .. n + 1 /\ i - 1 + 1 = i /\ i \in 1 .. n + 1
      BY ONLY <1>3, <2>2, i \in 1 .. n + 1
    <3>2. r[i] = s[i - 1] /\ up[i] = at[i - 1] /\ up[i + 1] = at[i]
      BY ONLY <1>4, <1>5, <3>1
    <3>3. Suited(v, s[i - 1], at[i - 1]) /\ at[i - 1 + 1] = Onward(s[i - 1], at[i - 1])
      BY <1>6, <3>1
    <3> QED BY ONLY <3>1, <3>2, <3>3
  <2> QED BY <2>1, <2>2
<1>11. \A i \in 1 .. n : Beside(v, r[i], up[i], r[i + 1])
  <2> SUFFICES ASSUME NEW i \in 1 .. n PROVE Beside(v, r[i], up[i], r[i + 1])
    OBVIOUS
  <2>1. CASE i = 1
    <3>1. n # 0 /\ 1 \in 1 .. n
      BY ONLY <1>3, i \in 1 .. n
    <3>2. Beside(v, t, f, s[1]) /\ r[1 + 1] = s[1]
      BY <1>4, <1>9, <1>a, <3>1
    <3> QED BY <2>1, <3>2, <1>4, <1>5
  <2>2. CASE i # 1
    <3>1. i - 1 \in 1 .. n /\ i - 1 \in 1 .. n - 1 /\ i - 1 \in 1 .. n + 1 /\ i - 1 + 1 = i /\ i \in 1 .. n
      BY ONLY <1>3, <2>2, i \in 1 .. n
    <3>2. r[i] = s[i - 1] /\ up[i] = at[i - 1] /\ r[i + 1] = s[i]
      BY ONLY <1>4, <1>5, <3>1
    <3>3. Beside(v, s[i - 1], at[i - 1], s[i - 1 + 1])
      BY <1>7, <3>1
    <3> QED BY ONLY <3>1, <3>2, <3>3
  <2> QED BY <2>1, <2>2
<1>12. Len(r) - 1 = n /\ up[Len(r) + 1] = Outer
  <2>1. n + 1 \in 1 .. n + 1 /\ n + 1 - 1 = n
    BY ONLY <1>3
  <2>2. up[n + 1 + 1] = Outer
    BY ONLY <1>5, <1>8, <2>1
  <2> QED BY ONLY <1>3, <1>4, <2>1, <2>2
<1>13. Track(v, r, up)
  BY ONLY <1>4, <1>10, <1>11, <1>12 DEF Track
<1>14. r # <<>> /\ Head(r) = t
  <2>1. Len(r) # 0
    BY <1>3, <1>4
  <2> QED BY <2>1, <1>4
<1> QED BY <1>5, <1>13, <1>14 DEF Tracked

(* The jobs of u are all done in one frame, and close none. *)
Level(v, u, f) ==
  /\ u \in Seq(Jobs)
  /\ \A i \in 1 .. Len(u) : Suited(v, u[i], f) /\ ~Shuts(u[i])
  /\ \A i \in 1 .. Len(u) - 1 : Beside(v, u[i], f, u[i + 1])

LEMMA TrackedJoin ==
  ASSUME NEW v, NEW u, NEW f, Level(v, u, f), NEW s, Tracked(v, s, f),
         u # <<>> /\ s # <<>> => Beside(v, u[Len(u)], f, Head(s)), NEW r, r = u \o s
  PROVE  Tracked(v, r, f)
<1>1. PICK at : Track(v, s, at) /\ at[1] = f
  BY DEF Tracked
<1>2. s \in Seq(Jobs) /\ at[Len(s) + 1] = Outer /\ u \in Seq(Jobs)
  BY <1>1 DEF Track, Level
<1> DEFINE n == Len(s)
           k == Len(u)
<1>3. n \in Nat /\ k \in Nat
  BY <1>2
<1>4. r \in Seq(Jobs) /\ Len(r) = k + n /\ \A i \in 1 .. k + n : r[i] = IF i <= k THEN u[i] ELSE s[i - k]
  BY <1>2, JoinedIs
<1> DEFINE up == [i \in 1 .. k + n + 1 |-> IF i <= k THEN f ELSE at[i - k]]
<1>6. \A i \in 1 .. n : Suited(v, s[i], at[i]) /\ at[i + 1] = Onward(s[i], at[i])
  BY <1>1 DEF Track
<1>7. \A i \in 1 .. n - 1 : Beside(v, s[i], at[i], s[i + 1])
  BY <1>1 DEF Track
<1>8. at[n + 1] = Outer
  BY <1>2
<1>9. n # 0 => s # <<>> /\ s[1] = Head(s)
  BY <1>2
<1>10. \A i \in 1 .. k : Suited(v, u[i], f) /\ ~Shuts(u[i])
  BY DEF Level
<1>11. \A i \in 1 .. k - 1 : Beside(v, u[i], f, u[i + 1])
  BY DEF Level
<1>12. k # 0 /\ n # 0 => Beside(v, u[k], f, s[1])
  <2>1. k # 0 => u # <<>>
    OBVIOUS
  <2> QED BY <2>1, <1>9
<1> HIDE DEF n, k, up
<1>a. /\ \A i \in 1 .. k : r[i] = u[i]
      /\ \A j \in 1 .. n : r[k + j] = s[j]
  <2>1. \A i \in 1 .. k : i \in 1 .. k + n /\ i <= k
    BY ONLY <1>3
  <2>2. \A j \in 1 .. n : k + j \in 1 .. k + n /\ ~(k + j <= k) /\ k + j - k = j
    BY ONLY <1>3
  <2> QED BY ONLY <1>3, <1>4, <2>1, <2>2
<1>b. /\ \A i \in 1 .. k : up[i] = f
      /\ \A j \in 1 .. n + 1 : up[k + j] = at[j]
  <2>1. \A i \in 1 .. k : i \in 1 .. k + n + 1 /\ i <= k
    BY ONLY <1>3
  <2>2. \A j \in 1 .. n + 1 : k + j \in 1 .. k + n + 1 /\ ~(k + j <= k) /\ k + j - k = j
    BY ONLY <1>3
  <2> QED BY ONLY <1>3, <2>1, <2>2 DEF up
<1>c. \A i \in 1 .. k + n : i \in 1 .. k \/ \E j \in 1 .. n : i = k + j
  <2> SUFFICES ASSUME NEW i \in 1 .. k + n, i \notin 1 .. k PROVE \E j \in 1 .. n : i = k + j
    OBVIOUS
  <2>1. i - k \in 1 .. n /\ i = k + (i - k)
    BY ONLY <1>3, i \in 1 .. k + n, i \notin 1 .. k
  <2> QED BY ONLY <2>1
<1>13. up[1] = f
  <2>1. k # 0 => 1 \in 1 .. k
    BY ONLY <1>3
  <2>2. k = 0 => 1 \in 1 .. n + 1 /\ k + 1 = 1
    BY ONLY <1>3
  <2> QED BY ONLY <1>1, <1>b, <2>1, <2>2
<1>14. \A i \in 1 .. k + n : Suited(v, r[i], up[i]) /\ up[i + 1] = Onward(r[i], up[i])
  <2> SUFFICES ASSUME NEW i \in 1 .. k + n PROVE Suited(v, r[i], up[i]) /\ up[i + 1] = Onward(r[i], up[i])
    OBVIOUS
  <2>1. CASE i \in 1 .. k
    <3>1. up[i + 1] = f
      <4>1. i + 1 \in 1 .. k \/ (i = k /\ 1 \in 1 .. n + 1)
        BY ONLY <1>3, <2>1
      <4> QED BY ONLY <1>1, <1>b, <4>1
    <3>2. r[i] = u[i] /\ up[i] = f
      BY ONLY <1>a, <1>b, <2>1
    <3>3. Suited(v, u[i], f) /\ ~Shuts(u[i])
      BY ONLY <1>10, <2>1
    <3> QED BY ONLY <3>1, <3>2, <3>3 DEF Onward
  <2>2. ASSUME NEW j \in 1 .. n, i = k + j PROVE Suited(v, r[i], up[i]) /\ up[i + 1] = Onward(r[i], up[i])
    <3>1. j \in 1 .. n + 1 /\ j + 1 \in 1 .. n + 1 /\ k + j + 1 = k + (j + 1)
      BY ONLY <1>3, j \in 1 .. n
    <3>2. r[k + j] = s[j] /\ up[k + j] = at[j] /\ up[k + (j + 1)] = at[j + 1]
      BY ONLY <1>a, <1>b, <3>1, j \in 1 .. n
    <3>3. Suited(v, s[j], at[j]) /\ at[j + 1] = Onward(s[j], at[j])
      BY ONLY <1>6, j \in 1 .. n
    <3> QED BY ONLY <3>1, <3>2, <3>3, <2>2
  <2> QED BY ONLY <1>c, <2>1, <2>2, i \in 1 .. k + n
<1>15. \A i \in 1 .. k + n - 1 : Beside(v, r[i], up[i], r[i + 1])
  <2> SUFFICES ASSUME NEW i \in 1 .. k + n - 1 PROVE Beside(v, r[i], up[i], r[i + 1])
    OBVIOUS
  <2>0. i \in 1 .. k + n
    BY ONLY <1>3, i \in 1 .. k + n - 1
  <2>1. CASE i \in 1 .. k - 1
    <3>1. i \in 1 .. k /\ i + 1 \in 1 .. k
      BY ONLY <1>3, <2>1
    <3>2. r[i] = u[i] /\ up[i] = f /\ r[i + 1] = u[i + 1]
      BY ONLY <1>a, <1>b, <3>1
    <3>3. Beside(v, u[i], f, u[i + 1])
      BY ONLY <1>11, <2>1
    <3> QED BY ONLY <3>2, <3>3
  <2>2. CASE i = k
    <3>1. k # 0 /\ n # 0 /\ k \in 1 .. k /\ 1 \in 1 .. n
      BY ONLY <1>3, <2>2, i \in 1 .. k + n - 1
    <3>2. r[k] = u[k] /\ up[k] = f /\ r[k + 1] = s[1]
      BY ONLY <1>a, <1>b, <3>1
    <3>3. Beside(v, u[k], f, s[1])
      BY ONLY <1>12, <3>1
    <3> QED BY ONLY <2>2, <3>2, <3>3
  <2>3. ASSUME NEW j \in 1 .. n - 1, i = k + j PROVE Beside(v, r[i], up[i], r[i + 1])
    <3>1. j \in 1 .. n /\ j + 1 \in 1 .. n /\ j \in 1 .. n + 1 /\ k + j + 1 = k + (j + 1)
      BY ONLY <1>3, j \in 1 .. n - 1
    <3>2. r[k + j] = s[j] /\ up[k + j] = at[j] /\ r[k + (j + 1)] = s[j + 1]
      BY ONLY <1>a, <1>b, <3>1
    <3>3. Beside(v, s[j], at[j], s[j + 1])
      BY ONLY <1>7, j \in 1 .. n - 1
    <3> QED BY ONLY <3>1, <3>2, <3>3, <2>3
  <2>4. i \in 1 .. k - 1 \/ i = k \/ \E j \in 1 .. n - 1 : i = k + j
    <3>1. CASE i <= k
      BY ONLY <1>3, <3>1, i \in 1 .. k + n - 1
    <3>2. CASE ~(i <= k)
      <4>1. i - k \in 1 .. n - 1 /\ i = k + (i - k)
        BY ONLY <1>3, <3>2, i \in 1 .. k + n - 1
      <4> QED BY ONLY <4>1
    <3> QED BY <3>1, <3>2
  <2> QED BY ONLY <2>1, <2>2, <2>3, <2>4
<1>16. up[Len(r) + 1] = Outer
  <2>1. n + 1 \in 1 .. n + 1 /\ k + n + 1 = k + (n + 1)
    BY ONLY <1>3
  <2>2. up[k + (n + 1)] = Outer
    BY ONLY <1>8, <1>b, <2>1
  <2> QED BY ONLY <1>4, <2>1, <2>2
<1>17. Track(v, r, up)
  <2>1. r \in Seq(Jobs) /\ Len(r) = k + n
    BY <1>4
  <2> QED BY ONLY <1>3, <2>1, <1>14, <1>15, <1>16 DEF Track
<1> QED BY <1>13, <1>17 DEF Tracked

LEMMA JobIs ==
  ASSUME NEW do \in {"aggr", "item", "OBJECT", "ARRAY"}, NEW c \in Known, NEW p \in Seq(Steps), NEW k \in Nat
  PROVE  /\ Task(do, c, p, k) \in Jobs
         /\ Task(do, c, p, k).do = do /\ Task(do, c, p, k).comp = c
         /\ Task(do, c, p, k).path = p /\ Task(do, c, p, k).idx = k
BY DEF Task, Jobs

(* The components of an item are the jobs in its frame. *)
LEMMA ComponentJobs ==
  ASSUME NEW kind \in {"save", "load"}, NEW schema \in {Schema, NewSchema}, NEW S, NEW v, v = Job(kind, schema, S),
         NEW f, f.of = "item", NEW c, c = CompOf(f.path), c.desc \in DOMAIN schema, NEW p \in Seq(Steps),
         kind = "save" \/ Packed => p = f.path
  PROVE  Level(v, Components(schema, c, p), f)
<1> DEFINE d == schema[c.desc]
           u == Components(schema, c, p)
<1>1. d \in Seq(All(schema)) /\ Len(d) \in Nat /\ \A i \in 1 .. Len(d) : d[i] \in ToSet(d) /\ d[i] \in Known
  BY PartsAre
<1>2. ToSet(d) = Parts(schema, f.path)
  BY DEF Parts
<1>3. DOMAIN d = 1 .. Len(d)
  BY <1>1
<1>4. u = [i \in 1 .. Len(d) |-> Task("aggr", d[i], p, 0)]
  BY <1>3 DEF Components
<1> HIDE DEF d, u
<1>5. ASSUME NEW i \in 1 .. Len(d)
      PROVE  /\ u[i] \in Jobs /\ u[i].do = "aggr" /\ u[i].comp \in Parts(schema, f.path) /\ u[i].path = p
  <2>1. u[i] = Task("aggr", d[i], p, 0)
    BY <1>4
  <2>2. d[i] \in Known /\ d[i] \in Parts(schema, f.path)
    BY <1>1, <1>2
  <2> QED BY <2>1, <2>2, JobIs
<1>6. u \in Seq(Jobs) /\ Len(u) = Len(d)
  BY <1>1, <1>4, <1>5
<1>7. v.kind = kind /\ v.schema = schema
  BY DEF Job
<1>8. ASSUME NEW i \in 1 .. Len(d) PROVE Suited(v, u[i], f) /\ ~Shuts(u[i])
  <2>1. u[i].do = "aggr" /\ u[i].comp \in Parts(schema, f.path) /\ u[i].path = p
    BY <1>5
  <2>2. CompOf(f.path).desc \in DOMAIN schema
    OBVIOUS
  <2> QED BY <1>7, <2>1, <2>2 DEF Suited, Shuts
<1>9. ASSUME NEW i \in 1 .. Len(d) - 1 PROVE Beside(v, u[i], f, u[i + 1])
  <2>1. i \in 1 .. Len(d)
    BY <1>1
  <2>2. u[i].do = "aggr"
    BY <1>5, <2>1
  <2> QED BY <2>2 DEF Beside
<1> QED BY <1>6, <1>8, <1>9 DEF Level, u

-----------------------------------------------------------------------------
(* A save. *)
HeadSave(S, l, t, f) ==
  /\ f = Outer /\ t.do = "item" => l.mode = "first"
  /\ f.of = "array" /\ t.do = "item" =>
       /\ l.idx <= t.idx
       /\ l.idx = t.idx \/ \E m \in 0 .. t.idx - 1 : ~HasContent(S, Below(f.path, f.comp, m))
       /\ l.mode = "first" =>
            \E m \in Present(S, f.path, f.comp) : t.idx <= m /\ HasContent(S, Below(f.path, f.comp, m))
  /\ f.of = "array" /\ t.do = "ARRAY" => l.mode = "after"

SaveJob(S) == Job("save", Schema, S)

Writes(S, F, fr, l, ctx) ==
  /\ S \in Configs /\ Written(S, F, fr, l) /\ Stack(S, fr, ctx)
  /\ l.in = Last(fr) /\ l.idx \in Nat
  /\ l.mode = IF Last(ctx).first THEN "first" ELSE "after"

SavesOn(S, F, fr, l, ctx, s) ==
  /\ Writes(S, F, fr, l, ctx)
  /\ Tracked(SaveJob(S), s, Last(fr))
  /\ s # <<>> => HeadSave(S, l, Head(s), Last(fr))

LEMMA WrittenIs ==
  ASSUME NEW S, NEW F, NEW fr, NEW l, Written(S, F, fr, l)
  PROVE  F \in Seq(Tokens) /\ Len(F) \in Nat
BY DEF Written, Text

(* What startWriteMember writes. *)
CommaOf(ctx) == IF Last(ctx).first THEN <<>> ELSE <<Mark(",")>>
MemberOf(ctx, c) ==
  CommaOf(ctx) \o (IF Last(ctx).type = "OBJECT" THEN <<NameToken(c)>> ELSE <<>>)

LEMMA JoinEmpty ==
  ASSUME NEW X, NEW s \in Seq(X), NEW x \in X
  PROVE  s \o <<>> = s /\ <<>> \o s = s /\ s \o <<x>> = Append(s, x) /\ <<>> \in Seq(X) /\ <<x>> \in Seq(X)
<1>1. s \o <<>> = s /\ <<>> \o s = s /\ <<>> \in Seq(X) /\ <<x>> \in Seq(X)
  OBVIOUS
<1>2. s \o <<x>> = Append(s, x)
  OBVIOUS
<1> QED BY <1>1, <1>2

LEMMA JoinJoin ==
  ASSUME NEW X, NEW s \in Seq(X), NEW t \in Seq(X), NEW x \in X
  PROVE  s \o Append(t, x) = Append(s \o t, x) /\ s \o t \in Seq(X)
OBVIOUS

LEMMA JoinAssoc ==
  ASSUME NEW X, NEW s \in Seq(X), NEW t \in Seq(X), NEW u \in Seq(X)
  PROVE  s \o (t \o u) = (s \o t) \o u
OBVIOUS

(* The member that is begun, and the label behind its beginning. *)
Begun1(S, F, fr, l, c, G, m) ==
  /\ Written(S, G, fr, m) /\ m.in = l.in
  /\ IF l.in.of = "array" THEN m.mode \in {"first", "next"} /\ m.idx = l.idx ELSE m = Awaits(l.in, c)

Member1(l, c) ==
  /\ c \in Known
  /\ l.in.of = "file" => c = Base /\ l.mode = "first"
  /\ l.in.of = "item" => c \in Parts(Schema, l.in.path)
  /\ l.in.of = "array" => c = l.in.comp /\ l.idx < c.max

(* Behind the comma that a member needs. *)
Parted(S, G, fr, l) ==
  \E m : Written(S, G, fr, m) /\ m.in = l.in /\ m.idx = l.idx /\ m.mode \in {"first", "next"}

LEMMA CommaWritten ==
  ASSUME NEW S, NEW F, NEW fr, NEW l, NEW ctx, Writes(S, F, fr, l, ctx), NEW c, Member1(l, c),
         NEW G, G = F \o CommaOf(ctx)
  PROVE  Parted(S, G, fr, l)
<1>1. Written(S, F, fr, l) /\ F \in Seq(Tokens) /\ S \in Configs /\ Legal(S, l.in)
  BY WrittenIs, StackTop DEF Writes
<1>2. CASE Last(ctx).first
  <2>1. G = F /\ l.mode = "first"
    BY <1>1, <1>2, JoinEmpty, TokensAre DEF Writes, CommaOf
  <2> QED BY <1>1, <2>1 DEF Parted
<1>3. CASE ~Last(ctx).first
  <2> DEFINE t == Mark(",")
             m == Again(l.in, l.idx)
  <2>1. t \in Tokens /\ t.kind = ","
    BY TokensAre
  <2>2. G = Append(F, t)
    BY <1>1, <1>3, <2>1, JoinEmpty DEF CommaOf
  <2>3. l.mode = "after"
    BY <1>3 DEF Writes
  <2>4. m.in = l.in /\ m.idx = l.idx /\ m.mode = "next"
    BY DEF Again, Place
  <2>5. l.in # Outer
    BY <2>3, ArrayIn DEF Member1
  <2>6. l.in.of = "array" => l.idx < l.in.comp.max
    BY DEF Member1
  <2>7. Separates(t, l, m)
    BY <2>3, <2>5, <2>6 DEF Separates
  <2> HIDE DEF t, m
  <2>8. Follows(S, l, t, m)
    BY <1>1, <2>4, <2>7 DEF Follows
  <2>9. ~IsOpener(t) /\ ~IsCloser(t)
    BY <2>1 DEF IsOpener, IsCloser
  <2>10. Jots(F, t, G)
    BY <1>1, <2>1, <2>2, JotsIs
  <2>11. Written(S, G, fr, m)
    BY <1>1, <2>8, <2>9, <2>10, WritesPlain
  <2> QED BY <2>4, <2>11 DEF Parted
<1> QED BY <1>2, <1>3

LEMMA MemberWritten ==
  ASSUME NEW S, NEW F, NEW fr, NEW l, NEW ctx, Writes(S, F, fr, l, ctx), NEW c, Member1(l, c),
         NEW G, G = F \o MemberOf(ctx, c)
  PROVE  G \in Seq(Tokens) /\ \E m : Begun1(S, F, fr, l, c, G, m)
<1> DEFINE a == CommaOf(ctx)
           b == IF Last(ctx).type = "OBJECT" THEN <<NameToken(c)>> ELSE <<>>
           H == F \o a
           x == NameToken(c)
<1>1. F \in Seq(Tokens) /\ Legal(S, l.in) /\ S \in Configs \cup {Nothing} /\ Last(ctx).type = TypeOf(l.in)
  BY WrittenIs, StackTop DEF Writes
<1>2. PICK n : Written(S, H, fr, n) /\ n.in = l.in /\ n.idx = l.idx /\ n.mode \in {"first", "next"}
  <2>1. H = F \o CommaOf(ctx)
    OBVIOUS
  <2>2. Writes(S, F, fr, l, ctx) /\ Member1(l, c)
    OBVIOUS
  <2> HIDE DEF H
  <2>3. Parted(S, H, fr, l)
    BY <2>1, <2>2, CommaWritten
  <2> QED BY <2>3 DEF Parted
<1>3. x \in Tokens /\ x.kind = "name"
  BY TokensAre DEF Member1
<1>4. a \in Seq(Tokens) /\ b \in Seq(Tokens)
  BY TokensAre, <1>3, JoinEmpty, EmptySeq DEF CommaOf
<1>5. H \in Seq(Tokens)
  BY <1>2, WrittenIs
<1>6. G = H \o b
  <2>1. G = F \o (a \o b) /\ H = F \o a
    BY DEF MemberOf
  <2> HIDE DEF a, b, H
  <2> QED BY ONLY <1>1, <1>4, <2>1, JoinAssoc
<1>7. b = IF l.in.of = "array" THEN <<>> ELSE <<x>>
  BY <1>1 DEF TypeOf
<1> HIDE DEF a, b, H
<1>8. CASE l.in.of = "array"
  <2>1. G = H
    BY <1>3, <1>5, <1>6, <1>7, <1>8, JoinEmpty
  <2> QED BY <1>2, <1>5, <1>8, <2>1 DEF Begun1
<1>9. CASE l.in.of # "array"
  <2> DEFINE m == Awaits(l.in, c)
  <2>1. G = Append(H, x)
    BY <1>3, <1>5, <1>6, <1>7, <1>9, JoinEmpty
  <2>2. m.in = l.in
    BY DEF Awaits, Place
  <2>3. (l.in = Outer /\ c = Base) \/ (l.in.of = "item" /\ c \in Parts(Schema, l.in.path))
    BY <1>1, <1>9, LegalIs DEF Member1
  <2>4. GivesName(x, n, m)
    <3>1. c \in Known /\ n.in = l.in /\ n.mode \in {"first", "next"}
      BY <1>2 DEF Member1
    <3> QED BY ONLY <2>3, <3>1 DEF GivesName
  <2> HIDE DEF m, x
  <2>5. Follows(S, n, x, m)
    BY <1>1, <2>2, <2>4 DEF Follows
  <2>6. ~IsOpener(x) /\ ~IsCloser(x)
    BY <1>3 DEF IsOpener, IsCloser
  <2>7. Jots(H, x, G) /\ G \in Seq(Tokens)
    BY <1>3, <1>5, <2>1, JotsIs, AppendIs
  <2>8. Written(S, G, fr, m)
    BY <1>2, <2>5, <2>6, <2>7, WritesPlain
  <2>9. Begun1(S, F, fr, l, c, G, m)
    BY <1>9, <2>2, <2>8 DEF Begun1, m
  <2> QED BY <2>7, <2>9
<1> QED BY <1>8, <1>9

LEMMA MemberIs ==
  ASSUME NEW ctx, NEW c \in Known
  PROVE  CommaOf(ctx) \in Seq(Tokens) /\ MemberOf(ctx, c) \in Seq(Tokens)
<1> DEFINE x == NameToken(c)
           y == Mark(",")
           b == IF Last(ctx).type = "OBJECT" THEN <<x>> ELSE <<>>
           a == IF Last(ctx).first THEN <<>> ELSE <<y>>
<1>1. x \in Tokens /\ y \in Tokens
  BY TokensAre
<1> HIDE DEF x, y
<1>2. a \in Seq(Tokens) /\ b \in Seq(Tokens)
  BY <1>1, JoinEmpty, EmptySeq
<1>3. CommaOf(ctx) = a /\ MemberOf(ctx, c) = CommaOf(ctx) \o b
  BY DEF CommaOf, MemberOf, x, y
<1> HIDE DEF a, b
<1>4. CommaOf(ctx) \in Seq(Tokens) /\ CommaOf(ctx) \o b \in Seq(Tokens)
  BY ONLY <1>2, <1>3, JoinedIs
<1> QED BY ONLY <1>3, <1>4

(* The last token of a member. *)
LEMMA MemberJots ==
  ASSUME NEW F \in Seq(Tokens), NEW ctx, NEW c \in Known, NEW x \in Tokens,
         NEW H, H = F \o MemberOf(ctx, c), NEW G, G = F \o Append(MemberOf(ctx, c), x)
  PROVE  Jots(H, x, G)
<1> DEFINE a == MemberOf(ctx, c)
<1>1. a \in Seq(Tokens)
  BY MemberIs
<1> HIDE DEF a
<1>2. H = F \o a /\ G = F \o Append(a, x)
  BY DEF a
<1>3. H \in Seq(Tokens) /\ G = Append(H, x)
  BY ONLY <1>1, <1>2, JoinJoin, F \in Seq(Tokens), x \in Tokens
<1> QED BY <1>3, JotsIs

(* A persistent simple item has content, which is itself. *)
LEMMA ValueKept ==
  ASSUME NEW S \in Configs, NEW p \in Seq(Steps), NEW c \in All(Schema) \cup All(NewSchema), c.desc = Simple,
         c.name \notin Volatile, NEW k \in Nat, Below(p, c, k) \in S
  PROVE  HasContent(S, Below(p, c, k))
<1> DEFINE q == Below(p, c, k)
<1>1. c \in Known
  BY DEF Known
<1>2. q \in Seq(Steps) /\ q # <<>> /\ Last(q) = <<c.name, k>>
  BY <1>1, BelowIs
<1>3. q \in S
  OBVIOUS
<1> HIDE DEF q
<1>4. Last(q)[1] = c.name
  BY <1>2
<1>5. c.name \in SimpleNames
  BY DEF SimpleNames
<1>6. IsPrefix(q, q)
  <2>1. Len(q) \in Nat
    BY <1>2
  <2> QED BY <1>2, <2>1, PrefixIs
<1>7. HasContent(S, q)
  BY <1>2, <1>3, <1>4, <1>5, <1>6 DEF HasContent
<1> QED BY <1>7 DEF q

(* Where an item is to be written: behind H and its name, if it has one,   *)
(* at place m, and the item is one that is kept.                           *)
Readied(S, fr, l, t, H, m) ==
  /\ H \in Seq(Tokens) /\ Written(S, H, fr, m) /\ m.in = l.in /\ Legal(S, m.in)
  /\ t.comp \in Known /\ t.idx \in Nat /\ Allowed(m, t.comp, t.idx)
  /\ PathIn(m.in, t.comp, t.idx) = PathOf(t) /\ PathOf(t) \in Kept(S)

(* In a packed configuration the items that are written of an array are    *)
(* its first ones.                                                         *)
LEMMA PackedFirst ==
  ASSUME Packed, NEW S \in Configs, NEW p \in Kept(S), CompOf(p).desc \in DOMAIN Schema,
         NEW c \in Parts(Schema, p), c.name \notin Volatile, c.max \in Nat, NEW k \in 0 .. c.max - 1, Below(p, c, k) \in S,
         HasContent(S, Below(p, c, k)), NEW m \in 0 .. k - 1
  PROVE  HasContent(S, Below(p, c, m))
<1>1. p \in S
  BY DEF Kept
<1>2. k \in Present(S, p, c)
  BY DEF Present
<1>3. m \in 0 .. k
  OBVIOUS
<1> QED BY <1>1, <1>2, <1>3 DEF Packed

LEMMA ItemSaves ==
  ASSUME NEW S, NEW F, NEW fr, NEW l, NEW ctx, NEW s, SavesOn(S, F, fr, l, ctx, s), s # <<>>,
         NEW t, t = Head(s), t.do = "item", HasContent(S, PathOf(t)),
         NEW H, H = F \o MemberOf(ctx, t.comp)
  PROVE  \E m : Readied(S, fr, l, t, H, m)
<1> DEFINE f == Last(fr)
           v == SaveJob(S)
           c == t.comp
           k == t.idx
<1>1. Writes(S, F, fr, l, ctx) /\ Tracked(v, s, f) /\ HeadSave(S, l, t, f)
  BY DEF SavesOn
<1>2. t \in Jobs /\ Suited(v, t, f)
  BY <1>1, TrackedHead
<1>3. SaveSuits(S, t, f)
  BY <1>2 DEF Suited, SaveJob, Job
<1>4. S \in Configs /\ S \in Configs \cup {Nothing} /\ Legal(S, f) /\ l.in = f /\ l.idx \in Nat
      /\ l.mode = IF Last(ctx).first THEN "first" ELSE "after"
  BY <1>1, StackTop DEF Writes
<1>5. c \in Known /\ k \in Nat
  BY <1>2 DEF Jobs
<1> HIDE DEF f, v, c, k
<1>6. f.of \in {"file", "item", "array"} /\ (f.of = "file" <=> f = Outer)
  BY <1>4, LegalIs
<1>7. /\ t.path = f.path /\ PathOf(t) = PathIn(f, c, k) /\ PathOf(t) \in S
      /\ f.of = "file" => c = Base /\ k = 0
      /\ f.of # "file" => c \in Parts(Schema, f.path) /\ c.name \notin Volatile
      /\ f.of = "item" => c.max = 1 /\ k = 0
      /\ f.of = "array" => c = f.comp /\ k \in 0 .. c.max - 1
  BY <1>3 DEF SaveSuits, c, k
<1>8. f # Outer => c.max \in Nat \ {0}
  BY <1>4, <1>6, <1>7, PartOf
<1>9. /\ f = Outer => l.mode = "first"
      /\ f.of = "array" => /\ l.idx <= k
                           /\ l.idx = k \/ \E m \in 0 .. k - 1 : ~HasContent(S, Below(f.path, f.comp, m))
  BY <1>1 DEF HeadSave, k
<1>10. f.of = "array" => l.idx < c.max
  BY <1>4, <1>5, <1>6, <1>7, <1>8, <1>9
<1>11. Member1(l, c)
  BY <1>4, <1>5, <1>6, <1>7, <1>9, <1>10 DEF Member1
<1>12. H = F \o MemberOf(ctx, c)
  BY DEF c
<1>13. H \in Seq(Tokens) /\ \E m : Begun1(S, F, fr, l, c, H, m)
  BY <1>1, <1>11, <1>12, MemberWritten
<1>14. PICK m : Begun1(S, F, fr, l, c, H, m)
  BY <1>13
<1>15. Written(S, H, fr, m) /\ m.in = f
       /\ IF f.of = "array" THEN m.mode \in {"first", "next"} /\ m.idx = l.idx ELSE m = Awaits(f, c)
  BY <1>4, <1>14 DEF Begun1
<1>16. PathOf(t) \in Kept(S)
  <2>1. CASE f = Outer
    <3>1. PathIn(f, c, k) = <<>>
      BY <2>1, <1>6 DEF PathIn
    <3>2. <<>> \in S /\ HasContent(S, <<>>)
      BY <1>7, <3>1
    <3>3. \A i \in DOMAIN <<>> : FALSE
      OBVIOUS
    <3>4. <<>> \in Kept(S)
      BY <3>2, <3>3 DEF Kept
    <3> QED BY <1>7, <3>1, <3>4
  <2>2. CASE f # Outer
    <3>1. f.path \in Kept(S) /\ CompOf(f.path).desc \in DOMAIN Schema
      BY <1>4, <2>2, LegalPath
    <3>2. PathOf(t) = Below(f.path, c, k)
      BY <1>6, <1>7, <2>2 DEF PathIn
    <3>3. Below(f.path, c, k) \in S /\ HasContent(S, Below(f.path, c, k))
      BY <1>7, <3>2
    <3>4. c \in Parts(Schema, f.path) /\ c.name \notin Volatile
      BY <1>6, <1>7, <2>2
    <3>5. Below(f.path, c, k) \in Kept(S)
      BY ONLY <1>4, <1>5, <3>1, <3>3, <3>4, KeptBelow
    <3> QED BY <3>2, <3>5
  <2> QED BY <2>1, <2>2
<1>17. Allowed(m, c, k)
  <2>1. CASE f.of = "file"
    BY <1>7, <1>15, <2>1 DEF Allowed
  <2>2. CASE f.of = "item"
    BY <1>7, <1>15, <2>2 DEF Allowed
  <2>3. CASE f.of = "array"
    <3>1. ASSUME Packed PROVE k = l.idx
      <4>1. SUFFICES ASSUME NEW j \in 0 .. k - 1, ~HasContent(S, Below(f.path, f.comp, j)) PROVE FALSE
        BY <1>9, <2>3
      <4>2. f # Outer /\ c = f.comp /\ k \in 0 .. c.max - 1 /\ c.max \in Nat
            /\ c \in Parts(Schema, f.path) /\ c.name \notin Volatile
        BY <1>6, <1>7, <1>8, <2>3
      <4>3. f.path \in Kept(S) /\ CompOf(f.path).desc \in DOMAIN Schema
        BY <1>4, <4>2, LegalPath
      <4>4. PathOf(t) = Below(f.path, c, k)
        BY <1>6, <1>7, <4>2 DEF PathIn
      <4>5. Below(f.path, c, k) \in S /\ HasContent(S, Below(f.path, c, k))
        BY <1>7, <4>4
      <4>6. HasContent(S, Below(f.path, c, j))
        BY ONLY <3>1, <1>4, <4>1, <4>2, <4>3, <4>5, PackedFirst
      <4> QED BY <4>1, <4>2, <4>6
    <3>2. l.idx <= k /\ k < c.max
      BY <1>5, <1>7, <1>8, <1>9, <1>6, <2>3
    <3> QED BY <1>5, <1>7, <1>15, <2>3, <3>1, <3>2 DEF Allowed
  <2> QED BY <1>6, <2>1, <2>2, <2>3
<1>18. Readied(S, fr, l, t, H, m)
  BY <1>4, <1>5, <1>7, <1>13, <1>15, <1>16, <1>17 DEF Readied, c, k
<1> QED BY <1>18

LEMMA SavesTop ==
  ASSUME NEW S, NEW F, NEW fr, NEW l, NEW ctx, NEW s, SavesOn(S, F, fr, l, ctx, s)
  PROVE  /\ S \in Configs /\ S \in Configs \cup {Nothing} /\ Writes(S, F, fr, l, ctx) /\ Stack(S, fr, ctx)
         /\ Legal(S, Last(fr)) /\ l.in = Last(fr) /\ l.idx \in Nat
         /\ F \in Seq(Tokens) /\ Written(S, F, fr, l) /\ Tracked(SaveJob(S), s, Last(fr))
         /\ l.mode = IF Last(ctx).first THEN "first" ELSE "after"
         /\ Last(fr).of \in {"file", "item", "array"} /\ (Last(fr).of = "file" <=> Last(fr) = Outer)
<1>1. Writes(S, F, fr, l, ctx) /\ Tracked(SaveJob(S), s, Last(fr))
  BY DEF SavesOn
<1>2. /\ S \in Configs /\ Written(S, F, fr, l) /\ Stack(S, fr, ctx) /\ l.in = Last(fr) /\ l.idx \in Nat
      /\ l.mode = IF Last(ctx).first THEN "first" ELSE "after"
  BY <1>1 DEF Writes
<1>3. Legal(S, Last(fr)) /\ F \in Seq(Tokens) /\ S \in Configs \cup {Nothing}
  BY <1>2, StackTop, WrittenIs
<1>4. Last(fr).of \in {"file", "item", "array"} /\ (Last(fr).of = "file" <=> Last(fr) = Outer)
  BY <1>3, LegalIs
<1> QED BY <1>1, <1>2, <1>3, <1>4

(* What a task of a save is, in the frame f. *)
LEMMA SaveTask ==
  ASSUME NEW S \in Configs, NEW t \in Jobs, NEW f, Legal(S, f), Suited(SaveJob(S), t, f)
  PROVE  /\ t.comp \in Known /\ t.path \in Seq(Steps) /\ t.idx \in Nat
         /\ t.do = "aggr" => /\ f.of = "item" /\ t.path = f.path /\ t.comp \in Parts(Schema, f.path)
                             /\ CompOf(f.path).desc \in DOMAIN Schema
         /\ t.do = "item" => SaveSuits(S, t, f)
         /\ t.do = "OBJECT" => f.of = "item"
         /\ t.do = "ARRAY" => f.of = "array"
<1>1. t.comp \in Known /\ t.path \in Seq(Steps) /\ t.idx \in Nat
  BY DEF Jobs
<1>2. SaveJob(S).kind = "save" /\ SaveJob(S).schema = Schema /\ SaveJob(S).of = S
  BY DEF SaveJob, Job
<1> QED BY <1>1, <1>2 DEF Suited

LEMMA SaveBeside ==
  ASSUME NEW S, NEW t, NEW f, NEW u, Beside(SaveJob(S), t, f, u)
  PROVE  /\ ~(t.do = "item" /\ f = Outer) /\ ~(t.do = "OBJECT" /\ Parent(f) = Outer)
         /\ t.do = "item" /\ f.of = "array" =>
              \/ u.do = "ARRAY" /\ t.idx + 1 \notin Present(S, f.path, f.comp)
              \/ u.do = "item" /\ u.idx = t.idx + 1
         /\ t.do = "OBJECT" /\ Parent(f).of = "array" =>
              u.do = "ARRAY" \/ (u.do = "item" /\ u.idx = Following(f))
<1>1. SaveJob(S).kind = "save" /\ SaveJob(S).of = S
  BY DEF SaveJob, Job
<1> QED BY <1>1 DEF Beside

(* In an item nothing is asked of what is saved next. *)
LEMMA HeadInItem ==
  ASSUME NEW S, NEW l, NEW t, NEW f, f.of = "item"
  PROVE  HeadSave(S, l, t, f)
<1>1. f # Outer
  BY DEF Outer, Frame
<1> QED BY <1>1 DEF HeadSave

(* Behind an item or an object that was written in the frame g. *)
LEMMA HeadBehind ==
  ASSUME NEW S, NEW t, NEW f, NEW u, Beside(SaveJob(S), t, f, u), NEW g, NEW k \in Nat,
         \/ t.do = "item" /\ g = f /\ k = t.idx + 1
         \/ t.do = "OBJECT" /\ g = Parent(f) /\ k = Following(f)
  PROVE  HeadSave(S, Later(g, k), u, g)
<1>1. g # Outer
  BY SaveBeside
<1>2. Later(g, k).idx = k /\ Later(g, k).mode = "after"
  BY PlaceIs
<1>3. g.of = "array" /\ u.do = "item" => u.idx = k
  BY SaveBeside
<1> QED BY <1>1, <1>2, <1>3 DEF HeadSave

(* Behind an item that was not. *)
LEMMA HeadOver ==
  ASSUME NEW S \in Configs, NEW l, l.idx \in Nat, NEW f, Legal(S, f), NEW t \in Jobs, SaveSuits(S, t, f), t.do = "item",
         HeadSave(S, l, t, f), ~HasContent(S, PathOf(t)), l.mode \in {"first", "after"},
         NEW u, Beside(SaveJob(S), t, f, u)
  PROVE  HeadSave(S, l, u, f)
<1>1. f # Outer
  BY SaveBeside
<1>2. CASE f.of # "array"
  BY <1>1, <1>2 DEF HeadSave
<1>3. CASE f.of = "array"
  <2> DEFINE c == f.comp
             p == f.path
             k == t.idx
             P == Present(S, p, c)
             has(m) == HasContent(S, Below(p, c, m))
  <2>1. p \in Kept(S) /\ CompOf(p).desc \in DOMAIN Schema /\ S \in Configs \cup {Nothing}
    BY <1>1, LegalPath
  <2>2. c \in Parts(Schema, p) /\ t.comp = c /\ k \in 0 .. c.max - 1 /\ PathOf(t) = PathIn(f, c, k) /\ PathOf(t) \in S
    BY <1>3, <2>1, LegalIs DEF SaveSuits
  <2>3. PathOf(t) = Below(p, c, k)
    BY <1>3, <2>2 DEF PathIn
  <2>4. ~has(k)
    BY <2>3
  <2>5. /\ l.idx <= k
        /\ l.mode = "first" => \E m \in P : k <= m /\ has(m)
    BY <1>3 DEF HeadSave
  <2>6. \/ u.do = "ARRAY" /\ k + 1 \notin P
        \/ u.do = "item" /\ u.idx = k + 1
    BY <1>3, SaveBeside
  <2>7. c.max \in Nat /\ k \in Nat /\ P \subseteq Nat
    BY <1>1, <2>1, <2>2, PartOf DEF Present
  <2>8. p \in S
    BY <2>1 DEF Kept
  <2>9. P = 0 .. Cardinality(P) - 1
    BY <2>1, <2>2, <2>8, ConfigAssumption
  <2>10. Cardinality(P) \in Nat
    <3>1. c.max \in Nat \ {0}
      BY <1>1, <2>2, PartOf
    <3> QED BY <3>1, PresentIs
  <2> HIDE DEF c, p, k, P, has
  <2>11. l.mode = "first" => \E m \in P : k + 1 <= m /\ has(m)
    BY ONLY <2>4, <2>5, <2>7
  <2>12. \A m \in P : k + 1 <= m => k + 1 \in P
    BY ONLY <2>7, <2>9, <2>10
  <2>13. CASE u.do = "ARRAY" /\ k + 1 \notin P
    <3>1. l.mode = "after"
      BY <2>11, <2>12, <2>13
    <3> QED BY <1>1, <2>13, <3>1 DEF HeadSave
  <2>14. CASE u.do = "item" /\ u.idx = k + 1
    <3>1. l.idx <= u.idx /\ k \in 0 .. u.idx - 1
      BY <2>5, <2>7, <2>14
    <3>2. \E m \in 0 .. u.idx - 1 : ~HasContent(S, Below(f.path, f.comp, m))
      BY <2>4, <3>1 DEF has, c, p
    <3>3. l.mode = "first" => \E m \in Present(S, f.path, f.comp) : u.idx <= m /\ HasContent(S, Below(f.path, f.comp, m))
      BY <2>11, <2>14 DEF has, c, p, P
    <3> QED BY <1>1, <2>14, <3>1, <3>2, <3>3 DEF HeadSave
  <2> QED BY <2>6, <2>13, <2>14
<1> QED BY <1>2, <1>3

Saves(S, F, ctx, s) == \E fr, l : SavesOn(S, F, fr, l, ctx, s)

(* An item that is not written. *)
LEMMA SavesOver ==
  ASSUME NEW S, NEW F, NEW ctx, NEW s, Saves(S, F, ctx, s), s # <<>>,
         NEW t, t = Head(s), NEW u, u = Tail(s), t.do = "item", ~HasContent(S, PathOf(t))
  PROVE  Saves(S, F, ctx, u)
<1>1. PICK fr, l : SavesOn(S, F, fr, l, ctx, s)
  BY DEF Saves
<1>2. /\ S \in Configs /\ Writes(S, F, fr, l, ctx) /\ Legal(S, Last(fr)) /\ l.idx \in Nat
      /\ l.mode \in {"first", "after"} /\ Tracked(SaveJob(S), s, Last(fr))
  BY <1>1, SavesTop
<1>3. /\ t \in Jobs /\ Suited(SaveJob(S), t, Last(fr)) /\ HeadSave(S, l, t, Last(fr))
      /\ Tracked(SaveJob(S), u, Onward(t, Last(fr)))
      /\ u # <<>> => Beside(SaveJob(S), t, Last(fr), Head(u))
  BY <1>1, <1>2, TrackedHead DEF SavesOn
<1>4. Onward(t, Last(fr)) = Last(fr)
  BY DEF Onward, Shuts
<1>5. SaveSuits(S, t, Last(fr))
  BY <1>2, <1>3, SaveTask
<1>6. u # <<>> => HeadSave(S, l, Head(u), Last(fr))
  BY <1>2, <1>3, <1>5, HeadOver
<1>7. SavesOn(S, F, fr, l, ctx, u)
  BY <1>2, <1>3, <1>4, <1>6 DEF SavesOn
<1> QED BY <1>7 DEF Saves

(* A simple item that is. *)
LEMMA SavesSimple ==
  ASSUME NEW S, NEW F, NEW ctx, NEW s, Saves(S, F, ctx, s), s # <<>>,
         NEW t, t = Head(s), NEW u, u = Tail(s), t.do = "item", t.comp.desc = Simple,
         NEW G, G = F \o Append(MemberOf(ctx, t.comp), Token("value", PathOf(t))), NEW c2, c2 = NotFirst(ctx)
  PROVE  Saves(S, G, c2, u)
<1>1. PICK fr, l : SavesOn(S, F, fr, l, ctx, s)
  BY DEF Saves
<1> DEFINE f == Last(fr)
           v == SaveJob(S)
           c == t.comp
           k == t.idx
           H == F \o MemberOf(ctx, c)
           x == Token("value", PathOf(t))
           m2 == Later(f, k + 1)
<1>2. /\ S \in Configs /\ S \in Configs \cup {Nothing} /\ Writes(S, F, fr, l, ctx) /\ Stack(S, fr, ctx)
      /\ Legal(S, f) /\ l.in = f /\ F \in Seq(Tokens) /\ Tracked(v, s, f)
      /\ f.of \in {"file", "item", "array"} /\ (f.of = "file" <=> f = Outer)
  BY <1>1, SavesTop
<1>3. /\ t \in Jobs /\ Suited(v, t, f) /\ Tracked(v, u, Onward(t, f))
      /\ u # <<>> => Beside(v, t, f, Head(u))
  BY <1>2, TrackedHead
<1>4. Onward(t, f) = f
  BY DEF Onward, Shuts
<1>5. SaveSuits(S, t, f) /\ c \in Known /\ k \in Nat
  BY <1>2, <1>3, SaveTask
<1>6. f # Outer
  <2>1. Base.desc # Simple
    BY BaseIs
  <2> QED BY <1>2, <1>5, <2>1 DEF SaveSuits
<1>7. c \in Parts(Schema, f.path) /\ c.name \notin Volatile /\ PathOf(t) = PathIn(f, c, k) /\ PathOf(t) \in S
  BY <1>2, <1>5, <1>6 DEF SaveSuits
<1>8. PathOf(t) = Below(f.path, c, k) /\ f.path \in Seq(Steps) /\ CompOf(f.path).desc \in DOMAIN Schema
  BY <1>2, <1>6, <1>7, LegalPath DEF PathIn
<1>9. HasContent(S, PathOf(t))
  <2>1. c \in All(Schema) \cup All(NewSchema)
    BY <1>7, <1>8, PartsAre DEF Parts
  <2> QED BY <1>2, <1>5, <1>7, <1>8, <2>1, ValueKept
<1>10. PICK m : Readied(S, fr, l, t, H, m)
  <2>1. H = F \o MemberOf(ctx, t.comp)
    OBVIOUS
  <2> HIDE DEF H
  <2> QED BY <1>1, <1>9, <2>1, ItemSaves
<1>11. /\ Written(S, H, fr, m) /\ m.in = f /\ Allowed(m, c, k) /\ PathIn(m.in, c, k) = PathOf(t)
       /\ PathOf(t) \in Kept(S)
  BY <1>2, <1>10 DEF Readied
<1>12. m2.in = f /\ m2.idx = k + 1 /\ m2.idx \in Nat /\ m2.mode = "after"
  <2>1. k + 1 \in Nat
    BY <1>5
  <2>2. m2.in = f /\ m2.idx = k + 1 /\ m2.mode = "after"
    BY DEF Later, Place
  <2> QED BY <2>1, <2>2
<1>13. x \in Tokens /\ x.kind = "value"
  <2>1. PathOf(t) \in Seq(Steps)
    BY <1>2, <1>11, KeptIs
  <2> QED BY <2>1, TokensAre
<1>14. GivesValue(S, x, m, m2)
  BY <1>5, <1>11 DEF GivesValue
<1>15. Jots(H, x, G)
  <2>1. G = F \o Append(MemberOf(ctx, c), x) /\ H = F \o MemberOf(ctx, c)
    OBVIOUS
  <2> HIDE DEF c, H, x
  <2> QED BY ONLY <1>2, <1>5, <1>13, <2>1, MemberJots
<1> HIDE DEF f, v, c, k, H, x, m2
<1>16. Follows(S, m, x, m2)
  BY <1>2, <1>12, <1>14 DEF Follows
<1>17. Written(S, G, fr, m2)
  BY <1>11, <1>13, <1>15, <1>16, WritesPlain DEF IsOpener, IsCloser
<1>18. Stack(S, fr, c2) /\ Last(c2).first = FALSE
  BY <1>2, StackMoves
<1>19. Writes(S, G, fr, m2, c2)
  BY <1>2, <1>12, <1>17, <1>18 DEF Writes, f
<1>20. u # <<>> => HeadSave(S, m2, Head(u), f)
  <2>1. k + 1 \in Nat
    BY <1>5
  <2> QED BY <1>3, <2>1, HeadBehind DEF v, k, m2
<1>21. SavesOn(S, G, fr, m2, c2, u)
  BY <1>3, <1>4, <1>19, <1>20 DEF SavesOn, f, v
<1> QED BY <1>21 DEF Saves

(* One frame more is opened. *)
LEMMA WritesDeeper ==
  ASSUME NEW S \in Configs, NEW H, NEW fr, NEW m, Written(S, H, fr, m), NEW ctx, Stack(S, fr, ctx),
         NEW f, Legal(S, f), f # Outer, Parent(f) = Last(fr),
         NEW x, IsOpener(x), Follows(S, m, x, First(f)), NEW G, Jots(H, x, G),
         NEW fr2, fr2 = Append(fr, f), NEW c2, c2 = Append(ctx, Context(TypeOf(f), TRUE))
  PROVE  Writes(S, G, fr2, First(f), c2)
<1> DEFINE l == First(f)
<1>1. S \in Configs \cup {Nothing} /\ fr \in Seq(Frames) /\ ctx \in Seq(Stacked)
  BY StackTop
<1>2. f \in Frames /\ l.in = f /\ l.idx = 0 /\ l.mode = "first"
  <2>1. f \in Frames
    BY <1>1, FrameIs
  <2>2. l.in = f /\ l.idx = 0 /\ l.mode = "first"
    BY DEF First, Place
  <2> QED BY <2>1, <2>2
<1>3. Stack(S, fr2, c2)
  BY <1>1, StackOpens
<1>4. Context(TypeOf(f), TRUE) \in Stacked /\ Context(TypeOf(f), TRUE).first = TRUE
  BY ContextIs
<1>5. Last(c2).first = TRUE /\ Last(fr2) = f
  <2> DEFINE y == Context(TypeOf(f), TRUE)
  <2>1. y \in Stacked /\ y.first = TRUE /\ c2 = Append(ctx, y)
    BY <1>4
  <2> HIDE DEF y
  <2>2. Last(c2) = y
    BY ONLY <1>1, <2>1, AppendIs
  <2>3. Last(fr2) = f
    BY ONLY <1>1, <1>2, AppendIs, fr2 = Append(fr, f)
  <2> QED BY <2>1, <2>2, <2>3
<1> HIDE DEF l
<1>6. Written(S, G, fr2, l)
  <2>1. l.in \in Frames /\ fr2 = Append(fr, l.in)
    BY <1>2
  <2>2. Follows(S, m, x, l)
    BY DEF l
  <2> QED BY <1>1, <2>1, <2>2, WritesOpen
<1>7. Writes(S, G, fr2, l, c2)
  <2>1. l.in = Last(fr2) /\ l.idx \in Nat
    BY <1>2, <1>5
  <2>2. l.mode = IF Last(c2).first THEN "first" ELSE "after"
    BY <1>2, <1>5
  <2> QED BY <1>3, <1>6, <2>1, <2>2 DEF Writes
<1> QED BY <1>7 DEF l

LEMMA BesideItem ==
  ASSUME NEW v, NEW t, ~Shuts(t), NEW f, f.of = "item", NEW u
  PROVE  Beside(v, t, f, u)
<1>1. f # Outer
  BY DEF Outer, Frame
<1> QED BY <1>1 DEF Beside, Shuts

(* An item's components, and the end of its object. *)
LEMMA TrackedOpens ==
  ASSUME NEW kind \in {"save", "load"}, NEW schema \in {Schema, NewSchema}, NEW S, NEW v, v = Job(kind, schema, S),
         NEW f, f.of = "item", NEW c \in Known, c = CompOf(f.path), c.desc \in DOMAIN schema, NEW p \in Seq(Steps),
         kind = "save" \/ Packed => p = f.path,
         NEW o, o \in Jobs, o.do = "OBJECT", NEW u, Tracked(v, u, Parent(f)), u # <<>> => Beside(v, o, f, Head(u)),
         NEW s, s = Components(schema, c, p) \o (<<o>> \o u)
  PROVE  Tracked(v, s, f)
<1> DEFINE w == <<o>> \o u
           C == Components(schema, c, p)
<1>1. Suited(v, o, f) /\ Onward(o, f) = Parent(f)
  BY DEF Suited, Onward, Shuts
<1>2. s = C \o w /\ w = <<o>> \o u
  OBVIOUS
<1> HIDE DEF w, C
<1>3. Tracked(v, w, f)
  BY <1>1, <1>2, TrackedMore
<1>4. Level(v, C, f)
  BY ComponentJobs DEF C
<1>5. C # <<>> => Beside(v, C[Len(C)], f, Head(w))
  <2> SUFFICES ASSUME C # <<>> PROVE Beside(v, C[Len(C)], f, Head(w))
    OBVIOUS
  <2>1. Len(C) \in 1 .. Len(C)
    <3>1. C \in Seq(Jobs)
      BY <1>4 DEF Level
    <3> QED BY <3>1
  <2>2. ~Shuts(C[Len(C)])
    BY <1>4, <2>1 DEF Level
  <2> QED BY <2>2, BesideItem
<1> QED BY <1>2, <1>3, <1>4, <1>5, TrackedJoin

LEMMA SavesComposite ==
  ASSUME NEW S, NEW F, NEW ctx, NEW s, Saves(S, F, ctx, s), s # <<>>,
         NEW t, t = Head(s), NEW u, u = Tail(s), t.do = "item", t.comp.desc # Simple, HasContent(S, PathOf(t)),
         NEW G, G = F \o Append(MemberOf(ctx, t.comp), Mark("{")),
         NEW c2, c2 = Append(ctx, Context("OBJECT", TRUE)),
         NEW o, o = Task("OBJECT", t.comp, t.path, 0),
         NEW s2, s2 = Components(Schema, t.comp, PathOf(t)) \o (<<o>> \o u)
  PROVE  Saves(S, G, c2, s2)
<1>1. PICK fr, l : SavesOn(S, F, fr, l, ctx, s)
  BY DEF Saves
<1> DEFINE f == Last(fr)
           v == SaveJob(S)
           c == t.comp
           k == t.idx
           H == F \o MemberOf(ctx, c)
           x == Mark("{")
           q == PathOf(t)
           f2 == ItemFrame(q)
           fr2 == Append(fr, f2)
<1>2. /\ S \in Configs /\ S \in Configs \cup {Nothing} /\ Writes(S, F, fr, l, ctx) /\ Stack(S, fr, ctx)
      /\ Legal(S, f) /\ l.in = f /\ F \in Seq(Tokens) /\ Tracked(v, s, f)
      /\ f.of \in {"file", "item", "array"} /\ (f.of = "file" <=> f = Outer)
  BY <1>1, SavesTop
<1>3. /\ t \in Jobs /\ Suited(v, t, f) /\ Tracked(v, u, Onward(t, f)) /\ u \in Seq(Jobs)
      /\ u # <<>> => Beside(v, t, f, Head(u))
  BY <1>2, TrackedHead
<1>4. Onward(t, f) = f
  BY DEF Onward, Shuts
<1>5. SaveSuits(S, t, f) /\ c \in Known /\ k \in Nat /\ t.path \in Seq(Steps)
  BY <1>2, <1>3, SaveTask
<1>6. PICK m : Readied(S, fr, l, t, H, m)
  <2>1. H = F \o MemberOf(ctx, t.comp)
    OBVIOUS
  <2> HIDE DEF H
  <2> QED BY <1>1, <2>1, ItemSaves
<1>7. /\ Written(S, H, fr, m) /\ m.in = f /\ Allowed(m, c, k) /\ PathIn(m.in, c, k) = q
      /\ q \in Kept(S) /\ Legal(S, m.in)
  BY <1>2, <1>6 DEF Readied
<1>8. q \in Seq(Steps) /\ CompOf(q) = c /\ Parent(f2) = f /\ Following(f2) = k + 1
  <2>1. q = PathIn(m.in, c, k)
    BY <1>7
  <2>2. f2 = ItemFrame(q)
    OBVIOUS
  <2> HIDE DEF f, v, c, k, H, x, q, f2
  <2>3. CompOf(q) = c /\ q \in Seq(Steps) /\ Parent(ItemFrame(q)) = m.in /\ Following(ItemFrame(q)) = k + 1
    BY ONLY <1>2, <1>5, <1>7, <2>1, ItemIn
  <2> QED BY <1>7, <2>2, <2>3
<1>9. c.desc \in DOMAIN Schema
  <2>1. CASE f = Outer
    BY <1>2, <1>5, <2>1, BaseIs DEF SaveSuits
  <2>2. CASE f # Outer
    <3>1. c \in Parts(Schema, f.path)
      BY <1>2, <1>5, <2>2 DEF SaveSuits
    <3> QED BY <1>2, <2>2, <3>1, PartOf
  <2> QED BY <2>1, <2>2
<1>10. q \in Composites(S)
  BY <1>7, <1>8, <1>9 DEF Composites
<1>11. /\ Legal(S, f2) /\ f2 # Outer /\ f2.of = "item" /\ f2.path = q
  BY <1>10, ArrayIn DEF Legal
<1>12. x \in Tokens /\ x.kind = "{" /\ IsOpener(x)
  BY TokensAre DEF IsOpener
<1>13. BeginsItem(S, x, m, First(f2))
  BY <1>5, <1>7, <1>10 DEF BeginsItem
<1>14. Jots(H, x, G)
  <2>1. G = F \o Append(MemberOf(ctx, c), x) /\ H = F \o MemberOf(ctx, c)
    OBVIOUS
  <2> HIDE DEF c, H, x
  <2> QED BY ONLY <1>2, <1>5, <1>12, <2>1, MemberJots
<1>15. c2 = Append(ctx, Context(TypeOf(f2), TRUE))
  BY <1>11 DEF TypeOf
<1>16. First(f2).in = f2
  BY DEF First, Place
<1>17. o \in Jobs /\ o.do = "OBJECT"
  <2>1. o = Task("OBJECT", c, t.path, 0) /\ 0 \in Nat /\ "OBJECT" \in {"aggr", "item", "OBJECT", "ARRAY"}
    OBVIOUS
  <2> HIDE DEF c
  <2> QED BY ONLY <1>5, <2>1, JobIs
<1>18. s2 = Components(Schema, c, q) \o (<<o>> \o u)
  OBVIOUS
<1>19. u # <<>> => Beside(v, o, f2, Head(u))
  <2> SUFFICES ASSUME u # <<>> PROVE Beside(v, o, f2, Head(u))
    OBVIOUS
  <2>1. Beside(v, t, f, Head(u))
    BY <1>3
  <2>2. v = SaveJob(S) /\ k = t.idx /\ t.do = "item"
    OBVIOUS
  <2>3. v.kind = "save"
    BY DEF SaveJob, Job
  <2> HIDE DEF v, f, f2, k, c, q
  <2>4. /\ f # Outer
        /\ f.of = "array" => Head(u).do = "ARRAY" \/ (Head(u).do = "item" /\ Head(u).idx = k + 1)
    <3>1. Beside(SaveJob(S), t, f, Head(u))
      BY <2>1, <2>2
    <3> QED BY ONLY <2>2, <3>1, SaveBeside
  <2>5. k + 1 \in Nat
    BY ONLY <1>5
  <2> QED BY ONLY <1>8, <1>17, <2>3, <2>4, <2>5 DEF Beside
<1> HIDE DEF f, v, c, k, H, x, q, f2
<1>20. Follows(S, m, x, First(f2))
  BY <1>11, <1>13, <1>16 DEF Follows
<1>21. Writes(S, G, fr2, First(f2), c2) /\ Last(fr2) = f2
  <2>1. fr2 = Append(fr, f2) /\ Last(fr) = f
    BY DEF f
  <2> HIDE DEF fr2
  <2>2. Parent(f2) = Last(fr)
    BY <1>8, <2>1
  <2>3. S \in Configs /\ Written(S, H, fr, m) /\ Stack(S, fr, ctx)
    BY <1>2, <1>7
  <2>4. Legal(S, f2) /\ f2 # Outer /\ Parent(f2) = Last(fr)
    BY <1>11, <2>2
  <2>5. IsOpener(x) /\ Follows(S, m, x, First(f2)) /\ Jots(H, x, G)
    BY <1>12, <1>14, <1>20
  <2>6. fr2 = Append(fr, f2) /\ c2 = Append(ctx, Context(TypeOf(f2), TRUE))
    BY <1>15, <2>1
  <2>7. Writes(S, G, fr2, First(f2), c2)
    BY ONLY <2>3, <2>4, <2>5, <2>6, WritesDeeper
  <2>8. Last(fr2) = f2
    BY <1>16, <2>7 DEF Writes
  <2> QED BY <2>7, <2>8
<1>22. Tracked(v, s2, f2)
  <2>1. v = Job("save", Schema, S) /\ Schema \in {Schema, NewSchema} /\ "save" \in {"save", "load"}
    BY DEF v, SaveJob
  <2>2. Tracked(v, u, Parent(f2))
    BY <1>3, <1>4, <1>8
  <2> QED BY ONLY <1>5, <1>8, <1>9, <1>11, <1>17, <1>18, <1>19, <2>1, <2>2, TrackedOpens
<1>23. HeadSave(S, First(f2), Head(s2), f2)
  BY <1>11, HeadInItem
<1>24. SavesOn(S, G, fr2, First(f2), c2, s2)
  BY <1>21, <1>22, <1>23 DEF SavesOn, v
<1> QED BY <1>24 DEF Saves

(* A component that is not written. *)
LEMMA SavesSkip ==
  ASSUME NEW S, NEW F, NEW ctx, NEW s, Saves(S, F, ctx, s), s # <<>>,
         NEW t, t = Head(s), NEW u, u = Tail(s), t.do = "aggr"
  PROVE  Saves(S, F, ctx, u)
<1>1. PICK fr, l : SavesOn(S, F, fr, l, ctx, s)
  BY DEF Saves
<1>2. /\ S \in Configs /\ Writes(S, F, fr, l, ctx) /\ Legal(S, Last(fr)) /\ Tracked(SaveJob(S), s, Last(fr))
  BY <1>1, SavesTop
<1>3. t \in Jobs /\ Suited(SaveJob(S), t, Last(fr)) /\ Tracked(SaveJob(S), u, Onward(t, Last(fr)))
  BY <1>2, TrackedHead
<1>4. Onward(t, Last(fr)) = Last(fr)
  BY DEF Onward, Shuts
<1>5. Last(fr).of = "item"
  BY <1>2, <1>3, SaveTask
<1>6. HeadSave(S, l, Head(u), Last(fr))
  BY <1>5, HeadInItem
<1>7. SavesOn(S, F, fr, l, ctx, u)
  BY <1>2, <1>3, <1>4, <1>6 DEF SavesOn
<1> QED BY <1>7 DEF Saves

(* The items of a component, in the frame they are written in. *)
Itemized(S, p, c, f, items) ==
  /\ Level(SaveJob(S), items, f) /\ items \in Seq(Jobs)
  /\ Present(S, p, c) = 0 .. Len(items) - 1
  /\ \A k \in 1 .. Len(items) : items[k].do = "item" /\ items[k].idx = k - 1

LEMMA SaveItemJobs ==
  ASSUME NEW S \in Configs, NEW p \in Kept(S), CompOf(p).desc \in DOMAIN Schema,
         NEW c \in Parts(Schema, p), c.name \notin Volatile,
         NEW f, f = IF c.max > 1 THEN ArrayFrame(p, c) ELSE ItemFrame(p),
         NEW items, items = SaveItems(S, c, p)
  PROVE  Itemized(S, p, c, f, items)
<1> DEFINE n == Cardinality(Present(S, p, c))
           j(k) == Task("item", c, p, k - 1)
<1>1. c \in Known /\ c # Base /\ c.max \in Nat \ {0}
  BY PartsAre DEF Parts
<1>2. p \in Seq(Steps) /\ p \in S
  BY KeptIs
<1>3. n \in 0 .. c.max
  BY <1>1, PresentIs
<1>4. Present(S, p, c) = 0 .. n - 1
  BY <1>2, ConfigAssumption
<1>5. items = [k \in 1 .. n |-> j(k)]
  BY DEF SaveItems
<1> HIDE DEF n
<1>6. \A k \in 1 .. n : /\ j(k) \in Jobs /\ j(k).do = "item" /\ j(k).comp = c
                        /\ j(k).path = p /\ j(k).idx = k - 1
  <2> TAKE k \in 1 .. n
  <2>1. k - 1 \in Nat
    BY <1>3
  <2> QED BY <1>1, <1>2, <2>1, JobIs
<1> HIDE DEF j
<1>7. items \in Seq(Jobs) /\ Len(items) = n /\ \A k \in 1 .. n : items[k] = j(k)
  BY <1>3, <1>5, <1>6
<1>8. /\ f.of = (IF c.max > 1 THEN "array" ELSE "item") /\ f.path = p /\ (f.of = "array" => f.comp = c)
  BY DEF ArrayFrame, ItemFrame, Frame
<1>9. \A k \in 1 .. n : SaveSuits(S, items[k], f)
  <2> TAKE k \in 1 .. n
  <2> DEFINE t == items[k]
  <2>1. t.comp = c /\ t.path = p /\ t.idx = k - 1 /\ k - 1 \in Present(S, p, c) /\ k - 1 \in 0 .. c.max - 1
    BY <1>1, <1>3, <1>4, <1>6, <1>7
  <2>2. Below(p, c, k - 1) \in S
    BY <2>1 DEF Present
  <2> HIDE DEF t
  <2>3. PathOf(t) = Below(p, c, k - 1) /\ PathIn(f, c, k - 1) = Below(p, c, k - 1)
    BY <1>1, <1>8, <2>1 DEF PathOf, PathIn
  <2>4. f.of = "item" => c.max = 1 /\ k - 1 = 0
    BY <1>1, <1>3, <1>8
  <2>5. SaveSuits(S, t, f)
    BY <1>8, <2>1, <2>2, <2>3, <2>4 DEF SaveSuits
  <2> QED BY <2>5 DEF t
<1>10. \A k \in 1 .. n : Suited(SaveJob(S), items[k], f) /\ ~Shuts(items[k])
  BY <1>6, <1>7, <1>9 DEF Suited, Shuts, SaveJob, Job
<1>11. \A k \in 1 .. n - 1 : Beside(SaveJob(S), items[k], f, items[k + 1])
  <2> TAKE k \in 1 .. n - 1
  <2>1. k \in 1 .. n /\ k + 1 \in 1 .. n
    BY <1>3
  <2>2. items[k].do = "item" /\ items[k].idx = k - 1 /\ items[k + 1].do = "item" /\ items[k + 1].idx = k + 1 - 1
    BY <1>6, <1>7, <2>1
  <2>3. items[k + 1].idx = items[k].idx + 1
    BY <2>1, <2>2, <1>3
  <2>4. f # Outer
    BY <1>8 DEF Outer, Frame
  <2>5. SaveJob(S).kind = "save"
    BY DEF SaveJob, Job
  <2> QED BY ONLY <2>2, <2>3, <2>4, <2>5 DEF Beside
<1>12. Level(SaveJob(S), items, f)
  BY <1>7, <1>10, <1>11 DEF Level
<1>13. \A k \in 1 .. Len(items) : items[k].do = "item" /\ items[k].idx = k - 1
  BY <1>6, <1>7
<1> QED BY <1>4, <1>7, <1>12, <1>13 DEF Itemized

(* A component that is. *)
Component1(S, s, t, fr, l, ctx, F) ==
  /\ S \in Configs /\ S \in Configs \cup {Nothing} /\ Writes(S, F, fr, l, ctx) /\ Stack(S, fr, ctx)
  /\ Legal(S, Last(fr)) /\ l.in = Last(fr) /\ F \in Seq(Tokens)
  /\ Last(fr).of = "item" /\ Last(fr) = ItemFrame(t.path) /\ Tracked(SaveJob(S), Tail(s), Last(fr))
  /\ t.path \in Kept(S) /\ t.path \in Seq(Steps) /\ CompOf(t.path).desc \in DOMAIN Schema
  /\ t.comp \in Known /\ t.comp \in Parts(Schema, t.path) /\ t.comp.max \in Nat \ {0}

LEMMA ComponentSaved ==
  ASSUME NEW S, NEW F, NEW fr, NEW l, NEW ctx, NEW s, SavesOn(S, F, fr, l, ctx, s), s # <<>>,
         NEW t, t = Head(s), t.do = "aggr"
  PROVE  Component1(S, s, t, fr, l, ctx, F)
<1> DEFINE f == Last(fr)
<1>1. /\ S \in Configs /\ S \in Configs \cup {Nothing} /\ Writes(S, F, fr, l, ctx) /\ Stack(S, fr, ctx)
      /\ Legal(S, f) /\ l.in = f /\ F \in Seq(Tokens) /\ Tracked(SaveJob(S), s, f)
  BY SavesTop
<1>2. t \in Jobs /\ Suited(SaveJob(S), t, f) /\ Tracked(SaveJob(S), Tail(s), Onward(t, f))
  BY <1>1, TrackedHead
<1>3. Onward(t, f) = f
  BY DEF Onward, Shuts
<1>4. t.comp \in Known /\ f.of = "item" /\ t.path = f.path /\ t.comp \in Parts(Schema, f.path)
  BY <1>1, <1>2, SaveTask
<1>5. f # Outer /\ f = ItemFrame(f.path)
  BY <1>1, <1>4, LegalIs DEF Outer, Frame
<1>6. f.path \in Kept(S) /\ f.path \in Seq(Steps) /\ CompOf(f.path).desc \in DOMAIN Schema
  BY <1>1, <1>5, LegalPath
<1>7. t.comp.max \in Nat \ {0}
  BY <1>1, <1>4, <1>5, PartOf
<1> QED BY <1>1, <1>2, <1>3, <1>4, <1>5, <1>6, <1>7 DEF Component1

LEMMA SavesOne ==
  ASSUME NEW S, NEW F, NEW ctx, NEW s, Saves(S, F, ctx, s), s # <<>>,
         NEW t, t = Head(s), NEW u, u = Tail(s), t.do = "aggr", t.comp.name \notin Volatile, ~(t.comp.max > 1),
         NEW s2, s2 = SaveItems(S, t.comp, t.path) \o u
  PROVE  Saves(S, F, ctx, s2)
<1>1. PICK fr, l : SavesOn(S, F, fr, l, ctx, s)
  BY DEF Saves
<1> DEFINE f == Last(fr)
           items == SaveItems(S, t.comp, t.path)
<1>2. Component1(S, s, t, fr, l, ctx, F)
  BY <1>1, ComponentSaved
<1>3. /\ S \in Configs /\ Writes(S, F, fr, l, ctx) /\ f.of = "item" /\ f = ItemFrame(t.path)
      /\ Tracked(SaveJob(S), u, f) /\ t.path \in Kept(S) /\ CompOf(t.path).desc \in DOMAIN Schema
      /\ t.comp \in Parts(Schema, t.path)
  BY <1>2 DEF Component1
<1>4. f = IF t.comp.max > 1 THEN ArrayFrame(t.path, t.comp) ELSE ItemFrame(t.path)
  BY <1>3
<1>5. items = SaveItems(S, t.comp, t.path) /\ s2 = items \o u
  OBVIOUS
<1> HIDE DEF items, f
<1>6. Itemized(S, t.path, t.comp, f, items)
  BY <1>3, <1>4, <1>5, SaveItemJobs
<1>7. Level(SaveJob(S), items, f) /\ Len(items) \in Nat
  BY <1>6 DEF Itemized
<1>8. items # <<>> => Beside(SaveJob(S), items[Len(items)], f, Head(u))
  <2> SUFFICES ASSUME items # <<>> PROVE Beside(SaveJob(S), items[Len(items)], f, Head(u))
    OBVIOUS
  <2>1. Len(items) \in 1 .. Len(items)
    BY <1>6 DEF Itemized
  <2>2. ~Shuts(items[Len(items)])
    BY <1>7, <2>1 DEF Level
  <2> QED BY <1>3, <2>2, BesideItem
<1>9. Tracked(SaveJob(S), s2, f)
  BY <1>3, <1>5, <1>7, <1>8, TrackedJoin
<1>10. HeadSave(S, l, Head(s2), f)
  BY <1>3, HeadInItem
<1>11. SavesOn(S, F, fr, l, ctx, s2)
  BY <1>3, <1>9, <1>10 DEF SavesOn, f
<1> QED BY <1>11 DEF Saves

LEMMA SavesArray ==
  ASSUME NEW S, NEW F, NEW ctx, NEW s, Saves(S, F, ctx, s), s # <<>>,
         NEW t, t = Head(s), NEW u, u = Tail(s), t.do = "aggr", t.comp.max > 1, ~Skipped(S, t.comp, t.path),
         NEW G, G = F \o Append(MemberOf(ctx, t.comp), Mark("[")),
         NEW c2, c2 = Append(ctx, Context("ARRAY", TRUE)),
         NEW a, a = Task("ARRAY", t.comp, t.path, 0),
         NEW s2, s2 = SaveItems(S, t.comp, t.path) \o (<<a>> \o u)
  PROVE  Saves(S, G, c2, s2)
<1>1. PICK fr, l : SavesOn(S, F, fr, l, ctx, s)
  BY DEF Saves
<1> DEFINE f == Last(fr)
           v == SaveJob(S)
           c == t.comp
           p == t.path
           H == F \o MemberOf(ctx, c)
           x == Mark("[")
           f2 == ArrayFrame(p, c)
           fr2 == Append(fr, f2)
           items == SaveItems(S, c, p)
           w == <<a>> \o u
<1>2. Component1(S, s, t, fr, l, ctx, F)
  BY <1>1, ComponentSaved
<1>3. /\ S \in Configs /\ S \in Configs \cup {Nothing} /\ Writes(S, F, fr, l, ctx) /\ Stack(S, fr, ctx)
      /\ Legal(S, f) /\ l.in = f /\ F \in Seq(Tokens)
      /\ f.of = "item" /\ f = ItemFrame(p) /\ Tracked(v, u, f)
      /\ p \in Kept(S) /\ p \in Seq(Steps) /\ CompOf(p).desc \in DOMAIN Schema
      /\ c \in Known /\ c \in Parts(Schema, p) /\ c.max \in Nat \ {0} /\ c.max > 1
  BY <1>2 DEF Component1
<1>4. c.name \notin Volatile /\ \E k \in Present(S, p, c) : HasContent(S, Below(p, c, k))
  BY DEF Skipped
<1>5. Member1(l, c)
  <2>1. l.in.of = "item" /\ l.in.path = p
    BY <1>3 DEF ItemFrame, Frame
  <2> HIDE DEF c, p
  <2> QED BY <1>3, <2>1 DEF Member1
<1>6. H \in Seq(Tokens) /\ \E m : Begun1(S, F, fr, l, c, H, m)
  <2>1. H = F \o MemberOf(ctx, c)
    OBVIOUS
  <2> HIDE DEF H, c
  <2> QED BY <1>3, <1>5, <2>1, MemberWritten
<1>7. PICK m : Begun1(S, F, fr, l, c, H, m)
  BY <1>6
<1>8. Written(S, H, fr, m) /\ m.in = f /\ m = Awaits(f, c)
  BY <1>3, <1>7 DEF Begun1
<1>9. x \in Tokens /\ x.kind = "[" /\ IsOpener(x) /\ x = Mark("[")
  BY TokensAre DEF IsOpener
<1>10. f2 = ArrayFrame(p, c) /\ f2.of = "array" /\ f2.path = p /\ f2.comp = c /\ f2 # Outer
       /\ Parent(f2) = f /\ f.path = p
  BY <1>3, ArrayIn
<1>11. Legal(S, f2)
  <2>1. p \in Composites(S)
    BY <1>3 DEF Composites
  <2> HIDE DEF p, c
  <2> QED BY <1>3, <1>10, <2>1 DEF Legal
<1>12. First(f2).in = f2 /\ First(f2).idx = 0 /\ First(f2).mode = "first"
  BY DEF First, Place
<1>13. Jots(H, x, G)
  <2>1. G = F \o Append(MemberOf(ctx, c), x) /\ H = F \o MemberOf(ctx, c)
    OBVIOUS
  <2> HIDE DEF c, H, x
  <2> QED BY ONLY <1>3, <1>9, <2>1, MemberJots
<1>14. c2 = Append(ctx, Context(TypeOf(f2), TRUE)) /\ fr2 = Append(fr, f2) /\ f = Last(fr)
  BY <1>10 DEF TypeOf
<1>15. a \in Jobs /\ a.do = "ARRAY"
  <2>1. a = Task("ARRAY", c, p, 0) /\ 0 \in Nat /\ "ARRAY" \in {"aggr", "item", "OBJECT", "ARRAY"}
    OBVIOUS
  <2> HIDE DEF c, p
  <2> QED BY ONLY <1>3, <2>1, JobIs
<1>16. items = SaveItems(S, c, p) /\ s2 = items \o w /\ w = <<a>> \o u
  OBVIOUS
<1>17. v = SaveJob(S) /\ v.kind = "save" /\ v.of = S
  BY DEF SaveJob, Job
<1> HIDE DEF f, v, c, p, H, x, f2, fr2, items, w
<1>18. Follows(S, m, x, First(f2))
  <2>1. BeginsArray(x, m, First(f2))
    <3>1. m.in.of = "item" /\ m = Awaits(m.in, c) /\ c \in Parts(Schema, m.in.path)
      BY <1>3, <1>8, <1>10
    <3>2. First(f2) = First(ArrayFrame(m.in.path, c))
      BY <1>8, <1>10
    <3> QED BY ONLY <1>3, <1>9, <3>1, <3>2 DEF BeginsArray
  <2> QED BY <1>11, <1>12, <2>1 DEF Follows
<1>19. Writes(S, G, fr2, First(f2), c2)
  <2>1. S \in Configs /\ Written(S, H, fr, m) /\ Stack(S, fr, ctx)
    BY <1>3, <1>8
  <2>2. Legal(S, f2) /\ f2 # Outer /\ Parent(f2) = Last(fr)
    BY <1>10, <1>11, <1>14
  <2>3. IsOpener(x) /\ Follows(S, m, x, First(f2)) /\ Jots(H, x, G)
    BY <1>9, <1>13, <1>18
  <2> QED BY ONLY <1>14, <2>1, <2>2, <2>3, WritesDeeper
<1>20. Last(fr2) = f2
  BY <1>12, <1>19 DEF Writes
<1>21. Tracked(v, w, f2)
  <2>1. Suited(v, a, f2) /\ Onward(a, f2) = f
    BY <1>10, <1>15 DEF Suited, Onward, Shuts
  <2>2. Beside(v, a, f2, Head(u))
    BY <1>15 DEF Beside
  <2> QED BY <1>3, <1>15, <1>16, <2>1, <2>2, TrackedMore
<1>22. Itemized(S, p, c, f2, items)
  <2>1. f2 = IF c.max > 1 THEN ArrayFrame(p, c) ELSE ItemFrame(p)
    BY <1>3, <1>10
  <2> QED BY <1>3, <1>4, <1>16, <2>1, SaveItemJobs
<1>23. /\ Level(v, items, f2) /\ items \in Seq(Jobs) /\ Present(S, p, c) = 0 .. Len(items) - 1
       /\ \A k \in 1 .. Len(items) : items[k].do = "item" /\ items[k].idx = k - 1
  BY <1>17, <1>22 DEF Itemized
<1>24. Len(items) \in Nat \ {0} /\ items # <<>>
  <2>1. Len(items) \in Nat
    BY <1>23
  <2>2. \E k : k \in Present(S, p, c)
    BY <1>4
  <2> QED BY <1>23, <2>1, <2>2
<1>25. w \in Seq(Jobs) /\ w # <<>> /\ Head(w) = a /\ w[1] = a
  <2>1. u \in Seq(Jobs)
    <3>1. Tracked(SaveJob(S), s, f)
      BY <1>1, <1>14 DEF SavesOn
    <3> QED BY <3>1, TrackedHead
  <2> QED BY <1>15, <1>16, <2>1
<1>26. Beside(v, items[Len(items)], f2, a)
  <2>1. items[Len(items)].do = "item" /\ items[Len(items)].idx + 1 = Len(items)
    <3>1. Len(items) \in 1 .. Len(items) /\ Len(items) \in Nat
      BY ONLY <1>24
    <3>2. items[Len(items)].do = "item" /\ items[Len(items)].idx = Len(items) - 1
      BY ONLY <1>23, <3>1
    <3> QED BY ONLY <3>1, <3>2
  <2>2. items[Len(items)].idx + 1 \notin Present(S, p, c)
    BY <1>23, <1>24, <2>1
  <2> QED BY <1>10, <1>15, <1>17, <2>1, <2>2 DEF Beside
<1>27. Tracked(v, s2, f2)
  BY <1>16, <1>21, <1>23, <1>25, <1>26, TrackedJoin
<1>28. Head(s2) = items[1] /\ 1 \in 1 .. Len(items)
  <2>1. s2 \in Seq(Jobs) /\ Len(s2) = Len(items) + Len(w) /\ s2[1] = items[1] /\ Len(items) \in Nat /\ Len(w) \in Nat
        /\ 1 \in 1 .. Len(items)
    <3>1. 1 \in 1 .. Len(items) + Len(w) /\ 1 <= Len(items)
      BY <1>24, <1>25
    <3>2. items \in Seq(Jobs) /\ w \in Seq(Jobs) /\ s2 = items \o w
      BY <1>16, <1>23, <1>25
    <3>3. /\ items \o w \in Seq(Jobs) /\ Len(items \o w) = Len(items) + Len(w)
          /\ Len(items) \in Nat /\ Len(w) \in Nat
          /\ \A i \in 1 .. Len(items) + Len(w) :
               (items \o w)[i] = IF i <= Len(items) THEN items[i] ELSE w[i - Len(items)]
      BY ONLY <3>2, JoinedIs
    <3>4. (items \o w)[1] = items[1]
      BY ONLY <3>1, <3>3
    <3>5. 1 \in 1 .. Len(items)
      BY ONLY <3>1, <3>3
    <3> QED BY ONLY <3>2, <3>3, <3>4, <3>5
  <2>2. s2 # <<>>
    BY <1>24, <2>1
  <2> QED BY <2>1, <2>2
<1>29. HeadSave(S, First(f2), Head(s2), f2)
  <2> DEFINE h == Head(s2)
             l2 == First(f2)
  <2>1. h.do = "item" /\ h.idx = 0
    BY <1>23, <1>28
  <2>2. \E k \in Present(S, p, c) : 0 <= k /\ HasContent(S, Below(p, c, k))
    BY <1>4 DEF Present
  <2>3. l2.mode = "first" /\ l2.idx = 0
    BY <1>12
  <2> HIDE DEF h, l2
  <2>4. HeadSave(S, l2, h, f2)
    BY <1>10, <2>1, <2>2, <2>3 DEF HeadSave
  <2> QED BY <2>4 DEF h, l2
<1>30. SavesOn(S, G, fr2, First(f2), c2, s2)
  BY <1>17, <1>19, <1>20, <1>27, <1>29 DEF SavesOn
<1> QED BY <1>30 DEF Saves

LEMMA FollowingIs ==
  ASSUME NEW S \in Configs \cup {Nothing}, NEW f, Legal(S, f)
  PROVE  Following(f) \in Nat
<1>1. CASE f.of = "item" /\ f.path # <<>>
  <2>1. f.path \in Seq(Steps)
    BY LegalIs
  <2>2. Last(f.path) \in Steps
    BY <1>1, <2>1, FrontIs
  <2>3. Last(f.path)[2] \in Nat
    BY <2>2 DEF Steps
  <2> QED BY <1>1, <2>3 DEF Following
<1>2. CASE ~(f.of = "item" /\ f.path # <<>>)
  BY <1>2 DEF Following
<1> QED BY <1>1, <1>2

(* The end of an object or of an array. *)
LEMMA SavesClose ==
  ASSUME NEW S, NEW F, NEW ctx, NEW s, Saves(S, F, ctx, s), s # <<>>,
         NEW t, t = Head(s), NEW u, u = Tail(s), NEW type \in {"OBJECT", "ARRAY"}, t.do = type,
         NEW G, G = F \o <<Mark(Closer[type])>>, NEW c2, c2 = NotFirst(Front(ctx))
  PROVE  Saves(S, G, c2, u)
<1>1. PICK fr, l : SavesOn(S, F, fr, l, ctx, s)
  BY DEF Saves
<1> DEFINE f == Last(fr)
           v == SaveJob(S)
           x == Mark(Closer[type])
           g == Parent(f)
           k == Following(f)
           m == Later(g, k)
           fr2 == Front(fr)
<1>2. /\ S \in Configs /\ S \in Configs \cup {Nothing} /\ Stack(S, fr, ctx) /\ Written(S, F, fr, l)
      /\ Legal(S, f) /\ l.in = f /\ F \in Seq(Tokens) /\ Tracked(v, s, f)
      /\ l.mode \in {"first", "after"}
  BY <1>1, SavesTop
<1>3. /\ t \in Jobs /\ Suited(v, t, f) /\ Tracked(v, u, Onward(t, f)) /\ HeadSave(S, l, t, f)
      /\ u # <<>> => Beside(v, t, f, Head(u))
  BY <1>1, <1>2, TrackedHead DEF SavesOn
<1>4. Onward(t, f) = g
  BY DEF Onward, Shuts
<1>5. /\ type = "OBJECT" => f.of = "item"
      /\ type = "ARRAY" => f.of = "array"
  BY <1>2, <1>3, SaveTask
<1>6. f # Outer /\ TypeOf(f) = type
  BY <1>5 DEF Outer, Frame, TypeOf
<1>7. k \in Nat
  BY <1>2, FollowingIs
<1>8. Stack(S, fr2, c2) /\ Last(c2).first = FALSE /\ Last(fr2) = g /\ Stack(S, fr2, Front(ctx))
  <2>1. Stack(S, fr2, c2) /\ Last(c2).first = FALSE
    <3>1. Stack(S, fr, ctx) /\ Last(fr) # Outer /\ fr2 = Front(fr) /\ c2 = NotFirst(Front(ctx))
      BY <1>2, <1>6
    <3> HIDE DEF fr2
    <3>2. Stack(S, Front(fr), c2) /\ Last(c2).first = FALSE
      BY ONLY <3>1, StackCloses
    <3> QED BY <3>1, <3>2
  <2>2. Last(fr2) = g /\ Stack(S, fr2, Front(ctx))
    BY <1>2, <1>6, StackFront
  <2> QED BY <2>1, <2>2
<1>9. Legal(S, g)
  BY <1>8, StackTop
<1>10. x \in Tokens /\ IsCloser(x) /\ x = Mark(Closer[TypeOf(f)])
  BY <1>6, BracketsAre, TokensAre DEF IsCloser
<1>11. m.in = g /\ m.idx = k /\ m.mode = "after"
  BY DEF Later, Place
<1>12. l.mode = "after" \/ (l.mode = "first" /\ f.of # "array")
  BY <1>2, <1>3, <1>5 DEF HeadSave
<1>13. Ends(x, l, m)
  BY <1>2, <1>6, <1>10, <1>12 DEF Ends
<1>14. Jots(F, x, G)
  <2>1. G = Append(F, x)
    BY <1>2, <1>10, JoinEmpty
  <2> QED BY <1>2, <1>10, <2>1, JotsIs
<1>15. fr \in Seq(Frames) /\ fr # <<>>
  BY <1>2, StackTop
<1>16. u # <<>> => HeadSave(S, m, Head(u), g)
  <2> SUFFICES ASSUME u # <<>> PROVE HeadSave(S, m, Head(u), g)
    OBVIOUS
  <2>1. CASE type = "OBJECT"
    BY <1>3, <1>7, <2>1, HeadBehind
  <2>2. CASE type = "ARRAY"
    <3>1. g.of = "item"
      BY <1>5, <2>2, ArrayIn DEF Parent
    <3> QED BY <3>1, HeadInItem
  <2> QED BY <2>1, <2>2
<1> HIDE DEF f, v, x, g, k, m, fr2
<1>17. Follows(S, l, x, m)
  BY <1>9, <1>11, <1>13 DEF Follows
<1>18. Written(S, G, fr2, m)
  <2>1. l.in = Last(fr) /\ fr2 = Front(fr)
    BY <1>2 DEF f, fr2
  <2> QED BY ONLY <1>2, <1>10, <1>14, <1>15, <1>17, <2>1, WritesClose
<1>19. Writes(S, G, fr2, m, c2)
  BY <1>2, <1>7, <1>8, <1>11, <1>18 DEF Writes
<1>20. SavesOn(S, G, fr2, m, c2, u)
  BY <1>3, <1>4, <1>8, <1>16, <1>19 DEF SavesOn, v
<1> QED BY <1>20 DEF Saves

(* A file that was written to the end. *)
Ended(S, F) == \E lab, w : Text(S, F, lab, w) /\ lab[Len(F) + 1].mode = "end"

LEMMA SavesEnd ==
  ASSUME NEW S, NEW F, NEW ctx, Saves(S, F, ctx, <<>>), NEW G, G = F \o <<Mark("}")>>
  PROVE  Ended(S, G)
<1>1. PICK fr, l : SavesOn(S, F, fr, l, ctx, <<>>)
  BY DEF Saves
<1> DEFINE x == Mark("}")
<1>2. /\ S \in Configs /\ S \in Configs \cup {Nothing} /\ Stack(S, fr, ctx) /\ Written(S, F, fr, l)
      /\ l.in = Last(fr) /\ F \in Seq(Tokens) /\ Tracked(SaveJob(S), <<>>, Last(fr))
      /\ l.mode \in {"first", "after"}
  BY <1>1, SavesTop
<1>3. Last(fr) = Outer
  BY <1>2, TrackedNone
<1>4. fr \in Seq(Frames) /\ fr # <<>>
  BY <1>2, StackTop
<1>5. Outer.of = "file" /\ TypeOf(Outer) = "OBJECT" /\ Finish.in = Outer /\ Finish.mode = "end"
  BY DEF Outer, Frame, TypeOf, Finish, Place
<1>6. x \in Tokens /\ IsCloser(x) /\ x = Mark(Closer["OBJECT"])
  BY BracketsAre, TokensAre DEF IsCloser
<1>7. Ends(x, l, Finish)
  BY <1>2, <1>3, <1>5, <1>6 DEF Ends
<1>8. Jots(F, x, G)
  <2>1. G = Append(F, x)
    BY <1>2, <1>6, JoinEmpty
  <2> QED BY <1>2, <1>6, <2>1, JotsIs
<1> HIDE DEF x
<1>9. Follows(S, l, x, Finish)
  BY <1>5, <1>7 DEF Follows, Legal
<1>10. Written(S, G, Front(fr), Finish)
  BY <1>2, <1>4, <1>6, <1>8, <1>9, WritesClose
<1>11. PICK lab, w, op : Text(S, G, lab, w) /\ lab[Len(G) + 1] = Finish
  BY <1>10 DEF Written
<1> QED BY <1>5, <1>11 DEF Ended

LEMMA SavesStart ==
  ASSUME NEW S \in Configs
  PROVE  Saves(S, <<Mark("{")>>, InitStack, <<Task("item", Base, <<>>, 0)>>)
<1> DEFINE t == Task("item", Base, <<>>, 0)
           v == SaveJob(S)
           l == First(Outer)
           F == <<Mark("{")>>
           fr == <<Outer>>
           s == <<t>>
<1>1. Base \in Known /\ <<>> \in Seq(Steps)
  BY BaseIs, EmptySeq
<1>2. t \in Jobs /\ t.do = "item" /\ t.comp = Base /\ t.path = <<>> /\ t.idx = 0
  <2> DEFINE p == <<>>
  <2>1. t = Task("item", Base, p, 0) /\ p \in Seq(Steps) /\ 0 \in Nat /\ p = <<>>
        /\ "item" \in {"aggr", "item", "OBJECT", "ARRAY"}
    BY <1>1
  <2> HIDE DEF p, t
  <2>2. t \in Jobs /\ t.do = "item" /\ t.comp = Base /\ t.path = p /\ t.idx = 0
    BY ONLY <1>1, <2>1 DEF Task, Jobs
  <2> QED BY <2>1, <2>2
<1>3. Outer.of = "file" /\ Outer.path = <<>>
  BY DEF Outer, Frame
<1>4. l.in = Outer /\ l.idx = 0 /\ l.mode = "first"
  BY DEF First, Place
<1>5. Written(S, F, fr, l)
  BY WritesFirst
<1>6. Stack(S, fr, InitStack) /\ Last(InitStack).first = TRUE /\ Last(fr) = Outer
  BY StackStarts
<1>7. s = <<t>> \o <<>>
  BY <1>2, JoinEmpty
<1> HIDE DEF t, l, F, fr, s
<1>8. Suited(v, t, Outer)
  <2>1. PathOf(t) = <<>> /\ PathIn(Outer, t.comp, t.idx) = <<>>
    BY <1>2, <1>3 DEF PathOf, PathIn
  <2>2. <<>> \in S
    BY ConfigAssumption
  <2>3. SaveSuits(S, t, Outer)
    BY <1>2, <1>3, <2>1, <2>2 DEF SaveSuits
  <2> QED BY <1>2, <2>3 DEF Suited, SaveJob, Job
<1> HIDE DEF v
<1>9. Onward(t, Outer) = Outer
  BY <1>2 DEF Onward, Shuts
<1>10. Tracked(v, <<>>, Outer)
  BY TrackedNone
<1>11. Tracked(v, s, Outer) /\ Head(s) = t
  <2> DEFINE z == <<>>
  <2>1. Tracked(v, z, Onward(t, Outer)) /\ (z # <<>> => Beside(v, t, Outer, Head(z))) /\ s = <<t>> \o z
    BY <1>7, <1>9, <1>10
  <2> HIDE DEF z
  <2> QED BY <1>2, <1>8, <2>1, TrackedMore
<1>12. HeadSave(S, l, t, Outer)
  BY <1>3, <1>4 DEF HeadSave
<1>13. Writes(S, F, fr, l, InitStack)
  BY <1>4, <1>5, <1>6 DEF Writes
<1>14. SavesOn(S, F, fr, l, InitStack, s)
  BY <1>6, <1>11, <1>12, <1>13 DEF SavesOn, v
<1>15. Saves(S, F, InitStack, s)
  BY <1>14 DEF Saves
<1> QED BY <1>15 DEF F, s, t

-----------------------------------------------------------------------------
(* A load.  The label of the place the loader is at; a file of a whole     *)
(* save ends behind its last brace.                                        *)
Wrote(S, lab, w) ==
  S \in Configs /\ Readable(S, lab, w) /\ (~crashed => lab[Past].mode = "end")

LoadJob(S, schema) == Job("load", schema, S)

HeadLoad(l, t, f, o) ==
  /\ f.of = "array" /\ t.do = "item" => t.idx <= l.idx /\ (Packed => t.idx = l.idx)
  /\ f.of = "array" /\ t.do = "ARRAY" => l.mode = "after" /\ (l.idx >= f.comp.max \/ ~Is(o, ","))

At(lab, fr, ctx, o) ==
  /\ o \in 1 .. Past /\ lab[o].in = Last(fr) /\ lab[o].idx \in Nat
  /\ lab[o].mode = IF Last(ctx).first THEN "first" ELSE "after"

Live(S, schema, lab, w, fr, ctx, o, s) ==
  /\ Wrote(S, lab, w) /\ Stack(S, fr, ctx) /\ At(lab, fr, ctx, o)
  /\ Tracked(LoadJob(S, schema), s, Last(fr))
  /\ s # <<>> => HeadLoad(lab[o], Head(s), Last(fr), o)
  /\ s = <<>> => ~Last(ctx).first
  /\ Named(schema, Last(fr).path)

Loads(S, schema, ctx, o, s) == \E lab, w, fr : Live(S, schema, lab, w, fr, ctx, o, s)

LEMMA LiveIs ==
  ASSUME NEW S, NEW schema, NEW lab, NEW w, NEW fr, NEW ctx, NEW o, NEW s,
         Live(S, schema, lab, w, fr, ctx, o, s)
  PROVE  /\ S \in Configs /\ S \in Configs \cup {Nothing} /\ Wrote(S, lab, w) /\ Readable(S, lab, w) /\ Stack(S, fr, ctx)
         /\ o \in 1 .. Past /\ lab[o].in = Last(fr) /\ lab[o].idx \in Nat
         /\ lab[o].mode = IF Last(ctx).first THEN "first" ELSE "after"
         /\ Tracked(LoadJob(S, schema), s, Last(fr)) /\ Named(schema, Last(fr).path)
         /\ Legal(S, Last(fr)) /\ Last(ctx).type = TypeOf(Last(fr)) /\ Last(ctx).first \in BOOLEAN
         /\ Last(fr).of \in {"file", "item", "array"} /\ (Last(fr).of = "file" <=> Last(fr) = Outer)
         /\ Len(file) \in Nat /\ Past = Len(file) + 1 /\ Past \in Nat
<1>1. /\ Wrote(S, lab, w) /\ Stack(S, fr, ctx) /\ At(lab, fr, ctx, o)
      /\ Tracked(LoadJob(S, schema), s, Last(fr)) /\ Named(schema, Last(fr).path)
  BY DEF Live
<1>2. S \in Configs /\ S \in Configs \cup {Nothing} /\ Readable(S, lab, w)
  BY <1>1 DEF Wrote
<1>3. /\ o \in 1 .. Past /\ lab[o].in = Last(fr) /\ lab[o].idx \in Nat
      /\ lab[o].mode = IF Last(ctx).first THEN "first" ELSE "after"
  BY <1>1 DEF At
<1>4. Legal(S, Last(fr)) /\ Last(ctx).type = TypeOf(Last(fr)) /\ Last(ctx).first \in BOOLEAN
  BY <1>1, StackTop
<1>5. Last(fr).of \in {"file", "item", "array"} /\ (Last(fr).of = "file" <=> Last(fr) = Outer)
  BY <1>2, <1>4, LegalIs
<1>6. Len(file) \in Nat /\ Past = Len(file) + 1 /\ Past \in Nat
  BY <1>2, ReadSize
<1> QED BY <1>1, <1>2, <1>3, <1>4, <1>5, <1>6

LEMMA IsAt ==
  ASSUME NEW S, NEW lab, NEW w, Readable(S, lab, w), NEW o \in 1 .. Past, NEW kind, Is(o, kind)
  PROVE  o \in 1 .. Len(file) /\ o # Past /\ o + 1 \in 1 .. Past /\ file[o].kind = kind
<1>1. file \in Seq(Tokens) /\ Len(file) \in Nat /\ Past = Len(file) + 1
  BY ReadableIs
<1>2. o \in 1 .. Len(file) /\ file[o].kind = kind
  BY <1>1 DEF Is
<1>3. o # Past /\ o + 1 \in 1 .. Past
  BY ONLY <1>1, <1>2
<1> QED BY <1>2, <1>3

(* What a task of a load is, in the frame f. *)
LEMMA LoadTask ==
  ASSUME NEW S, NEW schema, NEW t \in Jobs, NEW f, Suited(LoadJob(S, schema), t, f)
  PROVE  /\ t.comp \in Known /\ t.path \in Seq(Steps) /\ t.idx \in Nat
         /\ t.do = "aggr" => /\ f.of = "item" /\ (Packed => t.path = f.path) /\ t.comp \in Parts(schema, f.path)
                             /\ CompOf(f.path).desc \in DOMAIN schema
         /\ t.do = "item" => LoadSuits(schema, t, f)
         /\ t.do = "OBJECT" => f.of = "item"
         /\ t.do = "ARRAY" => f.of = "array"
<1>1. t.comp \in Known /\ t.path \in Seq(Steps) /\ t.idx \in Nat
  BY DEF Jobs
<1>2. LoadJob(S, schema).kind = "load" /\ LoadJob(S, schema).schema = schema
  BY DEF LoadJob, Job
<1> QED BY <1>1, <1>2 DEF Suited

(* The name that is searched is that of a component of the frame. *)
Sought(schema, f, c) ==
  /\ c \in Known
  /\ f.of = "file" => c = Base
  /\ f.of = "item" => c \in Parts(schema, f.path) /\ CompOf(f.path).desc \in DOMAIN schema

LEMMA SoughtIs ==
  ASSUME NEW S, NEW schema, NEW t \in Jobs, NEW f, Suited(LoadJob(S, schema), t, f), t.do \in {"aggr", "item"}
  PROVE  Sought(schema, f, t.comp)
<1>1. CASE t.do = "aggr"
  BY <1>1, LoadTask DEF Sought
<1>2. CASE t.do = "item"
  <2>1. t.comp \in Known /\ LoadSuits(schema, t, f)
    BY <1>2, LoadTask
  <2>2. f.of = "file" => t.comp = Base
    BY <2>1 DEF LoadSuits, Task
  <2> QED BY <2>1, <2>2 DEF LoadSuits, Sought
<1> QED BY <1>1, <1>2

LEMMA SoughtAlone ==
  ASSUME Apart, NEW S \in Configs \cup {Nothing}, NEW f, Legal(S, f), f.of # "array",
         NEW schema \in {Schema, NewSchema}, NEW c, Sought(schema, f, c)
  PROVE  Alone(S, f, c)
<1>1. CASE f.of = "file"
  BY <1>1, LegalIs, AloneOuter DEF Sought
<1>2. CASE f.of = "item"
  BY <1>2, AloneItem DEF Sought
<1> QED BY <1>1, <1>2, LegalIs

(* Where a member is found. *)
Met(lab, f, c, k, o) ==
  /\ o \in 1 .. Past /\ lab[o].in = f
  /\ IF f.of = "array" THEN lab[o].mode \in {"first", "next"} /\ lab[o].idx = k ELSE lab[o] = Awaits(f, c)

Meets1(lab, f, c, r) ==
  /\ Shaped(r)
  /\ \/ r.res = "success" /\ Met(lab, f, c, lab[off].idx, r.off)
     \/ /\ r.res \in {"incoherent", "not found"} /\ r.off = off
        /\ f.of = "array" => r.res = "not found" /\ ~Is(off, ",") /\ lab[off].mode = "after"

LEMMA MemberMet ==
  ASSUME Apart, NEW S, NEW schema \in {Schema, NewSchema}, NEW lab, NEW w, NEW fr,
         Live(S, schema, lab, w, fr, ctxt, off, todo), NEW f, f = Last(fr), NEW c, Sought(schema, f, c)
  PROVE  Meets1(lab, f, c, FindMember(c))
<1> DEFINE o == IF Top.first THEN off ELSE off + 1
<1>1. /\ S \in Configs \cup {Nothing} /\ Readable(S, lab, w) /\ off \in 1 .. Past /\ lab[off].in = f
      /\ lab[off].mode = IF Top.first THEN "first" ELSE "after"
      /\ Legal(S, f) /\ Top.type = TypeOf(f) /\ f.of \in {"file", "item", "array"}
      /\ Len(file) \in Nat /\ Past = Len(file) + 1
  BY LiveIs DEF Top
<1>2. CASE ~Top.first /\ ~Is(off, ",")
  <2>1. FindMember(c) = Result("not found", off)
    BY <1>2 DEF FindMember, Result
  <2>2. Result("not found", off).res = "not found" /\ Result("not found", off).off = off /\ Shaped(Result("not found", off))
    BY ResultIs
  <2>3. lab[off].mode = "after"
    BY <1>1, <1>2
  <2> QED BY <1>2, <2>1, <2>2, <2>3 DEF Meets1
<1>3. CASE Top.first \/ Is(off, ",")
  <2>1. o \in 1 .. Past /\ lab[o].in = f /\ lab[o].mode \in {"first", "next"} /\ lab[o].idx = lab[off].idx
    <3>1. CASE Top.first
      BY <1>1, <3>1
    <3>2. CASE ~Top.first
      <4>1. off \in 1 .. Len(file) /\ off # Past /\ file[off].kind = ","
        BY <1>1, <1>3, <3>2, IsAt
      <4>2. o = off + 1 /\ off # Past
        BY <3>2, <4>1
      <4>3. Follows(S, lab[off], file[off], lab[off + 1]) /\ off + 1 \in 1 .. Past
        BY <1>1, <4>2, ReadAt
      <4>4. Separates(file[off], lab[off], lab[off + 1])
        BY <4>1, <4>3, FollowsKind
      <4> QED BY <1>1, <4>2, <4>3, <4>4, SeparatesIs
    <3> QED BY <3>1, <3>2
  <2> HIDE DEF o
  <2>2. CASE f.of = "array"
    <3>1. Top.type # "OBJECT"
      BY <1>1, <2>2 DEF TypeOf
    <3>2. FindMember(c) = Result("success", o)
      BY <1>3, <3>1 DEF FindMember, Result, o
    <3>3. Result("success", o).res = "success" /\ Result("success", o).off = o /\ Shaped(Result("success", o))
      BY ResultIs
    <3>4. Met(lab, f, c, lab[off].idx, o)
      BY <2>1, <2>2 DEF Met
    <3> QED BY <3>2, <3>3, <3>4 DEF Meets1
  <2>3. CASE f.of # "array"
    <3>1. Top.type = "OBJECT"
      BY <1>1, <2>3 DEF TypeOf
    <3>2. FindMember(c) = FindName(c, o)
      BY <1>3, <3>1 DEF FindMember, o
    <3>3. Turns(f, lab, o)
      BY <2>1 DEF Turns, Around
    <3>4. Alone(S, f, c) /\ c \in Known
      BY <1>1, <2>3, SoughtAlone DEF Sought
    <3>5. Answers(f, c, lab, FindName(c, o))
      BY <1>1, <2>3, <3>3, <3>4, FindIs
    <3> DEFINE r == FindName(c, o)
    <3>6. Answers(f, c, lab, r) /\ FindMember(c) = r
      BY <3>2, <3>5
    <3> HIDE DEF r
    <3>7. Meets1(lab, f, c, r)
      <4>1. CASE r.res = "success" /\ r.off \in 1 .. Past /\ lab[r.off] = Awaits(f, c)
        <5>1. Awaits(f, c).in = f
          BY DEF Awaits, Place
        <5>2. Met(lab, f, c, lab[off].idx, r.off)
          BY <2>3, <4>1, <5>1 DEF Met
        <5> QED BY <3>6, <4>1, <5>2 DEF Meets1, Answers
      <4>2. CASE r.res \in {"incoherent", "not found"} /\ r.off = off
        BY <3>6, <2>3, <4>2 DEF Meets1, Answers
      <4> QED BY <3>6, <4>1, <4>2 DEF Answers
    <3> QED BY <3>6, <3>7
  <2> QED BY <2>2, <2>3
<1> QED BY <1>2, <1>3

(* An item that is looked for at place l of frame f.                       *)
Wanted(l, f, c, k) ==
  /\ l.in = f /\ c \in Known /\ k \in Nat
  /\ IF f.of = "array" THEN l.mode \in {"first", "next"} /\ l.idx = k /\ c = f.comp ELSE l = Awaits(f, c)
  /\ f.of = "item" => c.max = 1

Hit(l, f, c, k, j) ==
  /\ j \in Nat /\ Allowed(l, c, j)
  /\ f.of = "array" => k <= j /\ (Packed => j = k)
  /\ f.of # "array" => j = 0

LEMMA WantedIs ==
  ASSUME NEW l, NEW f, NEW c, NEW k, Wanted(l, f, c, k), NEW e, NEW j \in Nat, Allowed(l, e, j)
  PROVE  e = c /\ Hit(l, f, c, k, j)
<1>1. \A g, x : Awaits(g, x).comp = x /\ Awaits(g, x).mode = "value"
  BY DEF Awaits, Place
<1>2. e = c
  BY <1>1 DEF Wanted, Allowed
<1>3. CASE f.of = "array"
  BY <1>2, <1>3 DEF Wanted, Allowed, Hit
<1>4. CASE f.of # "array"
  BY <1>2, <1>4 DEF Wanted, Allowed, Hit
<1> QED BY <1>2, <1>3, <1>4

LEMMA WantedMode ==
  ASSUME NEW l, NEW f, NEW c, NEW k, Wanted(l, f, c, k)
  PROVE  l.in = f /\ IF f.of = "array" THEN l.mode \in {"first", "next"} ELSE l.mode = "value" /\ l = Awaits(f, c)
<1>1. \A g, x : Awaits(g, x).mode = "value"
  BY DEF Awaits, Place
<1> QED BY <1>1 DEF Wanted

Valued(S, l, t, m, f, c, k) ==
  \E j : /\ Hit(l, f, c, k, j) /\ t = Token("value", PathIn(f, c, j))
         /\ PathIn(f, c, j) \in Kept(S) /\ m = Later(f, j + 1)

LEMMA ValueMet ==
  ASSUME NEW S \in Configs \cup {Nothing}, NEW l, NEW t, NEW m, Follows(S, l, t, m),
         NEW f, NEW c, NEW k, Wanted(l, f, c, k), c.desc = Simple
  PROVE  Valued(S, l, t, m, f, c, k)
<1>1. l.in = f /\ IF f.of = "array" THEN l.mode \in {"first", "next"} ELSE l.mode = "value" /\ l = Awaits(f, c)
  BY WantedMode
<1>2. BeginsItem(S, t, l, m) \/ BeginsArray(t, l, m) \/ GivesValue(S, t, l, m)
  BY <1>1, FollowsMode
<1>3. ASSUME BeginsItem(S, t, l, m) PROVE FALSE
  <2>1. PICK e \in Known, j \in Nat : Allowed(l, e, j) /\ e.desc # Simple
    BY <1>3 DEF BeginsItem
  <2> QED BY <2>1, WantedIs
<1>4. ASSUME BeginsArray(t, l, m) PROVE FALSE
  <2>1. PICK e \in Known : l.in.of = "item" /\ l = Awaits(l.in, e) /\ e.max > 1
    BY <1>4 DEF BeginsArray
  <2>2. Awaits(l.in, e).comp = e /\ Awaits(f, c).comp = c
    BY DEF Awaits, Place
  <2>3. e = c
    BY <1>1, <2>1, <2>2
  <2>4. c.max = 1
    BY <1>1, <2>1 DEF Wanted
  <2> QED BY <2>1, <2>3, <2>4
<1>5. PICK e \in Known, j \in Nat :
        /\ Allowed(l, e, j) /\ t = Token("value", PathIn(l.in, e, j)) /\ PathIn(l.in, e, j) \in Kept(S)
        /\ m = Later(l.in, j + 1)
  BY <1>2, <1>3, <1>4 DEF GivesValue
<1>6. e = c /\ Hit(l, f, c, k, j)
  BY <1>5, WantedIs
<1> QED BY <1>1, <1>5, <1>6 DEF Valued

Opened1(S, l, m, f, c, k) ==
  \E j : /\ Hit(l, f, c, k, j)
         /\ PathIn(f, c, j) \in Composites(S) /\ m = First(ItemFrame(PathIn(f, c, j)))

LEMMA ObjectMet ==
  ASSUME NEW S \in Configs \cup {Nothing}, NEW l, NEW t, NEW m, Follows(S, l, t, m), t.kind = "{",
         NEW f, NEW c, NEW k, Wanted(l, f, c, k)
  PROVE  Opened1(S, l, m, f, c, k)
<1>1. l.in = f /\ IF f.of = "array" THEN l.mode \in {"first", "next"} ELSE l.mode = "value" /\ l = Awaits(f, c)
  BY WantedMode
<1>2. ~BeginsFile(t, l, m)
  BY <1>1, PlaceIs DEF BeginsFile
<1>3. BeginsItem(S, t, l, m)
  BY <1>2, FollowsKind
<1>4. PICK e \in Known, j \in Nat :
        /\ Allowed(l, e, j) /\ PathIn(l.in, e, j) \in Composites(S) /\ m = First(ItemFrame(PathIn(l.in, e, j)))
  BY <1>3 DEF BeginsItem
<1>5. e = c /\ Hit(l, f, c, k, j)
  BY <1>4, WantedIs
<1> QED BY <1>1, <1>4, <1>5 DEF Opened1

LEMMA ArrayMet ==
  ASSUME NEW S \in Configs \cup {Nothing}, NEW f, NEW c, NEW t, NEW m, Follows(S, Awaits(f, c), t, m), t.kind = "["
  PROVE  c \in Parts(Schema, f.path) /\ c.max > 1 /\ f.of = "item" /\ m = First(ArrayFrame(f.path, c))
<1> DEFINE l == Awaits(f, c)
<1>1. l.in = f /\ l.comp = c
  BY DEF Awaits, Place
<1>2. l = Awaits(f, c) /\ \A g, x : Awaits(g, x).comp = x
  BY DEF Awaits, Place
<1> HIDE DEF l
<1>3. Follows(S, l, t, m)
  BY <1>2
<1>4. BeginsArray(t, l, m)
  BY <1>3, FollowsKind
<1>5. PICK e \in Known : /\ l.in.of = "item" /\ l = Awaits(l.in, e) /\ e \in Parts(Schema, l.in.path) /\ e.max > 1
                         /\ m = First(ArrayFrame(l.in.path, e))
  BY <1>4 DEF BeginsArray
<1>6. e = c
  BY <1>1, <1>2, <1>5
<1> QED BY <1>1, <1>5, <1>6

(* The end of an object or of an array. *)
LEMMA EndMet ==
  ASSUME NEW S \in Configs \cup {Nothing}, NEW l, NEW t, NEW m, Follows(S, l, t, m), IsCloser(t), l.in # Outer
  PROVE  m = Later(Parent(l.in), Following(l.in))
<1>1. Ends(t, l, m)
  BY FollowsKind
<1> QED BY <1>1 DEF Ends

(* The path of an item that is found, which is the one that was asked for  *)
(* where the array has no gaps.                                            *)
LEMMA HitPath ==
  ASSUME NEW schema \in {Schema, NewSchema}, NEW t \in Jobs, NEW f, LoadSuits(schema, t, f),
         f.of \in {"file", "item", "array"},
         NEW l, NEW k, NEW j, Hit(l, f, t.comp, k, j), Packed, f.of = "array" => t.idx = k
  PROVE  PathOf(t) = PathIn(f, t.comp, j)
<1>1. CASE f.of = "file"
  <2>1. t = Task("item", Base, <<>>, 0)
    BY <1>1 DEF LoadSuits
  <2>2. t.comp = Base
    BY <2>1 DEF Task
  <2> QED BY <1>1, <2>2 DEF PathOf, PathIn
<1>2. CASE f.of # "file"
  <2>1. t.path = f.path /\ t.comp \in Parts(schema, f.path) /\ CompOf(f.path).desc \in DOMAIN schema
    BY <1>2 DEF LoadSuits
  <2>2. t.idx = j
    <3>1. CASE f.of = "array"
      BY <3>1 DEF Hit
    <3>2. CASE f.of = "item"
      BY <3>2 DEF Hit, LoadSuits
    <3> QED BY <1>2, <3>1, <3>2
  <2>3. t.comp # Base
    BY <2>1, PartsAre DEF Parts
  <2> QED BY <1>2, <2>1, <2>2, <2>3 DEF PathOf, PathIn
<1> QED BY <1>1, <1>2

(* What is left to do behind an item. *)
Behind1(t, f, r) ==
  /\ f # Outer
  /\ f.of = "array" =>
       \/ Head(r).do = "ARRAY" /\ t.idx + 1 >= f.comp.max
       \/ Head(r).do = "item" /\ Head(r).idx = t.idx + 1

LEMMA LoadBeside ==
  ASSUME NEW S, NEW schema, NEW t, NEW f, NEW u, Beside(LoadJob(S, schema), t, f, u)
  PROVE  /\ ~(t.do = "item" /\ f = Outer) /\ ~(t.do = "OBJECT" /\ Parent(f) = Outer)
         /\ t.do = "item" /\ f.of = "array" => u.do = "ARRAY"
         /\ t.do = "OBJECT" /\ Parent(f).of = "array" =>
              \/ u.do = "ARRAY" /\ Following(f) >= Parent(f).comp.max
              \/ u.do = "item" /\ u.idx <= Following(f) /\ (Packed => u.idx = Following(f))
<1>1. LoadJob(S, schema).kind = "load"
  BY DEF LoadJob, Job
<1> QED BY <1>1 DEF Beside

LEMMA NextJobs ==
  ASSUME NEW S \in Configs \cup {Nothing}, NEW schema \in {Schema, NewSchema}, NEW f, Legal(S, f),
         NEW v, v = LoadJob(S, schema), NEW s, Tracked(v, s, f), s # <<>>,
         NEW t, t = Head(s), t.do = "item", NEW r, r = NextItem(t) \o Tail(s)
  PROVE  Tracked(v, r, f) /\ (r # <<>> => Behind1(t, f, r))
<1> DEFINE u == Tail(s)
           n == Task("item", t.comp, t.path, t.idx + 1)
<1>1. /\ t \in Jobs /\ Suited(v, t, f) /\ u \in Seq(Jobs) /\ Tracked(v, u, Onward(t, f))
      /\ u # <<>> => Beside(v, t, f, Head(u))
  BY TrackedHead
<1>2. Onward(t, f) = f
  BY DEF Onward, Shuts
<1>3. LoadSuits(schema, t, f) /\ t.comp \in Known /\ t.path \in Seq(Steps) /\ t.idx \in Nat
  BY <1>1, LoadTask
<1>4. f.of \in {"file", "item", "array"} /\ (f.of = "file" <=> f = Outer)
  BY LegalIs
<1>5. t.comp.max \in Nat \ {0} /\ (f.of # "array" => t.comp.max = 1 /\ t.idx = 0)
  <2>1. CASE f.of = "file"
    <3>1. t = Task("item", Base, <<>>, 0)
      BY <1>3, <2>1 DEF LoadSuits
    <3> QED BY <2>1, <3>1, BaseIs DEF Task
  <2>2. CASE f.of # "file"
    <3>1. t.comp \in Parts(schema, f.path) /\ CompOf(f.path).desc \in DOMAIN schema
      BY <1>3, <2>2 DEF LoadSuits
    <3>2. t.comp.max \in Nat \ {0}
      BY <3>1, PartsAre DEF Parts
    <3> QED BY <1>3, <1>4, <2>2, <3>2 DEF LoadSuits
  <2> QED BY <2>1, <2>2
<1>6. u # <<>> => f # Outer /\ (f.of = "array" => Head(u).do = "ARRAY")
  BY <1>1, LoadBeside
<1>7. r = NextItem(t) \o u
  OBVIOUS
<1>8. CASE t.idx + 1 < t.comp.max
  <2>1. f.of = "array" /\ t.comp = f.comp
    BY <1>3, <1>4, <1>5, <1>8 DEF LoadSuits
  <2>2. n \in Jobs /\ n.do = "item" /\ n.comp = t.comp /\ n.path = t.path /\ n.idx = t.idx + 1
    <3>1. t.idx + 1 \in Nat
      BY <1>3
    <3> QED BY <1>3, <3>1 DEF Task, Jobs
  <2>3. r = <<n>> \o u
    BY <1>7, <1>8 DEF NextItem
  <2> HIDE DEF n, u
  <2>4. LoadSuits(schema, n, f)
    <3>1. n.idx \in 0 .. n.comp.max - 1
      BY <1>3, <1>5, <1>8, <2>2
    <3> QED BY <1>3, <1>4, <2>1, <2>2, <3>1 DEF LoadSuits
  <2>5. Suited(v, n, f)
    BY <2>2, <2>4 DEF Suited, LoadJob, Job
  <2>6. Onward(n, f) = f
    BY <2>2 DEF Onward, Shuts
  <2>7. u # <<>> => Beside(v, n, f, Head(u))
    <3>1. v.kind = "load"
      BY DEF LoadJob, Job
    <3> QED BY ONLY <1>6, <2>1, <2>2, <3>1 DEF Beside
  <2>8. Tracked(v, r, f) /\ r # <<>> /\ Head(r) = n
    <3>1. Tracked(v, u, Onward(n, f)) /\ n \in Jobs
      BY <1>1, <1>2, <2>2, <2>6
    <3>2. Tracked(v, r, f)
      BY ONLY <2>3, <2>5, <2>7, <3>1, TrackedMore
    <3>3. r # <<>> /\ Head(r) = n
      BY <1>1, <2>3, <3>1 DEF u
    <3> QED BY <3>2, <3>3
  <2>9. Behind1(t, f, r)
    BY <1>4, <2>1, <2>2, <2>8 DEF Behind1
  <2> QED BY <2>8, <2>9
<1>9. CASE ~(t.idx + 1 < t.comp.max)
  <2>1. r = u
    BY <1>1, <1>7, <1>9 DEF NextItem
  <2>2. u # <<>> => Behind1(t, f, u)
    <3> SUFFICES ASSUME u # <<>> PROVE Behind1(t, f, u)
      OBVIOUS
    <3>1. f # Outer /\ (f.of = "array" => Head(u).do = "ARRAY")
      BY <1>6
    <3>2. f.of = "array" => t.idx + 1 >= f.comp.max
      <4>1. f.of = "array" => f.comp = t.comp
        BY <1>3 DEF LoadSuits
      <4> QED BY <1>3, <1>5, <1>9, <4>1
    <3> QED BY <3>1, <3>2 DEF Behind1
  <2> QED BY <1>1, <1>2, <2>1, <2>2
<1> QED BY <1>8, <1>9

(* Behind an item that was read in frame f, at place l. *)
LEMMA BehindHead ==
  ASSUME NEW t, t.idx \in Nat, NEW f, NEW r, Behind1(t, f, r), NEW l, l.mode = "after", l.idx \in Nat,
         f.of = "array" => f.comp.max \in Nat /\ t.idx + 1 <= l.idx /\ (Packed => l.idx = t.idx + 1), NEW o
  PROVE  HeadLoad(l, Head(r), f, o)
<1> DEFINE h == Head(r)
<1> HIDE DEF h
<1>1. CASE f.of = "array" /\ h.do = "ARRAY"
  <2>1. t.idx + 1 >= f.comp.max
    BY <1>1 DEF Behind1, h
  <2>2. l.idx >= f.comp.max
    BY <1>1, <2>1
  <2>3. HeadLoad(l, h, f, o)
    BY <1>1, <2>2 DEF HeadLoad
  <2> QED BY <2>3 DEF h
<1>2. CASE f.of = "array" /\ h.do # "ARRAY"
  <2>1. h.do = "item" /\ h.idx = t.idx + 1
    BY <1>2 DEF Behind1, h
  <2>2. HeadLoad(l, h, f, o)
    BY <1>2, <2>1 DEF HeadLoad
  <2> QED BY <2>2 DEF h
<1>3. CASE f.of # "array"
  <2>1. HeadLoad(l, h, f, o)
    BY <1>3 DEF HeadLoad
  <2> QED BY <2>1 DEF h
<1> QED BY <1>1, <1>2, <1>3

LEMMA BehindBeside ==
  ASSUME NEW S, NEW schema, NEW v, v = LoadJob(S, schema), NEW t, t.idx \in Nat, NEW f, NEW r, Behind1(t, f, r),
         NEW ob, ob.do = "OBJECT", NEW g, Parent(g) = f, Following(g) \in Nat,
         f.of = "array" => f.comp.max \in Nat /\ t.idx + 1 <= Following(g) /\ (Packed => Following(g) = t.idx + 1)
  PROVE  Beside(v, ob, g, Head(r))
<1> DEFINE h == Head(r)
           k == Following(g)
<1>1. k = Following(g) /\ h = Head(r)
  OBVIOUS
<1>2. v.kind = "load"
  BY DEF LoadJob, Job
<1> HIDE DEF h, k
<1>3. f # Outer
  BY DEF Behind1
<1>4. CASE f.of = "array" /\ h.do = "ARRAY"
  <2>1. t.idx + 1 >= f.comp.max
    BY <1>1, <1>4 DEF Behind1
  <2>2. k >= f.comp.max
    BY <1>1, <1>4, <2>1
  <2> QED BY <1>1, <1>2, <1>3, <1>4, <2>2 DEF Beside
<1>5. CASE f.of = "array" /\ h.do # "ARRAY"
  <2>1. h.do = "item" /\ h.idx = t.idx + 1
    BY <1>1, <1>5 DEF Behind1
  <2>2. h.idx <= k /\ (Packed => h.idx = k)
    BY <1>1, <1>5, <2>1
  <2> QED BY <1>1, <1>2, <1>3, <1>5, <2>1, <2>2 DEF Beside
<1>6. CASE f.of # "array"
  BY <1>1, <1>2, <1>3, <1>6 DEF Beside
<1> QED BY <1>4, <1>5, <1>6

LEMMA NamedBelow ==
  ASSUME NEW schema \in {Schema, NewSchema}, NEW p \in Seq(Steps), Named(schema, p), CompOf(p).desc \in DOMAIN schema,
         NEW c \in Parts(schema, p), NEW k \in Nat
  PROVE  Named(schema, Below(p, c, k))
<1> DEFINE q == Below(p, c, k)
<1>1. c \in Known /\ c \in All(schema)
  BY PartsAre DEF Parts
<1>2. c.name \in Names(schema)
  BY <1>1 DEF Names
<1>3. <<c.name, k>> \in Steps
  BY <1>1 DEF Steps
<1>4. DOMAIN q = 1 .. Len(p) + 1 /\ q[Len(p) + 1] = <<c.name, k>> /\ Len(p) \in Nat
      /\ \A i \in 1 .. Len(p) : q[i] = p[i]
  BY <1>3 DEF Below
<1>5. DOMAIN p = 1 .. Len(p)
  OBVIOUS
<1> HIDE DEF q
<1>6. \A i \in DOMAIN q : q[i][1] \in Names(schema)
  <2> TAKE i \in DOMAIN q
  <2>1. CASE i = Len(p) + 1
    BY <1>2, <1>4, <2>1
  <2>2. CASE i # Len(p) + 1
    <3>1. i \in 1 .. Len(p)
      BY <1>4, <2>2
    <3> QED BY <1>4, <1>5, <3>1 DEF Named
  <2> QED BY <2>1, <2>2
<1> QED BY <1>6 DEF Named, q

(* The item that is to be loaded. *)
Next1(S, schema, t, f, l) ==
  /\ t \in Jobs /\ t.comp \in Known /\ t.path \in Seq(Steps) /\ t.idx \in Nat /\ t.comp.max \in Nat \ {0}
  /\ LoadSuits(schema, t, f) /\ Sought(schema, f, t.comp) /\ t.comp.desc \in DOMAIN schema \cup {Simple}
  /\ f.of # "file" => /\ t.comp \in Parts(schema, f.path) /\ CompOf(f.path).desc \in DOMAIN schema /\ t.comp # Base
  /\ f.of = "file" => t.comp = Base /\ t.path = <<>>
  /\ f.of = "item" => t.comp.max = 1
  /\ f.of = "array" => f.comp = t.comp /\ t.idx <= l.idx /\ (Packed => t.idx = l.idx)

LEMMA LiveItem ==
  ASSUME NEW S, NEW schema \in {Schema, NewSchema}, NEW lab, NEW w, NEW fr, NEW ctx, NEW o, NEW s,
         Live(S, schema, lab, w, fr, ctx, o, s), s # <<>>,
         NEW t, t = Head(s), t.do = "item", NEW f, f = Last(fr)
  PROVE  Next1(S, schema, t, f, lab[o])
<1>1. Tracked(LoadJob(S, schema), s, f) /\ f.of \in {"file", "item", "array"}
  BY LiveIs
<1>2. t \in Jobs /\ Suited(LoadJob(S, schema), t, f)
  BY <1>1, TrackedHead
<1>3. t.comp \in Known /\ t.path \in Seq(Steps) /\ t.idx \in Nat /\ LoadSuits(schema, t, f)
  BY <1>2, LoadTask
<1>4. Sought(schema, f, t.comp)
  BY <1>2, SoughtIs
<1>5. HeadLoad(lab[o], t, f, o)
  BY DEF Live
<1>6. CASE f.of = "file"
  <2>1. t = Task("item", Base, <<>>, 0)
    BY <1>3, <1>6 DEF LoadSuits
  <2>2. t.comp = Base /\ t.path = <<>>
    BY <2>1 DEF Task
  <2> QED BY <1>2, <1>3, <1>4, <1>6, <2>2, BaseIs DEF Next1
<1>7. CASE f.of # "file"
  <2>1. t.comp \in Parts(schema, f.path) /\ CompOf(f.path).desc \in DOMAIN schema
    BY <1>3, <1>7 DEF LoadSuits
  <2>2. t.comp # Base /\ t.comp.max \in Nat \ {0} /\ t.comp.desc \in DOMAIN schema \cup {Simple}
    BY <2>1, PartsAre DEF Parts
  <2>3. /\ f.of = "item" => t.comp.max = 1
        /\ f.of = "array" => f.comp = t.comp
    BY <1>3 DEF LoadSuits
  <2>4. f.of = "array" => t.idx <= lab[o].idx /\ (Packed => t.idx = lab[o].idx)
    BY <1>5 DEF HeadLoad
  <2> QED BY <1>2, <1>3, <1>4, <1>7, <2>1, <2>2, <2>3, <2>4 DEF Next1
<1> QED BY <1>6, <1>7

LEMMA NextWanted ==
  ASSUME NEW S, NEW schema, NEW t, NEW f, NEW l, l.idx \in Nat, Next1(S, schema, t, f, l),
         NEW lab, NEW o, Met(lab, f, t.comp, l.idx, o)
  PROVE  Wanted(lab[o], f, t.comp, l.idx)
BY DEF Next1, Met, Wanted

(* The place behind an item that was hit.                                  *)
LEMMA HitIdx ==
  ASSUME NEW S, NEW schema, NEW t, NEW f, NEW l, l.idx \in Nat, Next1(S, schema, t, f, l),
         NEW l2, NEW j, Hit(l2, f, t.comp, l.idx, j)
  PROVE  j + 1 \in Nat /\ j \in Nat /\ (f.of = "array" => f.comp.max \in Nat /\ t.idx + 1 <= j + 1 /\ (Packed => j + 1 = t.idx + 1))
<1>1. j \in Nat /\ (f.of = "array" => l.idx <= j /\ (Packed => j = l.idx))
  BY DEF Hit
<1>2. /\ t.idx \in Nat
      /\ f.of = "array" => f.comp.max \in Nat /\ t.idx <= l.idx /\ (Packed => t.idx = l.idx)
  BY DEF Next1
<1> QED BY ONLY <1>1, <1>2, l.idx \in Nat

(* The item that was hit is one that was saved. *)
HitOne(S, schema, q) == q \in Kept(S) /\ q \in Seq(Steps) /\ Named(schema, q)

LEMMA HitKept ==
  ASSUME Packed, NEW S \in Configs \cup {Nothing}, NEW schema \in {Schema, NewSchema}, NEW t, NEW f, Legal(S, f),
         Named(schema, f.path), NEW l, l.idx \in Nat, Next1(S, schema, t, f, l),
         NEW l2, NEW j, Hit(l2, f, t.comp, l.idx, j), PathIn(f, t.comp, j) \in Kept(S)
  PROVE  PathOf(t) = PathIn(f, t.comp, j) /\ HitOne(S, schema, PathOf(t))
<1>1. f.of \in {"file", "item", "array"} /\ (f.of = "file" <=> f = Outer)
  BY LegalIs
<1>2. PathOf(t) = PathIn(f, t.comp, j)
  BY <1>1, HitPath DEF Next1
<1> DEFINE q == PathOf(t)
<1>3. q \in Kept(S) /\ q \in Seq(Steps)
  BY <1>2, KeptIs
<1>4. Named(schema, q)
  <2>1. CASE f.of = "file"
    <3>1. q = <<>>
      BY <1>2, <2>1 DEF PathIn
    <3> QED BY <3>1 DEF Named
  <2>2. CASE f.of # "file"
    <3>1. q = Below(f.path, t.comp, j) /\ j \in Nat
      BY <1>2, <2>2 DEF PathIn, Hit
    <3>2. f.path \in Seq(Steps) /\ t.comp \in Parts(schema, f.path) /\ CompOf(f.path).desc \in DOMAIN schema
      BY <1>1, <2>2, LegalPath DEF Next1
    <3>3. Named(schema, Below(f.path, t.comp, j))
      BY <3>1, <3>2, NamedBelow
    <3> QED BY <3>1, <3>3
  <2> QED BY <2>1, <2>2
<1> QED BY <1>2, <1>3, <1>4 DEF HitOne

(* The value that is stored of an item. *)
LEMMA ValueIs ==
  ASSUME NEW p \in Seq(Steps), NEW c \in Known, NEW k \in Nat, NEW q, q = Below(p, c, k)
  PROVE  /\ c.desc = Simple /\ c # Base => Value(q) = q
         /\ c.desc # Simple => Value(q) = Group
<1>1. q # <<>> /\ Last(q) = <<c.name, k>>
  BY BelowIs
<1>2. Last(q)[1] = c.name
  BY <1>1
<1>3. c.desc = Simple /\ c # Base => c.name \in SimpleNames
  BY DEF SimpleNames, Known
<1>4. c.desc # Simple => c.name \notin SimpleNames
  <2> SUFFICES ASSUME c.desc # Simple, c.name \in SimpleNames PROVE FALSE
    OBVIOUS
  <2>1. PICK e \in All(Schema) \cup All(NewSchema) : e.desc = Simple /\ e.name = c.name
    BY DEF SimpleNames
  <2>2. e \in Known
    BY DEF Known
  <2>3. e = c
    BY <2>1, <2>2, NamesAssumption
  <2> QED BY <2>1, <2>3
<1> QED BY <1>1, <1>2, <1>3, <1>4 DEF Value

(* A simple item that is read. *)
SimpleRead(S, schema, t, c2, o, s2) ==
  /\ Loads(S, schema, c2, o + 1, s2) /\ Is(o, "value")
  /\ Packed => HitOne(S, schema, PathOf(t)) /\ file[o].val = Value(PathOf(t))

LEMMA LoadsSimple ==
  ASSUME NEW S, NEW schema \in {Schema, NewSchema}, NEW lab, NEW w, NEW fr,
         Live(S, schema, lab, w, fr, ctxt, off, todo), todo # <<>>,
         NEW t, t = Head(todo), t.do = "item", t.comp.desc = Simple,
         NEW o, o # Past, Met(lab, Last(fr), t.comp, lab[off].idx, o),
         NEW c2, c2 = NotFirst(ctxt), NEW s2, s2 = NextItem(t) \o Tail(todo)
  PROVE  SimpleRead(S, schema, t, c2, o, s2)
<1> DEFINE f == Last(fr)
           c == t.comp
           k == lab[off].idx
           l == lab[o]
           m == lab[o + 1]
           v == LoadJob(S, schema)
<1>1. /\ S \in Configs \cup {Nothing} /\ Wrote(S, lab, w) /\ Readable(S, lab, w) /\ Stack(S, fr, ctxt)
      /\ k \in Nat /\ Tracked(v, todo, f) /\ Named(schema, f.path) /\ Legal(S, f)
  BY LiveIs
<1>2. Next1(S, schema, t, f, lab[off])
  BY LiveItem
<1>3. Wanted(l, f, c, k)
  BY <1>1, <1>2, NextWanted
<1>4. o \in 1 .. Past
  BY DEF Met
<1>5. o \in 1 .. Len(file) /\ o + 1 \in 1 .. Past /\ Follows(S, l, file[o], m)
  BY <1>1, <1>4, ReadAt
<1>6. Valued(S, l, file[o], m, f, c, k)
  BY <1>1, <1>3, <1>5, ValueMet
<1>7. PICK j : /\ Hit(l, f, c, k, j) /\ file[o] = Token("value", PathIn(f, c, j))
               /\ PathIn(f, c, j) \in Kept(S) /\ m = Later(f, j + 1)
  BY <1>6 DEF Valued
<1>8. j + 1 \in Nat /\ (f.of = "array" => f.comp.max \in Nat /\ t.idx + 1 <= j + 1 /\ (Packed => j + 1 = t.idx + 1))
  <2>1. k \in Nat /\ k = lab[off].idx /\ Next1(S, schema, t, f, lab[off]) /\ Hit(l, f, c, k, j) /\ c = t.comp
    BY <1>1, <1>2, <1>7
  <2> HIDE DEF f, c, k, l, m, v
  <2>2. lab[off].idx \in Nat /\ Hit(l, f, t.comp, lab[off].idx, j)
    BY ONLY <2>1
  <2>3. j + 1 \in Nat /\ j \in Nat /\ (f.of = "array" => f.comp.max \in Nat /\ t.idx + 1 <= j + 1 /\ (Packed => j + 1 = t.idx + 1))
    BY ONLY <2>1, <2>2, HitIdx
  <2> QED BY <2>3
<1>9. m.in = f /\ m.idx = j + 1 /\ m.mode = "after"
  BY <1>7 DEF Later, Place
<1>10. Is(o, "value") /\ file[o].val = PathIn(f, c, j)
  <2>1. file \in Seq(Tokens)
    BY <1>1, ReadableIs
  <2>2. o \in DOMAIN file
    BY <1>5, <2>1
  <2> QED BY <1>7, <2>2 DEF Is, Token
<1>11. ASSUME Packed PROVE HitOne(S, schema, PathOf(t)) /\ file[o].val = Value(PathOf(t))
  <2>1. PathOf(t) = PathIn(f, c, j) /\ HitOne(S, schema, PathOf(t))
    <3>1. k \in Nat /\ k = lab[off].idx /\ Next1(S, schema, t, f, lab[off]) /\ Hit(l, f, c, k, j) /\ c = t.comp
          /\ PathIn(f, c, j) \in Kept(S)
      BY <1>1, <1>2, <1>7
    <3> HIDE DEF f, c, k, l, m, v
    <3>2. lab[off].idx \in Nat /\ Hit(l, f, t.comp, lab[off].idx, j) /\ PathIn(f, t.comp, j) \in Kept(S)
      BY ONLY <3>1
    <3>3. S \in Configs \cup {Nothing} /\ schema \in {Schema, NewSchema} /\ Legal(S, f) /\ Named(schema, f.path)
      BY <1>1
    <3>4. PathOf(t) = PathIn(f, t.comp, j) /\ HitOne(S, schema, PathOf(t))
      BY ONLY <1>11, <3>1, <3>2, <3>3, HitKept
    <3> QED BY <3>1, <3>4
  <2>2. f.of # "file"
    BY <1>2, BaseIs DEF Next1
  <2>3. PathIn(f, c, j) = Below(f.path, c, j) /\ f.path \in Seq(Steps) /\ j \in Nat /\ c \in Known /\ c # Base
    BY <1>1, <1>2, <1>7, <2>2, LegalIs DEF PathIn, Hit, Next1
  <2>4. Value(PathIn(f, c, j)) = PathIn(f, c, j)
    BY <2>3, ValueIs
  <2> QED BY <1>10, <2>1, <2>4
<1>12. Stack(S, fr, c2) /\ Last(c2).first = FALSE
  BY <1>1, StackMoves
<1>13. v = LoadJob(S, schema) /\ s2 = NextItem(t) \o Tail(todo)
  OBVIOUS
<1>14. t.idx \in Nat
  BY <1>2 DEF Next1
<1> HIDE DEF f, c, k, l, v
<1>15. Tracked(v, s2, f) /\ (s2 # <<>> => Behind1(t, f, s2))
  BY <1>1, <1>13, NextJobs
<1>16. s2 # <<>> => HeadLoad(m, Head(s2), f, o + 1)
  <2> SUFFICES ASSUME s2 # <<>> PROVE HeadLoad(m, Head(s2), f, o + 1)
    OBVIOUS
  <2>1. Behind1(t, f, s2)
    BY <1>15
  <2>2. f.of = "array" => f.comp.max \in Nat /\ t.idx + 1 <= m.idx /\ (Packed => m.idx = t.idx + 1)
    BY <1>8, <1>9
  <2>3. m.idx \in Nat /\ m.mode = "after"
    BY <1>8, <1>9
  <2> HIDE DEF m
  <2> QED BY ONLY <1>14, <2>1, <2>2, <2>3, BehindHead
<1>17. At(lab, fr, c2, o + 1)
  BY <1>5, <1>8, <1>9, <1>12 DEF At, f
<1>18. Live(S, schema, lab, w, fr, c2, o + 1, s2)
  BY <1>1, <1>12, <1>15, <1>16, <1>17 DEF Live, f, v
<1>19. Loads(S, schema, c2, o + 1, s2)
  BY <1>18 DEF Loads
<1> QED BY <1>10, <1>11, <1>19 DEF SimpleRead

(* An item of which there is no more. *)
LEMMA LoadsOver ==
  ASSUME NEW S, NEW schema \in {Schema, NewSchema}, NEW lab, NEW w, NEW fr,
         Live(S, schema, lab, w, fr, ctxt, off, todo), todo # <<>>,
         NEW t, t = Head(todo), t.do = "item", t.comp # Base, NEW r, Meets1(lab, Last(fr), t.comp, r),
         r.res = "not found", NEW s2, s2 = Tail(todo)
  PROVE  Loads(S, schema, ctxt, off, s2)
<1> DEFINE f == Last(fr)
           v == LoadJob(S, schema)
<1>1. /\ S \in Configs \cup {Nothing} /\ Wrote(S, lab, w) /\ Stack(S, fr, ctxt)
      /\ Tracked(v, todo, f) /\ Named(schema, f.path)
      /\ f.of \in {"file", "item", "array"} /\ (f.of = "file" <=> f = Outer)
  BY LiveIs
<1>2. Next1(S, schema, t, f, lab[off])
  BY LiveItem
<1>3. f # Outer
  BY <1>1, <1>2 DEF Next1
<1>4. Tracked(v, s2, Onward(t, f)) /\ (s2 # <<>> => Beside(v, t, f, Head(s2)))
  BY <1>1, TrackedHead
<1>5. Onward(t, f) = f
  BY DEF Onward, Shuts
<1>6. s2 # <<>>
  <2> SUFFICES ASSUME s2 = <<>> PROVE FALSE
    OBVIOUS
  <2>1. Tracked(v, <<>>, f)
    BY <1>4, <1>5
  <2> HIDE DEF f, v
  <2>2. f = Outer
    BY ONLY <2>1, TrackedNone
  <2> QED BY <1>3, <2>2 DEF f
<1>7. f.of = "array" => Head(s2).do = "ARRAY"
  BY <1>4, <1>6, LoadBeside
<1>8. f.of = "array" => ~Is(off, ",") /\ lab[off].mode = "after"
  BY DEF Meets1
<1>9. HeadLoad(lab[off], Head(s2), f, off)
  <2> DEFINE h == Head(s2)
  <2>1. f.of = "array" => h.do = "ARRAY"
    BY <1>7
  <2> HIDE DEF h
  <2>2. HeadLoad(lab[off], h, f, off)
    BY <1>8, <2>1 DEF HeadLoad
  <2> QED BY <2>2 DEF h
<1>10. At(lab, fr, ctxt, off)
  BY DEF Live
<1>11. Live(S, schema, lab, w, fr, ctxt, off, s2)
  BY <1>1, <1>4, <1>5, <1>6, <1>9, <1>10 DEF Live
<1> QED BY <1>11 DEF Loads

(* The component that is to be loaded. *)
Comp1(S, schema, t, f, u) ==
  /\ t \in Jobs /\ t.comp \in Known /\ t.path \in Seq(Steps) /\ t.comp.max \in Nat \ {0}
  /\ f.of = "item" /\ f # Outer /\ t.comp \in Parts(schema, f.path) /\ CompOf(f.path).desc \in DOMAIN schema
  /\ Packed => t.path = f.path
  /\ Sought(schema, f, t.comp)
  /\ u \in Seq(Jobs) /\ u # <<>> /\ Tracked(LoadJob(S, schema), u, f)

LEMMA LiveComp ==
  ASSUME NEW S, NEW schema \in {Schema, NewSchema}, NEW lab, NEW w, NEW fr, NEW ctx, NEW o, NEW s,
         Live(S, schema, lab, w, fr, ctx, o, s), s # <<>>,
         NEW t, t = Head(s), t.do = "aggr", NEW f, f = Last(fr), NEW u, u = Tail(s)
  PROVE  Comp1(S, schema, t, f, u)
<1>1. Tracked(LoadJob(S, schema), s, f) /\ f.of \in {"file", "item", "array"} /\ (f.of = "file" <=> f = Outer)
  BY LiveIs
<1>2. t \in Jobs /\ Suited(LoadJob(S, schema), t, f) /\ u \in Seq(Jobs) /\ Tracked(LoadJob(S, schema), u, Onward(t, f))
  BY <1>1, TrackedHead
<1>3. Onward(t, f) = f
  BY DEF Onward, Shuts
<1>4. /\ t.comp \in Known /\ t.path \in Seq(Steps)
      /\ f.of = "item" /\ (Packed => t.path = f.path) /\ t.comp \in Parts(schema, f.path)
      /\ CompOf(f.path).desc \in DOMAIN schema
  BY <1>2, LoadTask
<1>5. Sought(schema, f, t.comp)
  BY <1>2, SoughtIs
<1>6. t.comp.max \in Nat \ {0}
  BY <1>4, PartsAre DEF Parts
<1>7. u # <<>>
  <2> SUFFICES ASSUME u = <<>> PROVE FALSE
    OBVIOUS
  <2> DEFINE v == LoadJob(S, schema)
  <2>1. Tracked(v, <<>>, f)
    BY <1>2, <1>3
  <2> HIDE DEF v
  <2>2. f = Outer
    BY <2>1, TrackedNone
  <2> QED BY <1>1, <1>4, <2>2
<1> QED BY <1>1, <1>2, <1>3, <1>4, <1>5, <1>6, <1>7 DEF Comp1

(* A component of which nothing is loaded, or one that is no array.        *)
LEMMA LoadsSkip ==
  ASSUME NEW S, NEW schema \in {Schema, NewSchema}, NEW lab, NEW w, NEW fr,
         Live(S, schema, lab, w, fr, ctxt, off, todo), todo # <<>>,
         NEW t, t = Head(todo), t.do = "aggr",
         NEW s2, s2 = Tail(todo)
  PROVE  Loads(S, schema, ctxt, off, s2)
<1>1. Comp1(S, schema, t, Last(fr), s2)
  BY LiveComp
<1>2. Last(fr).of = "item" /\ s2 # <<>> /\ Tracked(LoadJob(S, schema), s2, Last(fr))
  BY <1>1 DEF Comp1
<1>3. HeadLoad(lab[off], Head(s2), Last(fr), off)
  BY <1>2 DEF HeadLoad
<1>4. /\ Wrote(S, lab, w) /\ Stack(S, fr, ctxt) /\ At(lab, fr, ctxt, off) /\ Named(schema, Last(fr).path)
  BY DEF Live
<1>5. Live(S, schema, lab, w, fr, ctxt, off, s2)
  BY <1>2, <1>3, <1>4 DEF Live
<1> QED BY <1>5 DEF Loads

LEMMA LoadsOne ==
  ASSUME NEW S, NEW schema \in {Schema, NewSchema}, NEW lab, NEW w, NEW fr,
         Live(S, schema, lab, w, fr, ctxt, off, todo), todo # <<>>,
         NEW t, t = Head(todo), t.do = "aggr", t.comp.name \notin Volatile, t.comp.max = 1,
         NEW i, i = Task("item", t.comp, t.path, 0), NEW s2, s2 = <<i>> \o Tail(todo)
  PROVE  Loads(S, schema, ctxt, off, s2)
<1> DEFINE f == Last(fr)
           u == Tail(todo)
           v == LoadJob(S, schema)
<1>1. Comp1(S, schema, t, f, u)
  BY LiveComp
<1>2. /\ t.comp \in Known /\ t.path \in Seq(Steps) /\ f.of = "item" /\ u \in Seq(Jobs) /\ u # <<>> /\ Tracked(v, u, f)
      /\ t.comp \in Parts(schema, f.path) /\ CompOf(f.path).desc \in DOMAIN schema /\ (Packed => t.path = f.path)
  BY <1>1 DEF Comp1
<1>3. i \in Jobs /\ i.do = "item" /\ i.comp = t.comp /\ i.path = t.path /\ i.idx = 0
  BY <1>2 DEF Task, Jobs
<1>4. s2 = <<i>> \o u
  OBVIOUS
<1>5. LoadSuits(schema, i, f)
  BY <1>2, <1>3 DEF LoadSuits
<1>6. Suited(v, i, f) /\ Onward(i, f) = f /\ ~Shuts(i)
  BY <1>3, <1>5 DEF Suited, LoadJob, Job, Onward, Shuts
<1>7. Beside(v, i, f, Head(u))
  BY <1>2, <1>6, BesideItem
<1> HIDE DEF f, u, v
<1>8. Tracked(v, s2, f) /\ s2 # <<>>
  <2>1. Tracked(v, u, Onward(i, f)) /\ i \in Jobs
    BY <1>2, <1>3, <1>6
  <2>2. Tracked(v, s2, f)
    BY ONLY <1>4, <1>6, <1>7, <2>1, TrackedMore
  <2>3. s2 # <<>>
    BY <1>2, <1>3, <1>4
  <2> QED BY <2>2, <2>3
<1>9. HeadLoad(lab[off], Head(s2), f, off)
  BY <1>2 DEF HeadLoad
<1>10. /\ Wrote(S, lab, w) /\ Stack(S, fr, ctxt) /\ At(lab, fr, ctxt, off) /\ Named(schema, Last(fr).path)
  BY DEF Live
<1>11. Live(S, schema, lab, w, fr, ctxt, off, s2)
  BY <1>8, <1>9, <1>10 DEF Live, f, v
<1> QED BY <1>11 DEF Loads

(* An object or an array that is looked for. *)
Entered(lab, f, c, type, r) ==
  \/ /\ r.res = "success"
     /\ \E o \in 1 .. Past : Met(lab, f, c, lab[off].idx, o) /\ Is(o, Opener[type]) /\ r.off = o + 1 /\ r.off \in 1 .. Past
  \/ r.res = "not found" /\ Meets1(lab, f, c, r)
  \/ r.res = "incoherent" /\ r.off \in 1 .. Past

LEMMA CompositeMet ==
  ASSUME Apart, NEW S, NEW schema \in {Schema, NewSchema}, NEW lab, NEW w, NEW fr,
         Live(S, schema, lab, w, fr, ctxt, off, todo), NEW f, f = Last(fr), NEW c, Sought(schema, f, c),
         NEW type \in {"OBJECT", "ARRAY"}
  PROVE  Entered(lab, f, c, type, FindComposite(c, type))
<1> DEFINE m == FindMember(c)
           r == FindComposite(c, type)
<1>1. Meets1(lab, f, c, m)
  BY MemberMet
<1>2. Readable(S, lab, w) /\ off \in 1 .. Past
  BY LiveIs
<1>3. r = IF m.res = "success" /\ ~Is(m.off, Opener[type]) THEN Result("incoherent", m.off)
          ELSE IF m.res = "success" THEN [m EXCEPT !.off = @ + 1] ELSE m
  BY DEF FindComposite, Result
<1> HIDE DEF m, r
<1>4. Shaped(m)
  BY <1>1 DEF Meets1
<1>5. CASE m.res = "success" /\ ~Is(m.off, Opener[type])
  <2>1. Met(lab, f, c, lab[off].idx, m.off)
    BY <1>1, <1>5 DEF Meets1
  <2>2. m.off \in 1 .. Past
    BY <2>1 DEF Met
  <2>3. r = Result("incoherent", m.off)
    BY <1>3, <1>5
  <2>4. r.res = "incoherent" /\ r.off = m.off
    BY <2>3, ResultIs
  <2> QED BY <2>2, <2>4 DEF Entered, r
<1>6. CASE m.res = "success" /\ Is(m.off, Opener[type])
  <2>1. Met(lab, f, c, lab[off].idx, m.off)
    BY <1>1, <1>6 DEF Meets1
  <2>2. m.off \in 1 .. Past
    BY <2>1 DEF Met
  <2>3. m.off + 1 \in 1 .. Past
    BY <1>2, <1>6, <2>2, IsAt
  <2>4. r = [m EXCEPT !.off = @ + 1]
    BY <1>3, <1>6
  <2>5. r.res = "success" /\ r.off = m.off + 1
    BY <1>4, <1>6, <2>4 DEF Shaped, Result
  <2> QED BY <1>6, <2>1, <2>2, <2>3, <2>5 DEF Entered, r
<1>7. CASE m.res # "success"
  <2>1. r = m
    BY <1>3, <1>7
  <2>2. m.res \in {"incoherent", "not found"} /\ m.off = off
    BY <1>1, <1>7 DEF Meets1
  <2> QED BY <1>1, <1>2, <2>1, <2>2 DEF Entered, r
<1> QED BY <1>5, <1>6, <1>7

(* The array of a component is entered. *)
LEMMA LoadsArray ==
  ASSUME NEW S, NEW schema \in {Schema, NewSchema}, NEW lab, NEW w, NEW fr,
         Live(S, schema, lab, w, fr, ctxt, off, todo), todo # <<>>,
         NEW t, t = Head(todo), t.do = "aggr", t.comp.name \notin Volatile,
         NEW k, NEW o, Met(lab, Last(fr), t.comp, k, o), Is(o, "["),
         NEW c2, c2 = Append(ctxt, Context("ARRAY", TRUE)),
         NEW i, i = Task("item", t.comp, t.path, 0), NEW a, a = Task("ARRAY", t.comp, t.path, 0),
         NEW s2, s2 = <<i>> \o (<<a>> \o Tail(todo))
  PROVE  Loads(S, schema, c2, o + 1, s2)
<1> DEFINE f == Last(fr)
           u == Tail(todo)
           v == LoadJob(S, schema)
           c == t.comp
           m == lab[o + 1]
           g == ArrayFrame(f.path, c)
           n == Append(fr, g)
           r == <<a>> \o u
<1>1. Comp1(S, schema, t, f, u)
  BY LiveComp
<1>2. /\ c \in Known /\ t.path \in Seq(Steps) /\ f.of = "item" /\ u \in Seq(Jobs) /\ u # <<>> /\ Tracked(v, u, f)
      /\ c \in Parts(schema, f.path) /\ CompOf(f.path).desc \in DOMAIN schema /\ (Packed => t.path = f.path)
      /\ c.max \in Nat \ {0}
  BY <1>1 DEF Comp1
<1>3. /\ S \in Configs \cup {Nothing} /\ Wrote(S, lab, w) /\ Readable(S, lab, w) /\ Stack(S, fr, ctxt)
      /\ Named(schema, f.path) /\ Legal(S, f)
  BY LiveIs
<1>4. o \in 1 .. Past /\ lab[o] = Awaits(f, c)
  BY <1>2 DEF Met
<1>5. o # Past /\ o + 1 \in 1 .. Past /\ file[o].kind = "["
  BY <1>3, <1>4, IsAt
<1>6. Follows(S, lab[o], file[o], m) /\ Legal(S, m.in)
  BY <1>3, <1>4, <1>5, ReadAt
<1>7. c.max > 1 /\ m = First(g)
  <2>1. Follows(S, Awaits(f, c), file[o], m) /\ file[o].kind = "["
    BY <1>4, <1>5, <1>6
  <2> HIDE DEF m, f, c
  <2>2. c \in Parts(Schema, f.path) /\ c.max > 1 /\ f.of = "item" /\ m = First(ArrayFrame(f.path, c))
    <3>1. S \in Configs \cup {Nothing}
      BY <1>3
    <3> QED BY ONLY <3>1, <2>1, ArrayMet
  <2> QED BY <2>2
<1>8. m.in = g /\ m.idx = 0 /\ m.mode = "first"
  BY <1>7 DEF First, Place
<1>9. Parent(g) = f /\ g.of = "array" /\ g.path = f.path /\ g.comp = c /\ g # Outer
  <2>1. f = ItemFrame(f.path)
    BY <1>2, <1>3, LegalIs
  <2> QED BY <2>1, ArrayIn
<1>10. i \in Jobs /\ i.do = "item" /\ i.comp = c /\ i.path = t.path /\ i.idx = 0
  BY <1>2 DEF Task, Jobs
<1>11. a \in Jobs /\ a.do = "ARRAY"
  BY <1>2 DEF Task, Jobs
<1>12. TypeOf(g) = "ARRAY"
  BY <1>9 DEF TypeOf
<1>13. Legal(S, g)
  BY <1>6, <1>8
<1>14. v.kind = "load" /\ v.schema = schema
  BY DEF LoadJob, Job
<1>15. s2 = <<i>> \o r /\ r = <<a>> \o u /\ Last(fr) = f /\ v = LoadJob(S, schema)
  OBVIOUS
<1> HIDE DEF f, u, v, c, g, r
<1>16. Stack(S, n, c2) /\ Last(c2).first = TRUE /\ Last(n) = g
  <2>1. Stack(S, n, c2)
    BY <1>3, <1>9, <1>12, <1>13, <1>15, StackOpens
  <2>2. fr \in Seq(Frames) /\ g \in Frames /\ ctxt \in Seq(Stacked)
    BY <1>3, <1>13, StackTop, FrameIs
  <2>3. Last(n) = g
    BY <2>2, AppendIs
  <2>4. Context("ARRAY", TRUE) \in Stacked /\ Context("ARRAY", TRUE).first = TRUE
    BY DEF Context, Stacked
  <2>5. Last(c2) = Context("ARRAY", TRUE)
    <3> DEFINE x == Context("ARRAY", TRUE)
    <3>1. x \in Stacked /\ ctxt \in Seq(Stacked) /\ c2 = Append(ctxt, x)
      BY <2>2, <2>4
    <3> HIDE DEF x
    <3>2. Last(Append(ctxt, x)) = x
      BY ONLY <3>1, AppendIs
    <3>3. Last(c2) = x
      BY ONLY <3>1, <3>2
    <3> QED BY <3>3 DEF x
  <2> QED BY <2>1, <2>3, <2>4, <2>5
<1>17. Tracked(v, r, g) /\ r # <<>> /\ Head(r) = a
  <2>1. Suited(v, a, g)
    BY <1>9, <1>11 DEF Suited
  <2>2. Onward(a, g) = f
    BY <1>9, <1>11 DEF Onward, Shuts
  <2>3. Beside(v, a, g, Head(u))
    BY <1>11 DEF Beside
  <2>4. Tracked(v, u, Onward(a, g))
    BY <1>2, <2>2
  <2> QED BY ONLY <1>11, <1>15, <2>1, <2>3, <2>4, TrackedMore
<1>18. Tracked(v, s2, g) /\ s2 # <<>> /\ Head(s2) = i
  <2>1. LoadSuits(schema, i, g)
    <3>1. i.idx \in 0 .. i.comp.max - 1
      BY <1>2, <1>10
    <3> QED BY <1>2, <1>9, <1>10, <3>1 DEF LoadSuits, c
  <2>2. Suited(v, i, g)
    BY <1>10, <1>14, <2>1 DEF Suited
  <2>3. Onward(i, g) = g
    BY <1>10 DEF Onward, Shuts
  <2>4. Beside(v, i, g, Head(r))
    BY <1>9, <1>10, <1>11, <1>14, <1>17 DEF Beside
  <2>5. Tracked(v, r, Onward(i, g))
    BY <1>17, <2>3
  <2> QED BY ONLY <1>10, <1>15, <2>2, <2>4, <2>5, TrackedMore
<1>19. HeadLoad(m, i, g, o + 1)
  BY <1>8, <1>10 DEF HeadLoad
<1>20. At(lab, n, c2, o + 1)
  <2>1. o + 1 \in 1 .. Past /\ m = lab[o + 1] /\ m.in = Last(n) /\ m.idx \in Nat
        /\ m.mode = IF Last(c2).first THEN "first" ELSE "after"
    <3> HIDE DEF n
    <3>1. m.in = Last(n) /\ Last(c2).first = TRUE
      BY <1>8, <1>16
    <3>2. m.idx \in Nat /\ m.mode = IF Last(c2).first THEN "first" ELSE "after"
      <4>1. m.idx \in Nat
        BY <1>8
      <4>2. Last(c2).first
        BY <3>1
      <4>3. m.mode = "first"
        BY <1>8
      <4> HIDE DEF m
      <4> QED BY ONLY <4>1, <4>2, <4>3
    <3> QED BY <1>5, <3>1, <3>2
  <2> HIDE DEF m, n
  <2> QED BY <2>1 DEF At
<1> HIDE DEF m, n
<1>21. Live(S, schema, lab, w, n, c2, o + 1, s2)
  BY <1>3, <1>9, <1>15, <1>16, <1>18, <1>19, <1>20 DEF Live, m
<1> QED BY <1>21 DEF Loads

LEMMA NamedNone ==
  ASSUME NEW schema, NEW q, q = <<>>
  PROVE  Named(schema, q)
<1>1. q \in Seq(Nat) /\ Len(q) = 0
  OBVIOUS
<1>2. DOMAIN q = 1 .. 0
  BY ONLY <1>1
<1> QED BY ONLY <1>2 DEF Named

(* The composite item q that is entered. *)
EntersItem(S, schema, t, f, m, q, j) ==
  /\ m = First(ItemFrame(q)) /\ Legal(S, ItemFrame(q)) /\ q \in Seq(Steps) /\ CompOf(q) = t.comp
  /\ Parent(ItemFrame(q)) = f /\ Following(ItemFrame(q)) = j + 1 /\ j + 1 \in Nat
  /\ f.of = "array" => f.comp.max \in Nat /\ t.idx + 1 <= j + 1 /\ (Packed => j + 1 = t.idx + 1)
  /\ Packed => PathOf(t) = q /\ HitOne(S, schema, q) /\ Value(q) = Group
  /\ Named(schema, q) /\ PathOf(t) \in Seq(Steps)

LEMMA ItemEntered ==
  ASSUME NEW S, NEW schema \in {Schema, NewSchema}, NEW lab, NEW w, NEW fr,
         Live(S, schema, lab, w, fr, ctxt, off, todo), todo # <<>>,
         NEW t, t = Head(todo), t.do = "item", t.comp.desc # Simple,
         NEW o, Met(lab, Last(fr), t.comp, lab[off].idx, o), Is(o, "{")
  PROVE  \E q, j : EntersItem(S, schema, t, Last(fr), lab[o + 1], q, j)
<1> DEFINE f == Last(fr)
           c == t.comp
           k == lab[off].idx
           l == lab[o]
           m == lab[o + 1]
<1>1. /\ S \in Configs \cup {Nothing} /\ Readable(S, lab, w) /\ k \in Nat /\ Named(schema, f.path) /\ Legal(S, f)
  BY LiveIs
<1>2. Next1(S, schema, t, f, lab[off])
  BY LiveItem
<1>3. Wanted(l, f, c, k)
  BY <1>1, <1>2, NextWanted
<1>4. o \in 1 .. Past
  BY DEF Met
<1>5. o # Past /\ o + 1 \in 1 .. Past /\ file[o].kind = "{"
  BY <1>1, <1>4, IsAt
<1>6. Follows(S, l, file[o], m) /\ Legal(S, m.in) /\ Legal(S, l.in)
  BY <1>1, <1>4, <1>5, ReadAt
<1>7. Opened1(S, l, m, f, c, k)
  <2>1. S \in Configs \cup {Nothing} /\ Follows(S, l, file[o], m) /\ file[o].kind = "{" /\ Wanted(l, f, c, k)
    BY <1>1, <1>3, <1>5, <1>6
  <2> HIDE DEF f, c, k, l, m
  <2> QED BY ONLY <2>1, ObjectMet
<1>8. PICK j : /\ Hit(l, f, c, k, j) /\ PathIn(f, c, j) \in Composites(S) /\ m = First(ItemFrame(PathIn(f, c, j)))
  BY <1>7 DEF Opened1
<1> DEFINE q == PathIn(f, c, j)
<1>9. l.in = f /\ c \in Known /\ j \in Nat /\ Allowed(l, c, j)
  BY <1>3, <1>8 DEF Wanted, Hit
<1>10. q \in Kept(S) /\ q \in Composites(S) /\ q \in Seq(Steps) /\ m.in = ItemFrame(q)
  <2>1. q \in Composites(S) /\ m = First(ItemFrame(q))
    BY <1>8
  <2>2. q \in Kept(S)
    BY <2>1 DEF Composites
  <2>3. m.in = ItemFrame(q)
    <3>1. \A g : First(g).in = g
      BY DEF First, Place
    <3> HIDE DEF m, q
    <3> QED BY <2>1, <3>1
  <2> QED BY <1>1, <2>1, <2>2, <2>3, KeptIs
<1>11. CompOf(q) = c /\ Parent(ItemFrame(q)) = f /\ Following(ItemFrame(q)) = j + 1
  <2>1. S \in Configs \cup {Nothing} /\ Legal(S, l.in) /\ q = PathIn(l.in, c, j)
    BY <1>1, <1>6, <1>9
  <2>2. c \in Known /\ j \in Nat /\ Allowed(l, c, j)
    BY <1>9
  <2> HIDE DEF c, l, q
  <2>3. CompOf(q) = c /\ Parent(ItemFrame(q)) = l.in /\ Following(ItemFrame(q)) = j + 1
    BY ONLY <2>1, <2>2, ItemIn
  <2> QED BY <2>3, <1>9
<1>12. k \in Nat /\ k = lab[off].idx /\ Hit(l, f, c, k, j) /\ c = t.comp /\ q = PathIn(f, c, j) /\ f = Last(fr)
  BY <1>1, <1>8
<1> HIDE DEF f, c, k, l, m, q
<1>13. lab[off].idx \in Nat /\ Hit(l, f, t.comp, lab[off].idx, j)
  BY ONLY <1>12
<1>14. j + 1 \in Nat /\ j \in Nat /\ (f.of = "array" => f.comp.max \in Nat /\ t.idx + 1 <= j + 1 /\ (Packed => j + 1 = t.idx + 1))
  BY ONLY <1>2, <1>13, HitIdx
<1>15. f.of = "file" \/ (/\ f.path \in Seq(Steps) /\ c \in Parts(schema, f.path) /\ CompOf(f.path).desc \in DOMAIN schema
                         /\ q = Below(f.path, c, j) /\ c # Base)
  BY <1>1, <1>2, <1>12, LegalIs DEF Next1, PathIn
<1>16. f.of = "file" => q = <<>> /\ c = Base
  BY <1>2, <1>12 DEF Next1, PathIn
<1>17. Named(schema, q)
  <2>1. CASE f.of = "file"
    <3>1. q = <<>>
      BY <1>16, <2>1
    <3> QED BY ONLY <3>1, NamedNone
  <2>2. CASE f.of # "file"
    BY <1>1, <1>14, <1>15, <2>2, NamedBelow
  <2> QED BY <2>1, <2>2
<1>18. PathOf(t) \in Seq(Steps)
  <2>1. CASE f.of = "file"
    <3>1. PathOf(t) = <<>>
      BY <1>12, <1>16, <2>1 DEF PathOf
    <3> QED BY <3>1, EmptySeq
  <2>2. CASE f.of # "file"
    <3>1. PathOf(t) = Below(t.path, c, t.idx)
      BY <1>12, <1>15, <2>2 DEF PathOf
    <3>2. t.path \in Seq(Steps) /\ t.idx \in Nat
      BY <1>2 DEF Next1
    <3> QED BY <1>9, <3>1, <3>2, BelowIs
  <2> QED BY <2>1, <2>2
<1>19. Value(q) = Group
  <2>1. CASE f.of = "file"
    <3>1. q = <<>>
      BY <1>16, <2>1
    <3> QED BY <3>1 DEF Value
  <2>2. CASE f.of # "file"
    <3>1. c.desc # Simple
      BY <1>12
    <3>2. f.path \in Seq(Steps) /\ c \in Known /\ j \in Nat /\ q = Below(f.path, c, j)
      BY <1>9, <1>12, <1>14, <1>15, <2>2
    <3> QED BY ONLY <3>1, <3>2, ValueIs
  <2> QED BY <2>1, <2>2
<1>20. ASSUME Packed PROVE PathOf(t) = q /\ HitOne(S, schema, q)
  <2>1. PathIn(f, t.comp, j) \in Kept(S)
    BY <1>10, <1>12
  <2>2. PathOf(t) = PathIn(f, t.comp, j) /\ HitOne(S, schema, PathOf(t))
    BY ONLY schema \in {Schema, NewSchema}, <1>1, <1>2, <1>13, <1>20, <2>1, HitKept
  <2> QED BY <1>12, <2>2
<1>21. EntersItem(S, schema, t, f, m, q, j)
  <2>1. m = First(ItemFrame(q)) /\ Legal(S, ItemFrame(q)) /\ CompOf(q) = t.comp
    BY <1>6, <1>8, <1>10, <1>11, <1>12
  <2> QED BY <1>10, <1>11, <1>14, <1>17, <1>18, <1>19, <1>20, <2>1 DEF EntersItem
<1> QED BY <1>12, <1>21 DEF m

(* An item that is found is entered. *)
ItemRead(S, schema, t, c2, o, s2) ==
  /\ Loads(S, schema, c2, o + 1, s2)
  /\ Packed => HitOne(S, schema, PathOf(t)) /\ Value(PathOf(t)) = Group

LEMMA LoadsComposite ==
  ASSUME NEW S, NEW schema \in {Schema, NewSchema}, NEW lab, NEW w, NEW fr,
         Live(S, schema, lab, w, fr, ctxt, off, todo), todo # <<>>,
         NEW t, t = Head(todo), t.do = "item", t.comp.desc # Simple,
         NEW o, Met(lab, Last(fr), t.comp, lab[off].idx, o), Is(o, "{"),
         NEW c2, c2 = Append(ctxt, Context("OBJECT", TRUE)),
         NEW ob, ob = Task("OBJECT", t.comp, t.path, 0), NEW u, u = NextItem(t) \o Tail(todo),
         NEW s2, s2 = Components(schema, t.comp, PathOf(t)) \o (<<ob>> \o u)
  PROVE  ItemRead(S, schema, t, c2, o, s2)
<1> DEFINE f == Last(fr)
           v == LoadJob(S, schema)
           m == lab[o + 1]
           p == PathOf(t)
           x == Context("OBJECT", TRUE)
<1>1. PICK q, j : EntersItem(S, schema, t, f, m, q, j)
  BY ItemEntered
<1> DEFINE g == ItemFrame(q)
           n == Append(fr, g)
<1>2. /\ S \in Configs \cup {Nothing} /\ Wrote(S, lab, w) /\ Readable(S, lab, w) /\ Stack(S, fr, ctxt)
      /\ Legal(S, f) /\ Tracked(v, todo, f)
  BY LiveIs
<1>3. Next1(S, schema, t, f, lab[off])
  BY LiveItem
<1>4. /\ t.comp \in Known /\ t.path \in Seq(Steps) /\ t.idx \in Nat /\ t.comp.desc \in DOMAIN schema
      /\ t \in Jobs
  BY <1>3 DEF Next1
<1>5. o + 1 \in 1 .. Past
  <2>1. o \in 1 .. Past
    BY DEF Met
  <2> QED BY <1>2, <2>1, IsAt
<1>6. /\ m = First(g) /\ Legal(S, g) /\ q \in Seq(Steps) /\ CompOf(q) = t.comp /\ Parent(g) = f
      /\ Following(g) = j + 1 /\ Following(g) \in Nat /\ p \in Seq(Steps) /\ Named(schema, q)
      /\ f.of = "array" => f.comp.max \in Nat /\ t.idx + 1 <= Following(g) /\ (Packed => Following(g) = t.idx + 1)
      /\ Packed => p = q /\ HitOne(S, schema, p) /\ Value(p) = Group
  BY <1>1 DEF EntersItem
<1>7. g.of = "item" /\ g.path = q /\ g # Outer
  BY ArrayIn
<1>8. TypeOf(g) = "OBJECT" /\ m.in = g /\ m.mode = "first" /\ m.idx = 0
  <2>1. TypeOf(g) = "OBJECT"
    BY <1>7 DEF TypeOf
  <2>2. First(g).mode = "first" /\ First(g).in = g /\ First(g).idx = 0
    BY DEF First, Place
  <2> HIDE DEF g, m
  <2> QED BY <1>6, <2>1, <2>2
<1>9. ob \in Jobs /\ ob.do = "OBJECT"
  BY <1>4 DEF Task, Jobs
<1>10. v = LoadJob(S, schema) /\ v = Job("load", schema, S) /\ f = Last(fr) /\ n = Append(fr, g) /\ x = Context("OBJECT", TRUE)
       /\ m = lab[o + 1] /\ p = PathOf(t)
  BY DEF LoadJob
<1>11. x \in Stacked /\ x.first
  BY DEF Context, Stacked
<1> HIDE DEF f, v, m, p, g, n, x
<1>12. Tracked(v, u, f) /\ (u # <<>> => Behind1(t, f, u))
  BY <1>2, <1>10, NextJobs
<1>13. u # <<>> => Beside(v, ob, g, Head(u))
  BY ONLY <1>4, <1>6, <1>9, <1>10, <1>12, BehindBeside
<1>14. Tracked(v, s2, g)
  <2>1. t.comp = CompOf(g.path) /\ (Packed => p = g.path) /\ g.of = "item"
    BY <1>6, <1>7
  <2>2. Tracked(v, u, Parent(g))
    BY <1>6, <1>12
  <2>3. s2 = Components(schema, t.comp, p) \o (<<ob>> \o u)
    BY <1>10
  <2> QED BY ONLY schema \in {Schema, NewSchema}, <1>4, <1>6, <1>9, <1>10, <1>13, <2>1, <2>2, <2>3, TrackedOpens
<1>15. s2 # <<>>
  <2> DEFINE z == <<>>
  <2>1. z = <<>>
    OBVIOUS
  <2> HIDE DEF z
  <2>2. ASSUME s2 = z PROVE FALSE
    <3>1. Tracked(v, <<>>, g)
      BY <1>14, <2>1, <2>2
    <3>2. g = Outer
      BY ONLY <3>1, TrackedNone
    <3> QED BY <3>2, <1>7
  <2> QED BY <2>1, <2>2
<1>16. Stack(S, n, c2) /\ Last(c2).first /\ Last(n) = g
  <2>1. Stack(S, n, c2)
    <3>1. c2 = Append(ctxt, Context(TypeOf(g), TRUE))
      <4>1. TypeOf(g) = "OBJECT"
        BY <1>8
      <4>2. Context(TypeOf(g), TRUE) = Context("OBJECT", TRUE)
        BY ONLY <4>1
      <4> QED BY <4>2
    <3> QED BY ONLY <1>2, <1>6, <1>7, <1>10, <3>1, StackOpens
  <2>2. fr \in Seq(Frames) /\ g \in Frames /\ ctxt \in Seq(Stacked)
    BY <1>2, <1>6, StackTop, FrameIs
  <2>3. Last(n) = g
    BY ONLY <1>10, <2>2, AppendIs
  <2>4. Last(Append(ctxt, x)) = x
    BY ONLY <1>11, <2>2, AppendIs
  <2>5. Last(c2) = x
    BY <1>10, <2>4
  <2> QED BY <1>11, <2>1, <2>3, <2>5
<1>17. At(lab, n, c2, o + 1)
  <2>1. m.idx \in Nat
    BY ONLY <1>8
  <2>2. m.mode = IF Last(c2).first THEN "first" ELSE "after"
    BY ONLY <1>8, <1>16
  <2>3. m.in = Last(n)
    BY <1>8, <1>16
  <2> QED BY ONLY <1>5, <1>10, <2>1, <2>2, <2>3 DEF At
<1>18. HeadLoad(m, Head(s2), g, o + 1)
  BY <1>7 DEF HeadLoad
<1>19. Live(S, schema, lab, w, n, c2, o + 1, s2)
  BY ONLY <1>2, <1>6, <1>7, <1>10, <1>14, <1>15, <1>16, <1>17, <1>18 DEF Live
<1>20. Loads(S, schema, c2, o + 1, s2)
  BY <1>19 DEF Loads
<1> QED BY <1>6, <1>10, <1>20 DEF ItemRead

LEMMA NamedParent ==
  ASSUME NEW S \in Configs \cup {Nothing}, NEW f, Legal(S, f), f # Outer, NEW schema, Named(schema, f.path),
         NEW p, p = Parent(f).path
  PROVE  Named(schema, p)
<1>1. f.of \in {"item", "array"} /\ f.path \in Seq(Steps)
  BY LegalIs
<1>2. Outer.path = <<>> /\ \A q, c : ItemFrame(q).path = q /\ ArrayFrame(q, c).path = q
  BY ArrayIn
<1>3. CASE f.of = "array"
  BY <1>2, <1>3 DEF Parent
<1>4. CASE f.of = "item" /\ f.path = <<>>
  <2>1. p = <<>>
    BY <1>2, <1>4 DEF Parent
  <2> QED BY <2>1, NamedNone
<1>5. CASE f.of = "item" /\ f.path # <<>>
  <2>1. p = Front(f.path)
    BY <1>2, <1>5 DEF Parent
  <2>2. Len(p) = Len(f.path) - 1 /\ p \in Seq(Steps) /\ \A i \in 1 .. Len(p) : p[i] = f.path[i]
    BY <1>1, <1>5, <2>1, FrontIs
  <2>3. DOMAIN p = 1 .. Len(p) /\ DOMAIN f.path = 1 .. Len(f.path) /\ Len(f.path) \in Nat
    BY <1>1, <2>2
  <2>4. \A i \in DOMAIN p : i \in DOMAIN f.path /\ p[i] = f.path[i]
    BY <2>2, <2>3
  <2> QED BY <2>4 DEF Named
<1> QED BY <1>1, <1>3, <1>4, <1>5

(* An object or an array ends. *)
LEMMA LoadsClose ==
  ASSUME NEW S, NEW schema \in {Schema, NewSchema}, NEW lab, NEW w, NEW fr,
         Live(S, schema, lab, w, fr, ctxt, off, todo), todo # <<>>,
         NEW t, t = Head(todo), NEW type \in {"OBJECT", "ARRAY"}, t.do = type, Is(off, Closer[type]),
         NEW c2, c2 = NotFirst(Front(ctxt)), NEW s2, s2 = Tail(todo)
  PROVE  Loads(S, schema, c2, off + 1, s2)
<1> DEFINE f == Last(fr)
           v == LoadJob(S, schema)
           m == lab[off + 1]
           g == Parent(f)
           n == Front(fr)
           k == Following(f)
<1>1. /\ S \in Configs \cup {Nothing} /\ Wrote(S, lab, w) /\ Readable(S, lab, w) /\ Stack(S, fr, ctxt)
      /\ off \in 1 .. Past /\ lab[off].in = f /\ Legal(S, f) /\ Tracked(v, todo, f) /\ Named(schema, f.path)
      /\ f.of \in {"file", "item", "array"} /\ (f.of = "file" <=> f = Outer)
  BY LiveIs
<1>2. /\ t \in Jobs /\ Suited(v, t, f) /\ s2 \in Seq(Jobs) /\ Tracked(v, s2, Onward(t, f))
      /\ s2 # <<>> => Beside(v, t, f, Head(s2))
  BY <1>1, TrackedHead
<1>3. Onward(t, f) = g
  BY DEF Onward, Shuts
<1>4. f # Outer /\ (type = "ARRAY" <=> f.of = "array") /\ (type = "OBJECT" <=> f.of = "item")
  <2>1. (t.do = "OBJECT" => f.of = "item") /\ (t.do = "ARRAY" => f.of = "array")
    BY <1>2, LoadTask
  <2> QED BY <1>1, <2>1
<1>5. off # Past /\ off + 1 \in 1 .. Past /\ file[off].kind = Closer[type]
  BY <1>1, IsAt
<1>6. Follows(S, lab[off], file[off], m) /\ IsCloser(file[off])
  BY <1>1, <1>5, ReadAt, MateIs
<1>7. m = Later(g, k)
  <2>1. S \in Configs \cup {Nothing} /\ Follows(S, lab[off], file[off], m) /\ IsCloser(file[off]) /\ lab[off].in # Outer
    BY <1>1, <1>4, <1>6
  <2> HIDE DEF m
  <2>2. m = Later(Parent(lab[off].in), Following(lab[off].in))
    BY ONLY <2>1, EndMet
  <2> QED BY <1>1, <2>2
<1>8. k \in Nat
  BY <1>1, FollowingIs
<1>9. Stack(S, n, c2) /\ Last(c2).first = FALSE /\ Last(n) = g
  <2>1. Stack(S, fr, ctxt) /\ Last(fr) # Outer
    BY <1>1, <1>4
  <2>2. Stack(S, Front(fr), c2) /\ Last(c2).first = FALSE
    BY ONLY <2>1, c2 = NotFirst(Front(ctxt)), StackCloses
  <2>3. Last(Front(fr)) = Parent(Last(fr))
    BY ONLY <2>1, StackFront
  <2> QED BY <2>2, <2>3
<1>10. Named(schema, g.path)
  BY <1>1, <1>4, NamedParent
<1>11. g.of \in {"file", "item", "array"} /\ (type = "ARRAY" => g.of = "item")
  <2>1. type = "ARRAY" => g = ItemFrame(f.path)
    BY <1>4 DEF Parent
  <2>2. ItemFrame(f.path).of = "item"
    BY ArrayIn
  <2>3. Legal(S, g)
    <3>1. Legal(S, m.in)
      BY <1>1, <1>5, ReadAt
    <3>2. \A h, j : Later(h, j).in = h
      BY DEF Later, Place
    <3> HIDE DEF m, g, k
    <3> QED BY <1>7, <3>1, <3>2
  <2> QED BY <1>1, <2>1, <2>2, <2>3, LegalIs
<1>12. m = lab[off + 1] /\ v = LoadJob(S, schema) /\ g = Parent(f) /\ k = Following(f)
  OBVIOUS
<1>13. m.in = g /\ m.idx = k /\ m.mode = "after"
  <2>1. \A h, j : Later(h, j).in = h /\ Later(h, j).idx = j /\ Later(h, j).mode = "after"
    BY DEF Later, Place
  <2> HIDE DEF m, g, k
  <2> QED BY <1>7, <2>1
<1> HIDE DEF f, v, m, g, n, k
<1>14. ASSUME s2 # <<>> PROVE HeadLoad(m, Head(s2), g, off + 1)
  <2> DEFINE u == Head(s2)
  <2>1. Beside(LoadJob(S, schema), t, f, u)
    BY <1>2, <1>12, <1>14
  <2> HIDE DEF u
  <2>2. t.do = "OBJECT" /\ g.of = "array" =>
              \/ u.do = "ARRAY" /\ k >= g.comp.max
              \/ u.do = "item" /\ u.idx <= k /\ (Packed => u.idx = k)
    BY <1>12, <2>1, LoadBeside
  <2>3. HeadLoad(m, u, g, off + 1)
    BY <1>11, <1>13, <2>2 DEF HeadLoad
  <2> QED BY <2>3 DEF u
<1>15. At(lab, n, c2, off + 1)
  <2>1. m.idx \in Nat /\ m.in = Last(n)
    BY <1>8, <1>9, <1>13
  <2>2. m.mode = IF Last(c2).first THEN "first" ELSE "after"
    BY ONLY <1>9, <1>13
  <2> QED BY ONLY <1>5, <1>12, <2>1, <2>2 DEF At
<1>16. Tracked(v, s2, g)
  BY <1>2, <1>3
<1>17. ~Last(c2).first
  BY ONLY <1>9
<1>18. Live(S, schema, lab, w, n, c2, off + 1, s2)
  BY ONLY <1>1, <1>9, <1>10, <1>12, <1>14, <1>15, <1>16, <1>17 DEF Live
<1> QED BY <1>18 DEF Loads

(* A load of the beginning of a save that has come to its end. *)
Dead(ctx, o) == crashed /\ o = Past /\ ~Last(ctx).first

(* The array has more items than are loaded only where the file was cut.   *)
LEMMA LoadsDie ==
  ASSUME NEW S, NEW schema \in {Schema, NewSchema}, NEW lab, NEW w, NEW fr,
         Live(S, schema, lab, w, fr, ctxt, off, todo), todo # <<>>,
         NEW t, t = Head(todo), t.do = "ARRAY", ~Is(off, "]")
  PROVE  Dead(ctxt, off)
<1> DEFINE f == Last(fr)
           l == lab[off]
           m == lab[off + 1]
<1>1. /\ S \in Configs \cup {Nothing} /\ Wrote(S, lab, w) /\ Readable(S, lab, w)
      /\ off \in 1 .. Past /\ l.in = f /\ Tracked(LoadJob(S, schema), todo, f)
      /\ l.mode = (IF Last(ctxt).first THEN "first" ELSE "after") /\ l.idx \in Nat /\ Legal(S, f)
  BY LiveIs
<1>2. t \in Jobs /\ Suited(LoadJob(S, schema), t, f)
  BY <1>1, TrackedHead
<1>3. f.of = "array"
  BY <1>2, LoadTask
<1>4. l.mode = "after" /\ (l.idx >= f.comp.max \/ ~Is(off, ","))
  BY <1>3 DEF Live, HeadLoad
<1>5. f.comp.max \in Nat
  <2>1. f # Outer /\ f.comp \in Parts(Schema, f.path)
    BY <1>1, <1>3, LegalIs
  <2> QED BY <1>1, <2>1, PartOf
<1>6. off = Past
  <2> SUFFICES ASSUME off # Past PROVE FALSE
    OBVIOUS
  <2>1. off \in 1 .. Len(file) /\ Follows(S, l, file[off], m)
    BY <1>1, ReadAt
  <2>2. off \in DOMAIN file
    BY <1>1, <2>1, ReadableIs
  <2> HIDE DEF l, m
  <2>3. Separates(file[off], l, m) \/ Ends(file[off], l, m)
    BY <1>1, <1>4, <2>1, FollowsMode
  <2>4. ASSUME Separates(file[off], l, m) PROVE FALSE
    <3>1. file[off] = Mark(",") /\ (l.in.of = "array" => l.idx < l.in.comp.max)
      BY <2>4 DEF Separates
    <3>2. Is(off, ",")
      BY <2>2, <3>1, KindIs DEF Is
    <3>3. l.idx >= f.comp.max /\ l.idx < f.comp.max
      BY <1>1, <1>3, <1>4, <3>1, <3>2
    <3> QED BY ONLY <1>1, <1>5, <3>3
  <2>5. ASSUME Ends(file[off], l, m) PROVE FALSE
    <3>1. file[off] = Mark(Closer[TypeOf(l.in)])
      BY <2>5 DEF Ends
    <3>2. TypeOf(l.in) = "ARRAY"
      BY <1>1, <1>3 DEF TypeOf
    <3>3. file[off] = Mark("]")
      BY <3>1, <3>2, BracketsAre
    <3> QED BY <2>2, <3>3, KindIs DEF Is
  <2> QED BY <2>3, <2>4, <2>5
<1>7. crashed
  <2> SUFFICES ASSUME ~crashed PROVE FALSE
    OBVIOUS
  <2>1. lab[Past].mode = "end"
    BY <1>1 DEF Wrote
  <2> QED BY <1>4, <1>6, <2>1
<1>8. ~Last(ctxt).first
  BY <1>1, <1>4
<1> QED BY <1>6, <1>7, <1>8 DEF Dead

(* Where there is nothing at the place of an item the file was cut. *)
LEMMA LoadsPast ==
  ASSUME NEW S, NEW lab, NEW w, Wrote(S, lab, w), NEW f, NEW c, NEW k, Met(lab, f, c, k, Past)
  PROVE  crashed
<1> SUFFICES ASSUME ~crashed PROVE FALSE
  OBVIOUS
<1>1. lab[Past].mode = "end"
  BY DEF Wrote
<1>2. \A g, x : Awaits(g, x).mode = "value"
  BY DEF Awaits, Place
<1> QED BY <1>1, <1>2 DEF Met

(* The end of a load of a whole save. *)
LEMMA LoadsEnd ==
  ASSUME NEW S, NEW schema \in {Schema, NewSchema}, Loads(S, schema, ctxt, off, todo), todo = <<>>, ~crashed
  PROVE  Is(off, "}") /\ Len(ctxt) = 1
<1>1. PICK lab, w, fr : Live(S, schema, lab, w, fr, ctxt, off, todo)
  BY DEF Loads
<1> DEFINE f == Last(fr)
           l == lab[off]
           m == lab[off + 1]
<1>2. /\ S \in Configs \cup {Nothing} /\ Wrote(S, lab, w) /\ Readable(S, lab, w) /\ Stack(S, fr, ctxt)
      /\ off \in 1 .. Past /\ l.in = f /\ Tracked(LoadJob(S, schema), todo, f)
      /\ l.mode = (IF Last(ctxt).first THEN "first" ELSE "after")
  BY <1>1, LiveIs
<1>3. f = Outer
  <2> DEFINE v == LoadJob(S, schema)
  <2>1. Tracked(v, <<>>, f)
    BY <1>2
  <2> HIDE DEF v, f
  <2> QED BY ONLY <2>1, TrackedNone
<1>4. Len(ctxt) = 1
  BY <1>2, <1>3, StackTop
<1>5. l.mode = "after"
  <2>1. ~Last(ctxt).first
    BY <1>1 DEF Live
  <2> QED BY <1>2, <2>1
<1>6. off # Past
  <2>1. lab[Past].mode = "end"
    BY <1>2 DEF Wrote
  <2> QED BY <1>5, <2>1
<1>7. off \in 1 .. Len(file) /\ Follows(S, l, file[off], m)
  BY <1>2, <1>6, ReadAt
<1>8. off \in DOMAIN file
  BY <1>2, <1>7, ReadableIs
<1> HIDE DEF l, m
<1>9. Separates(file[off], l, m) \/ Ends(file[off], l, m)
  BY <1>2, <1>5, <1>7, FollowsMode
<1>10. Ends(file[off], l, m)
  BY <1>2, <1>3, <1>9 DEF Separates
<1>11. file[off] = Mark(Closer[TypeOf(l.in)])
  BY <1>10 DEF Ends
<1>12. TypeOf(l.in) = "OBJECT"
  <2>1. Outer.of = "file"
    BY ArrayIn
  <2> QED BY <1>2, <1>3, <2>1 DEF TypeOf
<1>13. file[off] = Mark("}")
  BY <1>11, <1>12, BracketsAre
<1>14. Is(off, "}")
  BY <1>8, <1>13, KindIs DEF Is
<1> QED BY <1>4, <1>14

(* A load begins. *)
LEMMA LoadsStart ==
  ASSUME NEW S, NEW schema \in {Schema, NewSchema}, NEW lab, NEW w, Wrote(S, lab, w),
         NEW s, s = <<Task("item", Base, <<>>, 0)>>
  PROVE  (Is(1, "{") => Loads(S, schema, InitStack, 2, s)) /\ (~Is(1, "{") => file = <<>>)
<1>1. S \in Configs \cup {Nothing} /\ Readable(S, lab, w)
  BY DEF Wrote
<1>2. file \in Seq(Tokens) /\ Len(file) \in Nat /\ Past = Len(file) + 1 /\ lab[1] = Start
  BY <1>1, ReadableIs
<1>3. ASSUME Len(file) # 0 PROVE 1 \in DOMAIN file /\ 1 \in 1 .. Past /\ 1 # Past /\ 2 \in 1 .. Past
  BY <1>2, <1>3
<1>4. ASSUME Len(file) # 0 PROVE Is(1, "{") /\ lab[2] = First(Outer)
  <2>1. Follows(S, lab[1], file[1], lab[2])
    <3>1. Follows(S, lab[1], file[1], lab[1 + 1])
      BY <1>1, <1>3, <1>4, ReadAt
    <3> QED BY <3>1
  <2>2. lab[1].mode = "start"
    BY <1>2 DEF Start, Place
  <2>3. BeginsFile(file[1], lab[1], lab[2])
    BY <1>1, <2>1, <2>2, FollowsMode
  <2> QED BY <1>3, <1>4, <2>3, KindIs DEF BeginsFile, Is
<1>5. ASSUME ~Is(1, "{") PROVE file = <<>>
  <2>1. Len(file) = 0
    BY <1>4, <1>5
  <2> QED BY ONLY <1>2, <2>1
<1>6. ASSUME Is(1, "{") PROVE Loads(S, schema, InitStack, 2, s)
  <2>1. 1 \in DOMAIN file
    BY <1>6 DEF Is
  <2>2. Len(file) # 0
    BY <1>2, <2>1
  <2>3. lab[2] = First(Outer) /\ 2 \in 1 .. Past
    BY <1>3, <1>4, <2>2
  <2> DEFINE t == Task("item", Base, <<>>, 0)
             v == LoadJob(S, schema)
             n == <<Outer>>
             z == <<>>
  <2>4. Stack(S, n, InitStack) /\ Last(InitStack).first = TRUE /\ Last(n) = Outer
    BY StackStarts
  <2>5. t \in Jobs /\ t.do = "item" /\ t.idx = 0
    <3>1. Base \in Known /\ <<>> \in Seq(Steps)
      BY EmptySeq DEF Known
    <3> QED BY <3>1 DEF Task, Jobs
  <2>6. Outer.of = "file" /\ Outer.path = <<>>
    BY ArrayIn
  <2>7. Suited(v, t, Outer)
    <3>1. LoadSuits(schema, t, Outer)
      BY <2>6 DEF LoadSuits
    <3> HIDE DEF t
    <3> QED BY <2>5, <3>1 DEF Suited, LoadJob, Job
  <2>8. Onward(t, Outer) = Outer
    <3> HIDE DEF t
    <3> QED BY <2>5 DEF Onward, Shuts
  <2>9. Tracked(v, z, Outer) /\ z = <<>>
    BY TrackedNone
  <2>10. s = <<t>> \o z
    <3>1. <<t>> \o <<>> = <<t>>
      <4> HIDE DEF t
      <4> QED BY <2>5, JoinEmpty
    <3> QED BY <3>1
  <2> HIDE DEF t, v, n, z
  <2>11. Tracked(v, s, Outer) /\ s # <<>>
    <3>1. Tracked(v, z, Onward(t, Outer)) /\ (z # <<>> => Beside(v, t, Outer, Head(z)))
      BY <2>8, <2>9
    <3> QED BY ONLY <2>5, <2>7, <2>10, <3>1, TrackedMore
  <2>12. HeadLoad(lab[2], Head(s), Outer, 2)
    BY <2>6 DEF HeadLoad
  <2>13. First(Outer).mode = "first" /\ First(Outer).in = Outer /\ First(Outer).idx = 0
    BY DEF First, Place
  <2>14. At(lab, n, InitStack, 2)
    <3>1. lab[2].mode = "first" /\ lab[2].in = Outer /\ lab[2].idx = 0
      BY <2>3, <2>13
    <3>2. lab[2].idx \in Nat /\ lab[2].in = Last(n)
      BY <2>4, <3>1
    <3>3. lab[2].mode = IF Last(InitStack).first THEN "first" ELSE "after"
      BY <2>4, <3>1
    <3> QED BY ONLY <2>3, <3>2, <3>3 DEF At
  <2>15. Named(schema, Outer.path)
    BY <2>6, NamedNone
  <2>16. Live(S, schema, lab, w, n, InitStack, 2, s)
    BY <2>4, <2>11, <2>12, <2>14, <2>15 DEF Live, v
  <2> QED BY <2>16 DEF Loads
<1> QED BY <1>5, <1>6

-----------------------------------------------------------------------------
(* What is in the file after a save, and where a load of it is, said of    *)
(* the values of the variables.                                            *)
WholeText(S, F, cr, lab, w) ==
  /\ S \in Configs /\ S \in Configs \cup {Nothing} /\ Text(S, F, lab, w)
  /\ ~cr => lab[Len(F) + 1].mode = "end"

Holds(S, F, cr) == \E lab, w : WholeText(S, F, cr, lab, w)

HeadGoes(F, l, t, f, o) ==
  /\ f.of = "array" /\ t.do = "item" => t.idx <= l.idx /\ (Packed => t.idx = l.idx)
  /\ f.of = "array" /\ t.do = "ARRAY" => l.mode = "after" /\ (l.idx >= f.comp.max \/ ~(o \in DOMAIN F /\ F[o].kind = ","))

AtPlace(F, lab, fr, ctx, o) ==
  /\ o \in 1 .. Len(F) + 1 /\ lab[o].in = Last(fr) /\ lab[o].idx \in Nat
  /\ lab[o].mode = IF Last(ctx).first THEN "first" ELSE "after"

Goes(S, F, cr, schema, lab, w, fr, ctx, o, s) ==
  /\ WholeText(S, F, cr, lab, w) /\ Stack(S, fr, ctx) /\ AtPlace(F, lab, fr, ctx, o)
  /\ Tracked(LoadJob(S, schema), s, Last(fr))
  /\ s # <<>> => HeadGoes(F, lab[o], Head(s), Last(fr), o)
  /\ s = <<>> => ~Last(ctx).first
  /\ Named(schema, Last(fr).path)

GoesOn(S, F, cr, schema, ctx, o, s) == \E lab, w, fr : Goes(S, F, cr, schema, lab, w, fr, ctx, o, s)

LEMMA WroteText ==
  ASSUME NEW S, NEW lab, NEW w
  PROVE  WholeText(S, file, crashed, lab, w) <=> Wrote(S, lab, w)
BY DEF WholeText, Wrote, Readable, Past

LEMMA GoesIs ==
  ASSUME NEW S, NEW schema, NEW lab, NEW w, NEW fr, NEW ctx, NEW o, NEW s
  PROVE  Goes(S, file, crashed, schema, lab, w, fr, ctx, o, s) <=> Live(S, schema, lab, w, fr, ctx, o, s)
<1>1. \A l, t, f : HeadGoes(file, l, t, f, o) <=> HeadLoad(l, t, f, o)
  BY DEF HeadGoes, HeadLoad, Is
<1>2. AtPlace(file, lab, fr, ctx, o) <=> At(lab, fr, ctx, o)
  BY DEF AtPlace, At, Past
<1> QED BY <1>1, <1>2, WroteText DEF Goes, Live

LEMMA GoesOnIs ==
  ASSUME NEW S, NEW schema, NEW ctx, NEW o, NEW s
  PROVE  GoesOn(S, file, crashed, schema, ctx, o, s) <=> Loads(S, schema, ctx, o, s)
BY GoesIs DEF GoesOn, Loads

(* At the end of what a crash left, and a load of which nothing is left.   *)
Stuck(F, cr, ctx, o)  == cr /\ o = Len(F) + 1 /\ ~Last(ctx).first
Bare(F, cr, o, s)     == cr /\ F = <<>> /\ o = 1 /\ s = <<Task("item", Base, <<>>, 0)>>

Underway(S, F, cr, schema, ctx, o, s) ==
  GoesOn(S, F, cr, schema, ctx, o, s) \/ Stuck(F, cr, ctx, o) \/ Bare(F, cr, o, s)

-----------------------------------------------------------------------------
(* What holds at every moment. *)
Typed ==
  /\ phase \in Phases /\ upgraded \in BOOLEAN /\ open \in 0 .. MaxOpen /\ crashed \in BOOLEAN
  /\ saved \in Configs \cup {Nothing}
  /\ file \in Seq(Tokens) /\ off \in 1 .. Len(file) + 1
  /\ ctxt \in Seq(Stacked) /\ Len(ctxt) \in 1 .. StackDepth

(* A command has the file open. *)
Busy == phase \in {"save", "load"} => open >= 1 /\ saved \in Configs

SaveInv == phase = "save" => Saves(saved, file, ctxt, todo) /\ off = 1
FileInv == phase # "save" /\ saved # Nothing => Holds(saved, file, crashed)
LoadInv == phase = "load" => Underway(saved, file, crashed, Running(upgraded), ctxt, off, todo)
RamInv  == phase = "load" /\ ~crashed /\ Packed => Loaded(saved, Running(upgraded), ram)

StoreInv == Typed /\ Busy /\ SaveInv /\ FileInv /\ LoadInv /\ RamInv

LEMMA ConfigIs ==
  ASSUME NEW S \in Configs
  PROVE  S # Nothing
BY ConfigAssumption DEF Nothing

LEMMA StoreInit ==
  ASSUME Init PROVE StoreInv
<1>1. StackDepth \in Nat /\ MaxOpen \in Nat /\ StackDepth >= 1
  <2>1. StackDepth \in Nat /\ MaxOpen \in Nat
    BY DepthAssumption
  <2>2. PICK height : Heights(height)
    BY HeightsAre
  <2>3. height["Root"] \in Nat /\ 2 + height["Root"] <= StackDepth
    BY <2>2, SchemaAssumption DEF Heights
  <2> QED BY ONLY <2>1, <2>3
<1>2. Typed
  <2>1. file = <<>> /\ off = 1 /\ ctxt = InitStack /\ open = 0 /\ phase = "started" /\ upgraded = FALSE /\ crashed = FALSE
        /\ saved = Nothing
    BY DEF Init
  <2>2. file \in Seq(Tokens) /\ Len(file) = 0
    BY <2>1, EmptySeq
  <2>3. ctxt \in Seq(Stacked) /\ Len(ctxt) = 1
    BY <2>1, StackStarts
  <2>4. off \in 1 .. Len(file) + 1
    BY <2>1, <2>2
  <2>5. Len(ctxt) \in 1 .. StackDepth /\ open \in 0 .. MaxOpen
    BY <1>1, <2>1, <2>3
  <2> QED BY <2>1, <2>2, <2>3, <2>4, <2>5 DEF Typed, Phases
<1>3. phase = "started" /\ saved = Nothing
  BY DEF Init
<1> QED BY <1>2, <1>3 DEF StoreInv, Busy, SaveInv, FileInv, LoadInv, RamInv

LEMMA SavesTyped ==
  ASSUME NEW S, NEW F, NEW ctx, NEW s, Saves(S, F, ctx, s)
  PROVE  /\ S \in Configs /\ F \in Seq(Tokens) /\ ctx \in Seq(Stacked) /\ Len(ctx) \in 1 .. StackDepth
         /\ 1 \in 1 .. Len(F) + 1
<1>1. PICK fr, l : SavesOn(S, F, fr, l, ctx, s)
  BY DEF Saves
<1>2. S \in Configs /\ S \in Configs \cup {Nothing} /\ Stack(S, fr, ctx) /\ F \in Seq(Tokens)
  BY <1>1, SavesTop
<1>3. ctx \in Seq(Stacked) /\ Len(ctx) \in 1 .. StackDepth
  BY <1>2, StackTop, StackFits
<1>4. Len(F) \in Nat
  BY <1>2
<1>5. 1 \in 1 .. Len(F) + 1
  BY ONLY <1>4
<1> QED BY <1>2, <1>3, <1>5

LEMMA SaveGoes ==
  ASSUME StoreInv, phase = "save", SaveFrame, Saves(saved, file', ctxt', todo')
  PROVE  StoreInv'
<1>1. UNCHANGED <<saved, phase, upgraded, off, ram, open, crashed>>
  BY DEF SaveFrame
<1>2. /\ phase \in Phases /\ upgraded \in BOOLEAN /\ open \in 0 .. MaxOpen /\ crashed \in BOOLEAN
      /\ saved \in Configs \cup {Nothing} /\ off = 1 /\ open >= 1 /\ saved \in Configs
  BY DEF StoreInv, Typed, Busy, SaveInv
<1>3. file' \in Seq(Tokens) /\ ctxt' \in Seq(Stacked) /\ Len(ctxt') \in 1 .. StackDepth /\ 1 \in 1 .. Len(file') + 1
  BY SavesTyped
<1>4. Typed'
  BY <1>1, <1>2, <1>3 DEF Typed
<1>5. Busy' /\ SaveInv' /\ FileInv' /\ LoadInv' /\ RamInv'
  BY <1>1, <1>2 DEF Busy, SaveInv, FileInv, LoadInv, RamInv
<1> QED BY <1>4, <1>5 DEF StoreInv

LEMMA LoadsTyped ==
  ASSUME NEW S, NEW schema, NEW ctx, NEW o, NEW s, Loads(S, schema, ctx, o, s)
  PROVE  ctx \in Seq(Stacked) /\ Len(ctx) \in 1 .. StackDepth /\ o \in 1 .. Len(file) + 1
<1>1. PICK lab, w, fr : Live(S, schema, lab, w, fr, ctx, o, s)
  BY DEF Loads
<1>2. S \in Configs \cup {Nothing} /\ Stack(S, fr, ctx) /\ o \in 1 .. Past
  BY <1>1, LiveIs
<1> QED BY <1>2, StackTop, StackFits DEF Past

(* A load goes on. *)
LEMMA LoadGoes ==
  ASSUME StoreInv, phase = "load", LoadFrame,
         \/ Loads(saved, Running(upgraded), ctxt', off', todo')
         \/ /\ Stuck(file, crashed, ctxt', off') /\ ctxt' \in Seq(Stacked) /\ Len(ctxt') \in 1 .. StackDepth,
         ~crashed /\ Packed => Loaded(saved, Running(upgraded), ram')
  PROVE  StoreInv'
<1>1. UNCHANGED <<saved, phase, upgraded, file, open, crashed>>
  BY DEF LoadFrame
<1>2. /\ phase \in Phases /\ upgraded \in BOOLEAN /\ open \in 0 .. MaxOpen /\ crashed \in BOOLEAN
      /\ saved \in Configs \cup {Nothing} /\ open >= 1 /\ saved \in Configs /\ file \in Seq(Tokens)
      /\ saved # Nothing => Holds(saved, file, crashed)
  BY DEF StoreInv, Typed, Busy, FileInv
<1>3. ctxt' \in Seq(Stacked) /\ Len(ctxt') \in 1 .. StackDepth /\ off' \in 1 .. Len(file) + 1
  <2>1. CASE Loads(saved, Running(upgraded), ctxt', off', todo')
    BY <2>1, LoadsTyped
  <2>2. CASE Stuck(file, crashed, ctxt', off') /\ ctxt' \in Seq(Stacked) /\ Len(ctxt') \in 1 .. StackDepth
    <3>1. off' = Len(file) + 1 /\ Len(file) \in Nat
      BY <1>2, <2>2 DEF Stuck
    <3>2. off' \in 1 .. Len(file) + 1
      BY ONLY <3>1
    <3> QED BY <2>2, <3>2
  <2> QED BY <2>1, <2>2
<1>4. Typed'
  BY <1>1, <1>2, <1>3 DEF Typed
<1>5. Underway(saved, file, crashed, Running(upgraded), ctxt', off', todo')
  BY GoesOnIs DEF Underway
<1>6. LoadInv'
  BY <1>1, <1>5 DEF LoadInv
<1>7. RamInv'
  BY <1>1 DEF RamInv
<1>8. Busy' /\ SaveInv' /\ FileInv'
  BY <1>1, <1>2 DEF Busy, SaveInv, FileInv
<1> QED BY <1>4, <1>6, <1>7, <1>8 DEF StoreInv

LEMMA LoadFails ==
  ASSUME StoreInv, phase = "load", NEW o, NEW outcome, Fail(o, outcome), outcome \in {"failed", "starved"}, o \in 1 .. Past
  PROVE  StoreInv'
<1>1. /\ phase' = outcome /\ open' = (IF Is(o, "}") THEN open - 1 ELSE open) /\ off' = o
      /\ UNCHANGED <<saved, upgraded, file, ctxt, crashed>>
  BY DEF Fail
<1>2. /\ upgraded \in BOOLEAN /\ open \in 0 .. MaxOpen /\ crashed \in BOOLEAN /\ MaxOpen \in Nat
      /\ saved \in Configs \cup {Nothing} /\ open >= 1 /\ file \in Seq(Tokens)
      /\ saved # Nothing => Holds(saved, file, crashed)
      /\ ctxt \in Seq(Stacked) /\ Len(ctxt) \in 1 .. StackDepth
  BY DepthAssumption DEF StoreInv, Typed, Busy, FileInv
<1>3. open' \in 0 .. MaxOpen
  <2>1. open - 1 \in 0 .. MaxOpen
    BY ONLY <1>2
  <2> QED BY <1>1, <1>2, <2>1
<1>4. off' \in 1 .. Len(file') + 1
  BY <1>1 DEF Past
<1>5. phase' \in Phases /\ phase' \notin {"save", "load"}
  BY <1>1 DEF Phases
<1>6. Typed'
  BY <1>1, <1>2, <1>3, <1>4, <1>5 DEF Typed
<1>7. Busy' /\ SaveInv' /\ FileInv' /\ LoadInv' /\ RamInv'
  BY <1>1, <1>2, <1>5 DEF Busy, SaveInv, FileInv, LoadInv, RamInv
<1> QED BY <1>6, <1>7 DEF StoreInv

LEMMA PartJobs ==
  ASSUME NEW schema \in {Schema, NewSchema}, NEW c, c.desc \in DOMAIN schema, NEW p \in Seq(Steps)
  PROVE  Components(schema, c, p) \in Seq(Jobs)
<1> DEFINE d == schema[c.desc]
           u == Components(schema, c, p)
<1>1. d \in Seq(All(schema)) /\ Len(d) \in Nat /\ \A i \in 1 .. Len(d) : d[i] \in Known
  BY PartsAre
<1>2. DOMAIN d = 1 .. Len(d)
  BY <1>1
<1>3. u = [i \in 1 .. Len(d) |-> Task("aggr", d[i], p, 0)]
  BY <1>2 DEF Components
<1> HIDE DEF d, u
<1>4. \A i \in 1 .. Len(d) : Task("aggr", d[i], p, 0) \in Jobs
  BY <1>1 DEF Task, Jobs
<1>5. u \in Seq(Jobs)
  BY <1>1, <1>3, <1>4
<1> QED BY <1>5 DEF u

LEMMA SavedDesc ==
  ASSUME NEW S \in Configs, NEW f, Legal(S, f), NEW t, SaveSuits(S, t, f), t.comp.desc # Simple
  PROVE  t.comp.desc \in DOMAIN Schema
<1>1. S \in Configs \cup {Nothing} /\ (f.of = "file" <=> f = Outer)
  BY LegalIs
<1>2. CASE f = Outer
  BY <1>1, <1>2, BaseIs DEF SaveSuits
<1>3. CASE f # Outer
  <2>1. t.comp \in Parts(Schema, f.path)
    BY <1>1, <1>3 DEF SaveSuits
  <2> QED BY <1>1, <1>3, <2>1, PartOf
<1> QED BY <1>2, <1>3

LEMMA SaveSays ==
  ASSUME StoreInv, phase = "save"
  PROVE  Saves(saved, file, ctxt, todo) /\ saved \in Configs /\ off = 1 /\ open >= 1 /\ file \in Seq(Tokens)
BY DEF StoreInv, SaveInv, Busy, Typed

LEMMA SaveHead ==
  ASSUME StoreInv, phase = "save", todo # <<>>
  PROVE  Head(todo) \in Jobs /\ Tail(todo) \in Seq(Jobs)
<1>1. Saves(saved, file, ctxt, todo)
  BY SaveSays
<1>2. PICK fr, l : SavesOn(saved, file, fr, l, ctxt, todo)
  BY <1>1 DEF Saves
<1>3. Tracked(SaveJob(saved), todo, Last(fr))
  BY <1>2, SavesTop
<1> QED BY <1>3, TrackedHead

LEMMA MemberSame == \A c : Member(c) = MemberOf(ctxt, c)
BY DEF Member, MemberOf, CommaOf, Top

LEMMA StartSaves ==
  ASSUME StoreInv, SaveStart
  PROVE  StoreInv'
<1> DEFINE s == <<Task("item", Base, <<>>, 0)>>
<1>1. /\ saved' \in Configs /\ phase' = "save" /\ file' = <<Mark("{")>> /\ off' = 1 /\ ctxt' = InitStack
      /\ todo' = s /\ open' = open + 1 /\ crashed' = FALSE /\ upgraded' = upgraded /\ open < MaxOpen
  BY AgainAssumption DEF SaveStart
<1>2. upgraded \in BOOLEAN /\ open \in 0 .. MaxOpen /\ MaxOpen \in Nat
  BY DepthAssumption DEF StoreInv, Typed
<1> HIDE DEF s
<1>3. Saves(saved', file', ctxt', todo')
  <2>1. Saves(saved', <<Mark("{")>>, InitStack, s)
    BY <1>1, SavesStart DEF s
  <2> QED BY <1>1, <2>1
<1>4. file' \in Seq(Tokens) /\ ctxt' \in Seq(Stacked) /\ Len(ctxt') \in 1 .. StackDepth /\ 1 \in 1 .. Len(file') + 1
  BY <1>3, SavesTyped
<1>5. open' \in 0 .. MaxOpen /\ open' >= 1
  <2>1. open' = open + 1 /\ open < MaxOpen
    BY <1>1
  <2> QED BY ONLY <1>2, <2>1
<1>6. Typed'
  BY <1>1, <1>2, <1>4, <1>5 DEF Typed, Phases
<1>7. Busy' /\ SaveInv' /\ FileInv' /\ LoadInv' /\ RamInv'
  BY <1>1, <1>3, <1>5 DEF Busy, SaveInv, FileInv, LoadInv, RamInv
<1> QED BY <1>6, <1>7 DEF StoreInv

LEMMA AggrSaves ==
  ASSUME StoreInv, SaveAggr
  PROVE  StoreInv'
<1> DEFINE t     == Head(todo)
           u     == Tail(todo)
           items == SaveItems(saved, t.comp, t.path)
           a     == Task("ARRAY", t.comp, t.path, 0)
<1>1. phase = "save" /\ todo # <<>> /\ t.do = "aggr" /\ SaveFrame
  BY DEF SaveAggr, Saving
<1>2. Saves(saved, file, ctxt, todo) /\ saved \in Configs
  BY <1>1, SaveSays
<1>3. t \in Jobs /\ u \in Seq(Jobs)
  BY <1>1, SaveHead
<1>4. CASE Skipped(saved, t.comp, t.path)
  <2>1. todo' = u /\ file' = file /\ ctxt' = ctxt
    BY <1>4 DEF SaveAggr, Rest
  <2>2. Saves(saved, file, ctxt, u)
    BY <1>1, <1>2, SavesSkip
  <2>3. Saves(saved, file', ctxt', todo')
    BY <2>1, <2>2
  <2> QED BY <1>1, <2>3, SaveGoes
<1>5. CASE ~Skipped(saved, t.comp, t.path) /\ t.comp.max > 1
  <2>1. /\ file' = file \o Append(MemberOf(ctxt, t.comp), Mark("["))
        /\ ctxt' = Append(ctxt, Context("ARRAY", TRUE))
        /\ todo' = items \o <<a>> \o u
    BY <1>5, MemberSame, BracketsAre DEF SaveAggr, Rest, StartWrite, Write
  <2>2. items \in Seq(Jobs) /\ <<a>> \in Seq(Jobs)
    <3>1. PICK fr, l : SavesOn(saved, file, fr, l, ctxt, todo)
      BY <1>2 DEF Saves
    <3>2. Component1(saved, todo, t, fr, l, ctxt, file)
      BY <1>1, <3>1, ComponentSaved
    <3>3. /\ t.path \in Kept(saved) /\ t.path \in Seq(Steps) /\ CompOf(t.path).desc \in DOMAIN Schema
          /\ t.comp \in Known /\ t.comp \in Parts(Schema, t.path)
      BY <3>2 DEF Component1
    <3>4. t.comp.name \notin Volatile
      BY <1>5 DEF Skipped
    <3> DEFINE c == t.comp
               p == t.path
               g == ArrayFrame(p, c)
    <3>5. c.max > 1 /\ items = SaveItems(saved, c, p)
      BY <1>5
    <3>6. a \in Jobs
      BY <3>3, JobIs
    <3>7. c \in Parts(Schema, p) /\ c.name \notin Volatile /\ p \in Kept(saved) /\ CompOf(p).desc \in DOMAIN Schema
      BY <3>3, <3>4
    <3>8. g = IF c.max > 1 THEN ArrayFrame(p, c) ELSE ItemFrame(p)
      BY <3>5
    <3> HIDE DEF g, c, p, items, a
    <3>9. Itemized(saved, p, c, g, items)
      BY ONLY <1>2, <3>5, <3>7, <3>8, SaveItemJobs
    <3> QED BY <3>6, <3>9 DEF Itemized
  <2> HIDE DEF items, u, t, a
  <2>3. todo' = items \o (<<a>> \o u)
    <3>1. todo' = (items \o <<a>>) \o u
      BY <2>1
    <3>2. items \o (<<a>> \o u) = (items \o <<a>>) \o u
      BY ONLY <1>3, <2>2, JoinAssoc
    <3> QED BY ONLY <3>1, <3>2
  <2>4. t = Head(todo) /\ u = Tail(todo) /\ items = SaveItems(saved, t.comp, t.path) /\ a = Task("ARRAY", t.comp, t.path, 0)
    BY DEF t, u, items, a
  <2>5. Saves(saved, file', ctxt', todo')
    <3>1. todo' = SaveItems(saved, t.comp, t.path) \o (<<a>> \o u)
      BY <2>3, <2>4
    <3>2. file' = file \o Append(MemberOf(ctxt, t.comp), Mark("[")) /\ ctxt' = Append(ctxt, Context("ARRAY", TRUE))
      BY <2>1
    <3>3. todo # <<>> /\ t.do = "aggr" /\ t.comp.max > 1 /\ ~Skipped(saved, t.comp, t.path)
      BY <1>1, <1>5
    <3> QED BY ONLY <1>2, <2>4, <3>1, <3>2, <3>3, SavesArray
  <2> QED BY <1>1, <2>5, SaveGoes
<1>6. CASE ~Skipped(saved, t.comp, t.path) /\ ~(t.comp.max > 1)
  <2>1. todo' = items \o u /\ file' = file /\ ctxt' = ctxt
    BY <1>6 DEF SaveAggr, Rest
  <2>2. t.comp.name \notin Volatile
    BY <1>6 DEF Skipped
  <2>3. Saves(saved, file, ctxt, todo')
    <3>1. t = Head(todo) /\ u = Tail(todo) /\ todo' = SaveItems(saved, t.comp, t.path) \o u
      BY <2>1
    <3> HIDE DEF t, u, items
    <3> QED BY ONLY <1>1, <1>2, <1>6, <2>2, <3>1, SavesOne
  <2>4. Saves(saved, file', ctxt', todo')
    BY <2>1, <2>3
  <2> QED BY <1>1, <2>4, SaveGoes
<1> QED BY <1>4, <1>5, <1>6

LEMMA SimpleSaves ==
  ASSUME StoreInv, SaveSimple
  PROVE  StoreInv'
<1> DEFINE t == Head(todo)
           u == Tail(todo)
<1>1. /\ phase = "save" /\ todo # <<>> /\ t.do = "item" /\ t.comp.desc = Simple /\ SaveFrame
      /\ file' = file \o Append(MemberOf(ctxt, t.comp), Token("value", PathOf(t)))
      /\ ctxt' = NotFirst(ctxt) /\ todo' = u
  BY MemberSame DEF SaveSimple, Saving, Rest, Write
<1>2. Saves(saved, file, ctxt, todo)
  BY <1>1, SaveSays
<1>3. Saves(saved, file', ctxt', u)
  <2>1. t = Head(todo) /\ u = Tail(todo)
    OBVIOUS
  <2> HIDE DEF t, u
  <2> QED BY ONLY <1>1, <1>2, <2>1, SavesSimple
<1>4. Saves(saved, file', ctxt', todo')
  BY <1>1, <1>3
<1> QED BY <1>1, <1>4, SaveGoes

LEMMA CompositeSaves ==
  ASSUME StoreInv, SaveComposite
  PROVE  StoreInv'
<1> DEFINE t == Head(todo)
           u == Tail(todo)
           o == Task("OBJECT", t.comp, t.path, 0)
           parts == Components(Schema, t.comp, PathOf(t))
<1>1. phase = "save" /\ todo # <<>> /\ t.do = "item" /\ t.comp.desc # Simple /\ SaveFrame
  BY DEF SaveComposite, Saving
<1>2. Saves(saved, file, ctxt, todo) /\ saved \in Configs
  BY <1>1, SaveSays
<1>3. t \in Jobs /\ u \in Seq(Jobs)
  BY <1>1, SaveHead
<1>4. CASE ~HasContent(saved, PathOf(t))
  <2>1. todo' = u /\ file' = file /\ ctxt' = ctxt
    BY <1>4 DEF SaveComposite, Rest
  <2>2. Saves(saved, file, ctxt, u)
    BY <1>1, <1>2, <1>4, SavesOver
  <2>3. Saves(saved, file', ctxt', todo')
    BY <2>1, <2>2
  <2> QED BY <1>1, <2>3, SaveGoes
<1>5. CASE HasContent(saved, PathOf(t))
  <2>1. /\ file' = file \o Append(MemberOf(ctxt, t.comp), Mark("{"))
        /\ ctxt' = Append(ctxt, Context("OBJECT", TRUE))
        /\ todo' = parts \o <<o>> \o u
    BY <1>5, MemberSame, BracketsAre DEF SaveComposite, Rest, StartWrite, Write
  <2>2. parts \in Seq(Jobs) /\ <<o>> \in Seq(Jobs)
    <3>1. PICK fr, l : SavesOn(saved, file, fr, l, ctxt, todo)
      BY <1>2 DEF Saves
    <3>2. Tracked(SaveJob(saved), todo, Last(fr)) /\ Legal(saved, Last(fr))
      BY <3>1, SavesTop
    <3>3. Suited(SaveJob(saved), t, Last(fr)) /\ t.comp \in Known /\ t.path \in Seq(Steps)
      BY <1>1, <1>2, <1>3, <3>2, TrackedHead, SaveTask
    <3>4. SaveSuits(saved, t, Last(fr))
      BY <1>1, <1>2, <1>3, <3>2, <3>3, SaveTask
    <3>5. PathOf(t) \in saved /\ PathOf(t) \in Seq(Steps)
      BY <1>2, <3>4, ConfigAssumption DEF SaveSuits
    <3>6. t.comp.desc \in DOMAIN Schema
      BY <1>1, <1>2, <1>3, <1>5, <3>2, <3>4, SavedDesc
    <3>7. parts \in Seq(Jobs)
      BY <3>3, <3>5, <3>6, PartJobs
    <3>8. o \in Jobs
      BY <3>3, JobIs
    <3> HIDE DEF o, parts
    <3> QED BY ONLY <3>7, <3>8
  <2> HIDE DEF parts, u, t, o
  <2>3. todo' = parts \o (<<o>> \o u)
    <3>1. todo' = (parts \o <<o>>) \o u
      BY <2>1
    <3>2. parts \o (<<o>> \o u) = (parts \o <<o>>) \o u
      BY ONLY <1>3, <2>2, JoinAssoc
    <3> QED BY ONLY <3>1, <3>2
  <2>4. t = Head(todo) /\ u = Tail(todo) /\ o = Task("OBJECT", t.comp, t.path, 0)
        /\ todo' = Components(Schema, t.comp, PathOf(t)) \o (<<o>> \o u)
    BY <2>3 DEF t, u, o, parts
  <2>5. Saves(saved, file', ctxt', todo')
    <3> DEFINE G  == file'
               c2 == ctxt'
               s2 == todo'
    <3>1. /\ G = file \o Append(MemberOf(ctxt, t.comp), Mark("{"))
          /\ c2 = Append(ctxt, Context("OBJECT", TRUE))
          /\ s2 = Components(Schema, t.comp, PathOf(t)) \o (<<o>> \o u)
      BY <2>1, <2>4
    <3>2. t = Head(todo) /\ u = Tail(todo) /\ o = Task("OBJECT", t.comp, t.path, 0)
      BY <2>4
    <3>3. Saves(saved, file, ctxt, todo) /\ todo # <<>> /\ t.do = "item" /\ t.comp.desc # Simple
      BY <1>1, <1>2
    <3> HIDE DEF G, c2, s2
    <3>4. Saves(saved, G, c2, s2)
      BY ONLY <1>5, <3>1, <3>2, <3>3, SavesComposite
    <3> QED BY <3>4 DEF G, c2, s2
  <2> QED BY <1>1, <2>5, SaveGoes
<1> QED BY <1>4, <1>5

LEMMA CloseSaves ==
  ASSUME StoreInv, NEW type \in {"OBJECT", "ARRAY"}, SaveClose(type)
  PROVE  StoreInv'
<1> DEFINE t == Head(todo)
           u == Tail(todo)
<1>1. /\ phase = "save" /\ todo # <<>> /\ t.do = type /\ SaveFrame
      /\ file' = file \o <<Mark(Closer[type])>> /\ ctxt' = NotFirst(Front(ctxt)) /\ todo' = u
  BY DEF SaveClose, Saving, Rest, Write
<1>2. Saves(saved, file, ctxt, todo)
  BY <1>1, SaveSays
<1>3. Saves(saved, file', ctxt', u)
  <2>1. t = Head(todo) /\ u = Tail(todo)
    OBVIOUS
  <2> HIDE DEF t, u
  <2> QED BY ONLY type \in {"OBJECT", "ARRAY"}, <1>1, <1>2, <2>1, SavesClose
<1>4. Saves(saved, file', ctxt', todo')
  BY <1>1, <1>3
<1> QED BY <1>1, <1>4, SaveGoes

(* What is in the file when no save is going on. *)
LEMMA EndedHolds ==
  ASSUME NEW S, NEW F, NEW ctx, NEW G, G = F \o <<Mark("}")>>, Saves(S, F, ctx, <<>>)
  PROVE  Holds(S, G, FALSE) /\ G \in Seq(Tokens)
<1>1. Ended(S, G) /\ S \in Configs
  BY SavesEnd, SavesTyped
<1>2. PICK lab, w : Text(S, G, lab, w) /\ lab[Len(G) + 1].mode = "end"
  BY <1>1 DEF Ended
<1>3. G \in Seq(Tokens)
  BY <1>2 DEF Text
<1>4. WholeText(S, G, FALSE, lab, w)
  BY <1>1, <1>2 DEF WholeText
<1> QED BY <1>3, <1>4 DEF Holds

LEMMA HoldsAny ==
  ASSUME NEW S, NEW F, NEW ctx, NEW s, Saves(S, F, ctx, s), NEW n \in 0 .. Len(F), NEW G, G = SubSeq(F, 1, n)
  PROVE  Holds(S, G, TRUE) /\ G \in Seq(Tokens)
<1>1. PICK fr, l : SavesOn(S, F, fr, l, ctx, s)
  BY DEF Saves
<1>2. S \in Configs /\ Written(S, F, fr, l)
  BY <1>1, SavesTop
<1>3. PICK lab, w, op : Text(S, F, lab, w)
  BY <1>2 DEF Written
<1>4. Text(S, G, lab, w)
  BY <1>3, TextCut
<1>5. G \in Seq(Tokens)
  BY <1>4 DEF Text
<1>6. WholeText(S, G, TRUE, lab, w)
  BY <1>2, <1>4 DEF WholeText
<1> QED BY <1>5, <1>6 DEF Holds

LEMMA EndSaves ==
  ASSUME StoreInv, SaveEnd
  PROVE  StoreInv'
<1>1. /\ phase = "save" /\ todo = <<>> /\ phase' = "saved" /\ open' = open - 1 /\ file' = file \o <<Mark("}")>>
      /\ UNCHANGED <<saved, upgraded, off, ctxt, todo, ram, crashed>>
  BY DEF SaveEnd, Write
<1>2. /\ Saves(saved, file, ctxt, todo) /\ saved \in Configs /\ off = 1 /\ open >= 1
      /\ upgraded \in BOOLEAN /\ open \in 0 .. MaxOpen /\ MaxOpen \in Nat /\ crashed \in BOOLEAN
      /\ saved \in Configs \cup {Nothing} /\ ctxt \in Seq(Stacked) /\ Len(ctxt) \in 1 .. StackDepth
  BY <1>1, SaveSays, DepthAssumption DEF StoreInv, Typed
<1>3. Saves(saved, file, ctxt, <<>>)
  BY <1>1, <1>2
<1>4. Holds(saved, file', FALSE) /\ file' \in Seq(Tokens)
  <2>1. file' = file \o <<Mark("}")>>
    BY <1>1
  <2> QED BY ONLY <1>3, <2>1, EndedHolds
<1>5. Holds(saved, file', crashed)
  <2>1. Holds(saved, file', TRUE)
    <3>1. PICK lab, w : WholeText(saved, file', FALSE, lab, w)
      BY <1>4 DEF Holds
    <3>2. WholeText(saved, file', TRUE, lab, w)
      BY <3>1 DEF WholeText
    <3> QED BY <3>2 DEF Holds
  <2> QED BY <1>2, <1>4, <2>1
<1>6. off' \in 1 .. Len(file') + 1
  <2>1. Len(file') \in Nat
    BY <1>4
  <2>2. off' = 1
    BY <1>1, <1>2
  <2> QED BY ONLY <2>1, <2>2
<1>7. open' \in 0 .. MaxOpen
  <2>1. open' = open - 1
    BY <1>1
  <2> QED BY ONLY <1>2, <2>1
<1>8. Typed'
  BY <1>1, <1>2, <1>4, <1>6, <1>7 DEF Typed, Phases
<1>9. Busy' /\ SaveInv' /\ FileInv' /\ LoadInv' /\ RamInv'
  BY <1>1, <1>5 DEF Busy, SaveInv, FileInv, LoadInv, RamInv
<1> QED BY <1>8, <1>9 DEF StoreInv

LEMMA CrashKeeps ==
  ASSUME StoreInv, Crash
  PROVE  StoreInv'
<1>1. /\ phase' = "started" /\ upgraded' \in {upgraded, TRUE} /\ off' = 1 /\ ctxt' = InitStack /\ open' = 0
      /\ saved' = saved
      /\ IF phase # "save" THEN UNCHANGED <<file, crashed>>
         ELSE crashed' = TRUE /\ \E n \in 0 .. Len(file) : file' = SubSeq(file, 1, n)
  BY DEF Crash
<1>2. /\ upgraded \in BOOLEAN /\ crashed \in BOOLEAN /\ MaxOpen \in Nat /\ file \in Seq(Tokens)
      /\ saved \in Configs \cup {Nothing} /\ Len(ctxt) \in 1 .. StackDepth /\ StackDepth \in Nat
      /\ FileInv
  BY DepthAssumption DEF StoreInv, Typed
<1>3. ctxt' \in Seq(Stacked) /\ Len(ctxt') \in 1 .. StackDepth
  <2>1. InitStack \in Seq(Stacked) /\ Len(InitStack) = 1
    BY StackStarts
  <2>2. ctxt' \in Seq(Stacked) /\ Len(ctxt') = 1
    BY <1>1, <2>1
  <2>3. 1 \in 1 .. StackDepth
    BY <1>2
  <2> QED BY <2>2, <2>3
<1>4. file' \in Seq(Tokens) /\ crashed' \in BOOLEAN /\ (saved # Nothing => Holds(saved, file', crashed'))
  <2>1. CASE phase # "save"
    BY <1>1, <1>2, <2>1 DEF FileInv
  <2>2. CASE phase = "save"
    <3>1. Saves(saved, file, ctxt, todo)
      BY <2>2, SaveSays
    <3>2. PICK n : n \in 0 .. Len(file) /\ file' = SubSeq(file, 1, n)
      BY <1>1, <2>2
    <3>3. Holds(saved, file', TRUE) /\ file' \in Seq(Tokens)
      BY ONLY <3>1, <3>2, HoldsAny
    <3>4. crashed' = TRUE
      BY <1>1, <2>2
    <3> QED BY <3>3, <3>4
  <2> QED BY <2>1, <2>2
<1>5. off' \in 1 .. Len(file') + 1
  <2>1. Len(file') \in Nat
    BY <1>4
  <2>2. off' = 1
    BY <1>1
  <2> QED BY ONLY <2>1, <2>2
<1>6. open' \in 0 .. MaxOpen
  <2>1. open' = 0
    BY <1>1
  <2> QED BY ONLY <1>2, <2>1
<1>7. upgraded' \in BOOLEAN
  BY <1>1, <1>2
<1>8. Typed'
  BY <1>1, <1>2, <1>3, <1>4, <1>5, <1>6, <1>7 DEF Typed, Phases
<1>9. Busy' /\ SaveInv' /\ FileInv' /\ LoadInv' /\ RamInv'
  BY <1>1, <1>4 DEF Busy, SaveInv, FileInv, LoadInv, RamInv
<1> QED BY <1>8, <1>9 DEF StoreInv

LEMMA UnopenedKeeps ==
  ASSUME StoreInv, LoadUnopened
  PROVE  StoreInv'
<1>1. phase' = "undefined" /\ saved = Nothing
      /\ UNCHANGED <<saved, upgraded, file, off, ctxt, todo, ram, open, crashed>>
  BY DEF LoadUnopened
<1>2. Typed
  BY DEF StoreInv
<1>3. Typed'
  BY <1>1, <1>2 DEF Typed, Phases
<1>4. Busy' /\ SaveInv' /\ FileInv' /\ LoadInv' /\ RamInv'
  BY <1>1 DEF Busy, SaveInv, FileInv, LoadInv, RamInv
<1> QED BY <1>3, <1>4 DEF StoreInv

LEMMA DefaultsLoaded ==
  ASSUME NEW S, NEW schema
  PROVE  Loaded(S, schema, Defaults)
<1>1. DOMAIN Defaults = {}
  BY DEF Defaults
<1> QED BY <1>1 DEF Loaded

LEMMA StartTyped ==
  ASSUME StoreInv, phase' = "load", saved \in Configs, open < MaxOpen, open' = open + 1,
         UNCHANGED <<saved, upgraded, file, crashed>>, phase \notin {"save", "load"},
         ctxt' \in Seq(Stacked), Len(ctxt') \in 1 .. StackDepth, off' \in 1 .. Len(file) + 1,
         Underway(saved, file, crashed, Running(upgraded), ctxt', off', todo'), ram' = Defaults
  PROVE  StoreInv'
<1>1. /\ upgraded \in BOOLEAN /\ open \in 0 .. MaxOpen /\ MaxOpen \in Nat /\ file \in Seq(Tokens) /\ crashed \in BOOLEAN
      /\ saved \in Configs \cup {Nothing} /\ (saved # Nothing => Holds(saved, file, crashed))
  BY DepthAssumption DEF StoreInv, Typed, FileInv
<1>2. open' \in 0 .. MaxOpen /\ open' >= 1
  BY ONLY <1>1, open < MaxOpen, open' = open + 1
<1>3. Typed'
  BY <1>1, <1>2 DEF Typed, Phases
<1>4. LoadInv' /\ SaveInv' /\ FileInv' /\ Busy'
  BY <1>1, <1>2 DEF LoadInv, SaveInv, FileInv, Busy
<1>5. RamInv'
  BY DefaultsLoaded DEF RamInv
<1> QED BY <1>3, <1>4, <1>5 DEF StoreInv

LEMMA StartLoads ==
  ASSUME StoreInv, LoadStart
  PROVE  StoreInv'
<1> DEFINE s == <<Task("item", Base, <<>>, 0)>>
           schema == Running(upgraded)
<1>1. /\ phase \in {"started", "saved", "loaded", "failed", "starved"} /\ saved # Nothing /\ open < MaxOpen
      /\ open' = open + 1 /\ todo' = s /\ phase' = "load" /\ ram' = Defaults
      /\ UNCHANGED <<saved, upgraded, file, crashed>>
      /\ IF Is(1, "{") THEN off' = 2 /\ ctxt' = InitStack ELSE off' = 1 /\ UNCHANGED ctxt
  BY DEF LoadStart, Idle
<1>2. /\ Holds(saved, file, crashed) /\ saved \in Configs /\ upgraded \in BOOLEAN /\ open \in 0 .. MaxOpen
      /\ MaxOpen \in Nat /\ file \in Seq(Tokens) /\ crashed \in BOOLEAN
      /\ ctxt \in Seq(Stacked) /\ Len(ctxt) \in 1 .. StackDepth /\ saved \in Configs \cup {Nothing}
  BY <1>1, DepthAssumption DEF StoreInv, Typed, FileInv
<1>3. schema \in {Schema, NewSchema}
  BY <1>2, RunningIs
<1>4. PICK lab, w : WholeText(saved, file, crashed, lab, w)
  BY <1>2 DEF Holds
<1>5. Wrote(saved, lab, w)
  BY <1>4, WroteText
<1>6. schema = Running(upgraded) /\ s = <<Task("item", Base, <<>>, 0)>>
  OBVIOUS
<1> HIDE DEF s, schema
<1>7. (Is(1, "{") => Loads(saved, schema, InitStack, 2, s)) /\ (~Is(1, "{") => file = <<>>)
  BY ONLY <1>3, <1>5, <1>6, LoadsStart
<1>8. CASE Is(1, "{")
  <2>1. Loads(saved, schema, ctxt', off', todo')
    BY <1>1, <1>7, <1>8
  <2>2. ctxt' \in Seq(Stacked) /\ Len(ctxt') \in 1 .. StackDepth /\ off' \in 1 .. Len(file) + 1
    BY <2>1, LoadsTyped
  <2>3. Underway(saved, file, crashed, schema, ctxt', off', todo')
    BY <2>1, GoesOnIs DEF Underway
  <2> QED BY <2>2, <2>3, <1>1, <1>2, <1>6, StartTyped
<1>9. CASE ~Is(1, "{")
  <2>1. file = <<>> /\ off' = 1 /\ ctxt' = ctxt
    BY <1>1, <1>7, <1>9
  <2>2. crashed
    <3> SUFFICES ASSUME ~crashed PROVE FALSE
      OBVIOUS
    <3>1. Len(file) = 0
      BY <2>1, EmptySeq
    <3>2. lab[Len(file) + 1].mode = "end" /\ lab[1] = Start
      BY <1>4 DEF WholeText, Text
    <3>3. lab[1].mode = "end"
      BY <3>1, <3>2
    <3>4. Start.mode = "start"
      BY DEF Start, Place
    <3> QED BY <3>2, <3>3, <3>4
  <2>3. Bare(file, crashed, off', todo')
    BY <1>1, <1>6, <2>1, <2>2 DEF Bare
  <2>4. Underway(saved, file, crashed, schema, ctxt', off', todo')
    BY <2>3 DEF Underway
  <2>5. off' \in 1 .. Len(file) + 1
    <3>1. Len(file) = 0
      BY <2>1, EmptySeq
    <3> QED BY ONLY <2>1, <3>1
  <2> QED BY <2>1, <2>4, <2>5, <1>1, <1>2, <1>6, StartTyped
<1> QED BY <1>8, <1>9

(* What is known while a load goes on. *)
LEMMA LoadSays ==
  ASSUME StoreInv, phase = "load"
  PROVE  /\ saved \in Configs /\ upgraded \in BOOLEAN /\ Running(upgraded) \in {Schema, NewSchema}
         /\ file \in Seq(Tokens) /\ Len(file) \in Nat /\ Past = Len(file) + 1 /\ off \in 1 .. Past
         /\ ctxt \in Seq(Stacked) /\ Len(ctxt) \in 1 .. StackDepth /\ ctxt # <<>>
         /\ open >= 1 /\ (~crashed /\ Packed => Loaded(saved, Running(upgraded), ram))
         /\ \/ Loads(saved, Running(upgraded), ctxt, off, todo)
            \/ Stuck(file, crashed, ctxt, off)
            \/ Bare(file, crashed, off, todo)
<1>1. /\ saved \in Configs /\ upgraded \in BOOLEAN /\ file \in Seq(Tokens) /\ off \in 1 .. Len(file) + 1
      /\ ctxt \in Seq(Stacked) /\ Len(ctxt) \in 1 .. StackDepth /\ open >= 1
  BY DEF StoreInv, Typed, Busy
<1>2. Running(upgraded) \in {Schema, NewSchema}
  BY <1>1, RunningIs
<1>3. ctxt # <<>>
  <2> SUFFICES ASSUME ctxt = <<>> PROVE FALSE
    OBVIOUS
  <2>1. Len(ctxt) = 0
    BY EmptySeq
  <2> QED BY ONLY <1>1, <2>1
<1>4. Underway(saved, file, crashed, Running(upgraded), ctxt, off, todo) /\ RamInv
  BY DEF StoreInv, LoadInv
<1>5. \/ Loads(saved, Running(upgraded), ctxt, off, todo)
      \/ Stuck(file, crashed, ctxt, off)
      \/ Bare(file, crashed, off, todo)
  BY <1>4, GoesOnIs DEF Underway
<1>6. Len(file) \in Nat
  BY <1>1
<1>7. ~crashed /\ Packed => Loaded(saved, Running(upgraded), ram)
  BY <1>4 DEF RamInv
<1> QED BY <1>1, <1>2, <1>3, <1>5, <1>6, <1>7 DEF Past

(* Nothing is read at the end of what a crash left. *)
LEMMA StuckFinds ==
  ASSUME StoreInv, phase = "load", Stuck(file, crashed, ctxt, off)
  PROVE  /\ crashed /\ \A kind : ~Is(off, kind)
         /\ \A c : FindMember(c).res = "not found"
         /\ \A c, type : FindComposite(c, type).res = "not found"
<1>1. crashed /\ off = Len(file) + 1 /\ ~Top.first
  BY DEF Stuck, Top
<1>2. off \notin DOMAIN file
  <2>1. DOMAIN file = 1 .. Len(file) /\ Len(file) \in Nat
    BY LoadSays
  <2> QED BY ONLY <1>1, <2>1
<1>3. \A kind : ~Is(off, kind)
  BY <1>2 DEF Is
<1>4. \A c : FindMember(c) = Result("not found", off)
  BY <1>1, <1>3 DEF FindMember, Result
<1>5. \A c : FindMember(c).res = "not found"
  BY <1>4, ResultIs
<1>6. \A c, type : FindComposite(c, type).res = "not found"
  BY <1>5 DEF FindComposite
<1> QED BY <1>1, <1>3, <1>5, <1>6

LEMMA StuckGoes ==
  ASSUME StoreInv, phase = "load", Stuck(file, crashed, ctxt, off), LoadFrame, UNCHANGED <<off, ctxt>>
  PROVE  StoreInv'
<1>1. ctxt \in Seq(Stacked) /\ Len(ctxt) \in 1 .. StackDepth
  BY LoadSays
<1>2. crashed
  BY DEF Stuck
<1>3. Stuck(file, crashed, ctxt', off') /\ ctxt' \in Seq(Stacked) /\ Len(ctxt') \in 1 .. StackDepth
  BY <1>1
<1> QED BY <1>2, <1>3, LoadGoes

(* A load that never found the file's '{' fails at the base item. *)
LEMMA BareFinds ==
  ASSUME StoreInv, phase = "load", Bare(file, crashed, off, todo)
  PROVE  /\ todo # <<>> /\ Head(todo).do = "item" /\ Head(todo).comp = Base /\ Base.desc # Simple
         /\ \A type : /\ FindComposite(Base, type).res \in {"not found", "incoherent"}
                      /\ FindComposite(Base, type).off \in 1 .. Past
<1>1. file = <<>> /\ off = 1 /\ todo = <<Task("item", Base, <<>>, 0)>>
  BY DEF Bare
<1>2. todo # <<>> /\ Head(todo) = Task("item", Base, <<>>, 0)
  BY <1>1
<1>3. Head(todo).do = "item" /\ Head(todo).comp = Base
  BY <1>2 DEF Task
<1>4. Base.desc # Simple
  BY BaseIs
<1>5. file \in Seq(Tokens) /\ Past = 1
  <2>1. Len(file) = 0
    BY <1>1, EmptySeq
  <2> QED BY <2>1, LoadSays DEF Past
<1>6. \A o, kind : ~Is(o, kind)
  BY <1>1 DEF Is
<1>7. FindName(Base, 1) = Result("incoherent", off)
  <2>1. PICK find : Searching(Base, find)
    BY <1>5, Searches
  <2>2. 1 \in 1 .. Past + 1
    BY <1>5
  <2>3. FindName(Base, 1) = Looks(Base, find, 1)
    BY <2>1, <2>2 DEF Searching
  <2> QED BY <1>6, <2>3 DEF Looks
<1>8. FindMember(Base) \in {Result("not found", off), Result("incoherent", off), Result("success", off)}
  <2>1. CASE ~Top.first
    BY <1>6, <2>1 DEF FindMember, Result
  <2>2. CASE Top.first
    <3>1. FindMember(Base) = IF Top.type = "OBJECT" THEN FindName(Base, 1) ELSE Result("success", 1)
      BY <1>1, <2>2 DEF FindMember, Result
    <3> QED BY <1>1, <1>7, <3>1
  <2> QED BY <2>1, <2>2
<1>9. off \in 1 .. Past
  BY <1>1, <1>5
<1>10. ASSUME NEW type
       PROVE  FindComposite(Base, type) \in {Result("not found", off), Result("incoherent", off)}
  <2> DEFINE m == FindMember(Base)
  <2>1. FindComposite(Base, type) = IF m.res = "success" /\ ~Is(m.off, Opener[type]) THEN Result("incoherent", m.off)
          ELSE IF m.res = "success" THEN [m EXCEPT !.off = @ + 1] ELSE m
    BY DEF FindComposite, Result
  <2>2. m \in {Result("not found", off), Result("incoherent", off), Result("success", off)}
    BY <1>8
  <2> HIDE DEF m
  <2>3. CASE m = Result("success", off)
    <3>1. m.res = "success" /\ m.off = off
      BY <2>3, ResultIs
    <3>2. ~Is(m.off, Opener[type])
      BY <1>6
    <3> QED BY <2>1, <3>1, <3>2
  <2>4. CASE m \in {Result("not found", off), Result("incoherent", off)}
    <3>1. Result("not found", off).res = "not found" /\ Result("incoherent", off).res = "incoherent"
      BY ResultIs
    <3>2. m.res # "success"
      BY <2>4, <3>1
    <3> QED BY <2>1, <2>4, <3>2
  <2> QED BY <2>2, <2>3, <2>4
<1>11. ASSUME NEW type
       PROVE  FindComposite(Base, type).res \in {"not found", "incoherent"} /\ FindComposite(Base, type).off \in 1 .. Past
  <2>1. Result("not found", off).res = "not found" /\ Result("incoherent", off).res = "incoherent"
        /\ Result("not found", off).off = off /\ Result("incoherent", off).off = off
    BY ResultIs
  <2>2. FindComposite(Base, type) \in {Result("not found", off), Result("incoherent", off)}
    BY <1>10
  <2> QED BY <1>9, <2>1, <2>2
<1> QED BY <1>2, <1>3, <1>4, <1>11

(* The load goes on where it is. *)
LEMMA LoadStays ==
  ASSUME StoreInv, phase = "load", LoadFrame, UNCHANGED <<off, ctxt, ram>>,
         NEW s, Loads(saved, Running(upgraded), ctxt, off, s), todo' = s
  PROVE  StoreInv'
<1>1. ~crashed /\ Packed => Loaded(saved, Running(upgraded), ram)
  BY LoadSays
<1>2. Loads(saved, Running(upgraded), ctxt', off', todo')
  BY Zenon
<1>3. ram' = ram
  OBVIOUS
<1> QED BY <1>1, <1>2, <1>3, LoadGoes

LEMMA AggrLoads ==
  ASSUME Apart, StoreInv, LoadAggr
  PROVE  StoreInv'
<1> DEFINE t == Head(todo)
           u == Tail(todo)
           schema == Running(upgraded)
           i == Task("item", t.comp, t.path, 0)
           a == Task("ARRAY", t.comp, t.path, 0)
           r == FindComposite(t.comp, "ARRAY")
<1>1. /\ phase = "load" /\ todo # <<>> /\ t.do = "aggr"
      /\ IF t.comp.name \in Volatile
         THEN todo' = u /\ LoadFrame /\ UNCHANGED <<off, ctxt, ram>>
         ELSE IF t.comp.max = 1
         THEN todo' = <<i>> \o u /\ LoadFrame /\ UNCHANGED <<off, ctxt, ram>>
         ELSE /\ r.res = "success" => /\ off' = r.off /\ ctxt' = Append(ctxt, Context("ARRAY", TRUE))
                                      /\ todo' = <<i>> \o <<a>> \o u /\ LoadFrame /\ UNCHANGED ram
              /\ r.res = "not found" => todo' = u /\ LoadFrame /\ UNCHANGED <<off, ctxt, ram>>
              /\ r.res = "incoherent" => Fail(r.off, "failed")
  BY DEF LoadAggr, Loading, Rest
<1>2. /\ schema \in {Schema, NewSchema} /\ (~crashed /\ Packed => Loaded(saved, schema, ram))
      /\ \/ Loads(saved, schema, ctxt, off, todo)
         \/ Stuck(file, crashed, ctxt, off)
         \/ Bare(file, crashed, off, todo)
  BY <1>1, LoadSays
<1>3. /\ t = Head(todo) /\ u = Tail(todo) /\ schema = Running(upgraded) /\ i = Task("item", t.comp, t.path, 0)
      /\ a = Task("ARRAY", t.comp, t.path, 0) /\ r = FindComposite(t.comp, "ARRAY")
  OBVIOUS
<1> HIDE DEF t, u, schema, i, a, r
<1>4. CASE Stuck(file, crashed, ctxt, off)
  <2>1. r.res = "not found"
    BY <1>1, <1>3, <1>4, StuckFinds
  <2>2. LoadFrame /\ UNCHANGED <<off, ctxt>>
    BY <1>1, <2>1
  <2> QED BY <1>1, <1>4, <2>2, StuckGoes
<1>5. CASE Bare(file, crashed, off, todo)
  BY <1>1, <1>3, <1>5, BareFinds
<1>6. CASE Loads(saved, schema, ctxt, off, todo)
  <2>1. PICK lab, w, fr : Live(saved, schema, lab, w, fr, ctxt, off, todo)
    BY <1>6 DEF Loads
  <2>2. CASE t.comp.name \in Volatile
    <3>1. Loads(saved, schema, ctxt, off, u)
      BY ONLY <1>1, <1>2, <1>3, <2>1, LoadsSkip
    <3>2. todo' = u /\ LoadFrame /\ UNCHANGED <<off, ctxt, ram>>
      BY <1>1, <2>2
    <3> QED BY <1>1, <1>3, <3>1, <3>2, LoadStays
  <2>3. CASE t.comp.name \notin Volatile /\ t.comp.max = 1
    <3> DEFINE s == <<i>> \o u
    <3>1. s = <<i>> \o u
      OBVIOUS
    <3>2. todo' = s /\ LoadFrame /\ UNCHANGED <<off, ctxt, ram>>
      BY <1>1, <2>3
    <3> HIDE DEF s
    <3>3. Loads(saved, schema, ctxt, off, s)
      BY ONLY <1>1, <1>2, <1>3, <2>1, <2>3, <3>1, LoadsOne
    <3> QED BY ONLY StoreInv, <1>1, <1>3, <3>2, <3>3, LoadStays
  <2>4. CASE t.comp.name \notin Volatile /\ t.comp.max # 1
    <3>1. /\ r.res = "success" => /\ off' = r.off /\ ctxt' = Append(ctxt, Context("ARRAY", TRUE))
                                  /\ todo' = <<i>> \o <<a>> \o u /\ LoadFrame /\ UNCHANGED ram
          /\ r.res = "not found" => todo' = u /\ LoadFrame /\ UNCHANGED <<off, ctxt, ram>>
          /\ r.res = "incoherent" => Fail(r.off, "failed")
      BY <1>1, <2>4
    <3>2. Comp1(saved, schema, t, Last(fr), u)
      BY ONLY <1>1, <1>2, <1>3, <2>1, LiveComp
    <3>3. /\ Sought(schema, Last(fr), t.comp) /\ t.comp \in Known /\ t.path \in Seq(Steps) /\ u \in Seq(Jobs)
      BY <3>2 DEF Comp1
    <3>4. Entered(lab, Last(fr), t.comp, "ARRAY", r)
      <4>1. "ARRAY" \in {"OBJECT", "ARRAY"}
        OBVIOUS
      <4> QED BY <1>2, <1>3, <2>1, <3>3, <4>1, CompositeMet
    <3>5. CASE r.res = "success"
      <4>1. PICK o \in 1 .. Past : Met(lab, Last(fr), t.comp, lab[off].idx, o) /\ Is(o, Opener["ARRAY"]) /\ r.off = o + 1
        BY <3>4, <3>5 DEF Entered
      <4>2. Is(o, "[")
        BY <4>1, BracketsAre
      <4> DEFINE c2 == Append(ctxt, Context("ARRAY", TRUE))
                 s == <<i>> \o (<<a>> \o u)
                 k == lab[off].idx
      <4>3. c2 = Append(ctxt, Context("ARRAY", TRUE)) /\ s = <<i>> \o (<<a>> \o u) /\ k = lab[off].idx
        OBVIOUS
      <4>4. ctxt' = c2 /\ off' = o + 1 /\ LoadFrame /\ UNCHANGED ram
        BY <3>1, <3>5, <4>1
      <4>5. todo' = s
        <5>1. <<i>> \in Seq(Jobs) /\ <<a>> \in Seq(Jobs)
          <6>1. i \in Jobs /\ a \in Jobs
            BY <1>3, <3>3 DEF Task, Jobs
          <6> QED BY <6>1
        <5>2. <<i>> \o (<<a>> \o u) = (<<i>> \o <<a>>) \o u
          BY <3>3, <5>1, JoinAssoc
        <5> QED BY <3>1, <3>5, <5>2
      <4> HIDE DEF c2, s, k
      <4>6. Loads(saved, schema, c2, o + 1, s)
        <5>1. Met(lab, Last(fr), t.comp, k, o)
          BY <4>1, <4>3
        <5> QED BY ONLY <1>1, <1>2, <1>3, <2>1, <2>4, <4>2, <4>3, <5>1, LoadsArray
      <4>7. Loads(saved, schema, ctxt', off', todo')
        BY ONLY <4>4, <4>5, <4>6
      <4>8. ~crashed /\ Packed => Loaded(saved, schema, ram')
        BY ONLY <1>2, <4>4
      <4> QED BY ONLY StoreInv, <1>1, <1>3, <4>4, <4>7, <4>8, LoadGoes
    <3>6. CASE r.res = "not found"
      <4>1. Loads(saved, schema, ctxt, off, u)
        BY ONLY <1>1, <1>2, <1>3, <2>1, LoadsSkip
      <4> QED BY <1>1, <1>3, <3>1, <3>6, <4>1, LoadStays
    <3>7. CASE r.res = "incoherent"
      <4>1. r.off \in 1 .. Past
        BY <3>4, <3>7 DEF Entered
      <4>2. Fail(r.off, "failed")
        BY <3>1, <3>7
      <4> QED BY <1>1, <4>1, <4>2, LoadFails
    <3> QED BY <3>4, <3>5, <3>6, <3>7 DEF Entered
  <2> QED BY <2>2, <2>3, <2>4
<1> QED BY <1>2, <1>4, <1>5, <1>6

LEMMA CloseLoads ==
  ASSUME StoreInv, NEW type \in {"OBJECT", "ARRAY"}, phase = "load", todo # <<>>, Head(todo).do = type,
         Is(off, Closer[type]), off' = off + 1, ctxt' = NotFirst(Front(ctxt)), todo' = Tail(todo), LoadFrame, UNCHANGED ram
  PROVE  StoreInv'
<1> DEFINE t == Head(todo)
           u == Tail(todo)
           schema == Running(upgraded)
           c2 == NotFirst(Front(ctxt))
<1>1. /\ schema \in {Schema, NewSchema} /\ (~crashed /\ Packed => Loaded(saved, schema, ram))
      /\ \/ Loads(saved, schema, ctxt, off, todo)
         \/ Stuck(file, crashed, ctxt, off)
         \/ Bare(file, crashed, off, todo)
  BY LoadSays
<1>2. t = Head(todo) /\ u = Tail(todo) /\ schema = Running(upgraded) /\ c2 = NotFirst(Front(ctxt)) /\ t.do = type
  OBVIOUS
<1>3. ctxt' = c2 /\ todo' = u
  OBVIOUS
<1> HIDE DEF t, u, schema, c2
<1>4. ~Stuck(file, crashed, ctxt, off)
  BY StuckFinds
<1>5. ~Bare(file, crashed, off, todo)
  BY <1>2, BareFinds
<1>6. PICK lab, w, fr : Live(saved, schema, lab, w, fr, ctxt, off, todo)
  BY <1>1, <1>4, <1>5 DEF Loads
<1>7. Loads(saved, schema, c2, off + 1, u)
  BY ONLY type \in {"OBJECT", "ARRAY"}, todo # <<>>, Is(off, Closer[type]), <1>1, <1>2, <1>6, LoadsClose
<1>8. off' = off + 1
  OBVIOUS
<1>9. Loads(saved, schema, ctxt', off', todo')
  BY ONLY <1>3, <1>7, <1>8
<1>10. ~crashed /\ Packed => Loaded(saved, schema, ram')
  BY ONLY <1>1, ram' = ram
<1> QED BY ONLY StoreInv, phase = "load", LoadFrame, <1>2, <1>9, <1>10, LoadGoes

LEMMA ObjectEndLoads ==
  ASSUME StoreInv, LoadObjectEnd
  PROVE  StoreInv'
<1>1. phase = "load" /\ todo # <<>> /\ Head(todo).do = "OBJECT"
  BY DEF LoadObjectEnd, Loading
<1>2. "OBJECT" \in {"OBJECT", "ARRAY"} /\ Closer["OBJECT"] = "}"
  BY BracketsAre
<1>3. CASE Is(off, "}")
  <2>1. off' = off + 1 /\ ctxt' = NotFirst(Front(ctxt)) /\ todo' = Tail(todo) /\ LoadFrame /\ UNCHANGED ram
    BY <1>3 DEF LoadObjectEnd, Rest
  <2>2. Is(off, Closer["OBJECT"])
    BY <1>2, <1>3
  <2> QED BY <1>1, <1>2, <2>1, <2>2, CloseLoads
<1>4. CASE ~Is(off, "}")
  <2>1. Fail(off, "failed")
    BY <1>4 DEF LoadObjectEnd
  <2>2. off \in 1 .. Past
    BY <1>1, LoadSays
  <2> QED BY <1>1, <2>1, <2>2, LoadFails
<1> QED BY <1>3, <1>4

LEMMA ArrayEndLoads ==
  ASSUME StoreInv, LoadArrayEnd
  PROVE  StoreInv'
<1>1. phase = "load" /\ todo # <<>> /\ Head(todo).do = "ARRAY"
  BY DEF LoadArrayEnd, Loading
<1>2. "ARRAY" \in {"OBJECT", "ARRAY"} /\ Closer["ARRAY"] = "]"
  BY BracketsAre
<1>3. CASE Is(off, "]")
  <2>1. off' = off + 1 /\ ctxt' = NotFirst(Front(ctxt)) /\ todo' = Tail(todo) /\ LoadFrame /\ UNCHANGED ram
    BY <1>3 DEF LoadArrayEnd, Rest
  <2>2. Is(off, Closer["ARRAY"])
    BY <1>2, <1>3
  <2> QED BY <1>1, <1>2, <2>1, <2>2, CloseLoads
<1>4. CASE ~Is(off, "]")
  <2>1. LoadFrame /\ UNCHANGED <<off, ctxt>>
    BY <1>4 DEF LoadArrayEnd
  <2>2. /\ Running(upgraded) \in {Schema, NewSchema}
        /\ \/ Loads(saved, Running(upgraded), ctxt, off, todo)
           \/ Stuck(file, crashed, ctxt, off)
           \/ Bare(file, crashed, off, todo)
    BY <1>1, LoadSays
  <2>3. ~Bare(file, crashed, off, todo)
    BY <1>1, BareFinds
  <2>4. ASSUME Loads(saved, Running(upgraded), ctxt, off, todo) PROVE Stuck(file, crashed, ctxt, off)
    <3>1. PICK lab, w, fr : Live(saved, Running(upgraded), lab, w, fr, ctxt, off, todo)
      BY <2>4 DEF Loads
    <3> DEFINE t == Head(todo)
    <3>2. t = Head(todo) /\ t.do = "ARRAY"
      BY <1>1
    <3> HIDE DEF t
    <3>3. Dead(ctxt, off)
      BY ONLY <1>1, <1>4, <2>2, <3>1, <3>2, LoadsDie
    <3> QED BY <3>3 DEF Dead, Stuck, Past
  <2> QED BY <1>1, <2>1, <2>2, <2>3, <2>4, StuckGoes
<1> QED BY <1>3, <1>4

LEMMA EndLoads ==
  ASSUME StoreInv, LoadEnd
  PROVE  StoreInv'
<1>1. /\ phase = "load" /\ phase' = "loaded" /\ open' = (IF Is(off, "}") THEN open - 1 ELSE open)
      /\ UNCHANGED <<saved, upgraded, file, off, ctxt, todo, ram, crashed>>
  BY DEF LoadEnd
<1>2. /\ Typed /\ open \in 0 .. MaxOpen /\ MaxOpen \in Nat /\ open >= 1 /\ (saved # Nothing => Holds(saved, file, crashed))
  BY <1>1, DepthAssumption DEF StoreInv, Typed, Busy, FileInv
<1>3. open' \in 0 .. MaxOpen
  <2>1. open - 1 \in 0 .. MaxOpen
    BY ONLY <1>2
  <2> QED BY <1>1, <1>2, <2>1
<1>4. Typed'
  BY <1>1, <1>2, <1>3 DEF Typed, Phases
<1>5. Busy' /\ SaveInv' /\ FileInv' /\ LoadInv' /\ RamInv'
  BY <1>1, <1>2 DEF Busy, SaveInv, FileInv, LoadInv, RamInv
<1> QED BY <1>4, <1>5 DEF StoreInv

LEMMA StuckRests ==
  ASSUME StoreInv, phase = "load", Stuck(file, crashed, ctxt, off)
  PROVE  \A c, type : FindComposite(c, type).off \in 1 .. Past
<1>1. ~Top.first /\ ~Is(off, ",") /\ off \in 1 .. Past
  BY StuckFinds, LoadSays DEF Stuck, Top
<1>2. \A c : FindMember(c) = Result("not found", off)
  BY <1>1 DEF FindMember, Result
<1>3. Result("not found", off).res = "not found" /\ Result("not found", off).off = off
  BY ResultIs
<1>4. \A c, type : FindComposite(c, type) = Result("not found", off)
  BY <1>2, <1>3 DEF FindComposite
<1> QED BY <1>1, <1>3, <1>4

(* The lists that a composite item's tasks are made of. *)
LEMMA LoadLists ==
  ASSUME NEW S, NEW schema \in {Schema, NewSchema}, NEW lab, NEW w, NEW fr, NEW ctx, NEW o, NEW s,
         Live(S, schema, lab, w, fr, ctx, o, s), s # <<>>,
         NEW t, t = Head(s), t.do = "item", t.comp.desc # Simple
  PROVE  Components(schema, t.comp, PathOf(t)) \in Seq(Jobs) /\ NextItem(t) \in Seq(Jobs) /\ Tail(s) \in Seq(Jobs)
<1> DEFINE f == Last(fr)
<1>1. f = Last(fr)
  OBVIOUS
<1> HIDE DEF f
<1>2. Tracked(LoadJob(S, schema), s, f)
  BY <1>1, LiveIs
<1>3. Tail(s) \in Seq(Jobs)
  BY <1>2, TrackedHead
<1>4. Next1(S, schema, t, f, lab[o])
  BY ONLY schema \in {Schema, NewSchema}, Live(S, schema, lab, w, fr, ctx, o, s), s # <<>>, t = Head(s), t.do = "item", <1>1, LiveItem
<1>5. /\ t \in Jobs /\ t.comp \in Known /\ t.path \in Seq(Steps) /\ t.idx \in Nat /\ t.comp.desc \in DOMAIN schema
      /\ f.of # "file" => t.comp # Base
      /\ f.of = "file" => t.comp = Base /\ t.path = <<>>
  BY <1>4 DEF Next1
<1>6. NextItem(t) \in Seq(Jobs)
  <2>1. Task("item", t.comp, t.path, t.idx + 1) \in Jobs
    BY <1>5 DEF Task, Jobs
  <2>2. <<Task("item", t.comp, t.path, t.idx + 1)>> \in Seq(Jobs) /\ <<>> \in Seq(Jobs)
    BY <2>1, EmptySeq
  <2> QED BY <2>2 DEF NextItem
<1>7. PathOf(t) \in Seq(Steps)
  <2>1. CASE f.of = "file"
    BY <1>5, <2>1, EmptySeq DEF PathOf
  <2>2. CASE f.of # "file"
    BY <1>5, <2>2, BelowIs DEF PathOf
  <2> QED BY <2>1, <2>2
<1>8. Components(schema, t.comp, PathOf(t)) \in Seq(Jobs)
  BY <1>5, <1>7, PartJobs
<1> QED BY <1>3, <1>6, <1>8

LEMMA SimpleLoads ==
  ASSUME Apart, StoreInv, LoadSimple
  PROVE  StoreInv'
<1> DEFINE t == Head(todo)
           u == Tail(todo)
           schema == Running(upgraded)
           r == FindMember(t.comp)
           q == PathOf(t)
           c2 == NotFirst(ctxt)
           s == NextItem(t) \o u
<1>1. /\ phase = "load" /\ todo # <<>> /\ t.do = "item" /\ t.comp.desc = Simple
      /\ r.res = "success" =>
           /\ off' = Step(r.off) /\ ctxt' = c2 /\ todo' = s /\ LoadFrame
           /\ Is(r.off, "value") => ram' = Put(ram, q, file[r.off].val)
      /\ r.res = "not found" => todo' = u /\ LoadFrame /\ UNCHANGED <<off, ctxt, ram>>
      /\ r.res = "incoherent" => Fail(r.off, "failed")
  BY DEF LoadSimple, Loading, Rest
<1>2. /\ schema \in {Schema, NewSchema} /\ (~crashed /\ Packed => Loaded(saved, schema, ram))
      /\ ctxt \in Seq(Stacked) /\ ctxt # <<>> /\ Len(ctxt) \in 1 .. StackDepth
      /\ Len(file) \in Nat /\ Past = Len(file) + 1
      /\ \/ Loads(saved, schema, ctxt, off, todo)
         \/ Stuck(file, crashed, ctxt, off)
         \/ Bare(file, crashed, off, todo)
  BY <1>1, LoadSays
<1>3. /\ t = Head(todo) /\ u = Tail(todo) /\ schema = Running(upgraded) /\ r = FindMember(t.comp)
      /\ q = PathOf(t) /\ c2 = NotFirst(ctxt) /\ s = NextItem(t) \o u
  OBVIOUS
<1> HIDE DEF t, u, schema, r, q, c2, s
<1>4. CASE Stuck(file, crashed, ctxt, off)
  <2>1. r.res = "not found"
    BY <1>1, <1>3, <1>4, StuckFinds
  <2>2. LoadFrame /\ UNCHANGED <<off, ctxt>>
    BY <1>1, <2>1
  <2> QED BY <1>1, <1>4, <2>2, StuckGoes
<1>5. CASE Bare(file, crashed, off, todo)
  BY <1>1, <1>3, <1>5, BareFinds
<1>6. CASE Loads(saved, schema, ctxt, off, todo)
  <2>1. PICK lab, w, fr : Live(saved, schema, lab, w, fr, ctxt, off, todo)
    BY <1>6 DEF Loads
  <2>2. Wrote(saved, lab, w)
    BY <2>1 DEF Live
  <2>3. Next1(saved, schema, t, Last(fr), lab[off])
    BY ONLY <1>1, <1>2, <1>3, <2>1, LiveItem
  <2>4. Sought(schema, Last(fr), t.comp)
    BY <2>3 DEF Next1
  <2>5. Meets1(lab, Last(fr), t.comp, r)
    BY <1>2, <1>3, <2>1, <2>4, MemberMet
  <2>6. CASE r.res = "success"
    <3> DEFINE o == r.off
               k == lab[off].idx
    <3>1. o = r.off /\ k = lab[off].idx
      OBVIOUS
    <3>2. Met(lab, Last(fr), t.comp, k, o) /\ o \in 1 .. Past
      BY <2>5, <2>6 DEF Meets1, Met
    <3>3. /\ off' = Step(o) /\ ctxt' = c2 /\ todo' = s /\ LoadFrame
          /\ Is(o, "value") => ram' = Put(ram, q, file[o].val)
      BY <1>1, <2>6, <3>1
    <3> HIDE DEF o, k
    <3>4. CASE o = Past
      <4>1. crashed
        <5>1. Met(lab, Last(fr), t.comp, k, Past)
          BY <3>2, <3>4
        <5> QED BY <2>2, <5>1, LoadsPast
      <4>2. off' = Len(file) + 1
        BY <1>2, <3>2, <3>3, <3>4, StepIs
      <4>3. ctxt' \in Seq(Stacked) /\ Len(ctxt') \in 1 .. StackDepth /\ ~Last(ctxt').first
        <5>1. c2 \in Seq(Stacked) /\ Len(c2) = Len(ctxt) /\ Last(c2).first = FALSE
          BY ONLY <1>2, <1>3, NotFirstIs
        <5>2. Len(c2) \in 1 .. StackDepth
          BY <1>2, <5>1
        <5> QED BY <3>3, <5>1, <5>2
      <4>4. Stuck(file, crashed, ctxt', off')
        BY <4>1, <4>2, <4>3 DEF Stuck
      <4> QED BY ONLY StoreInv, <1>1, <3>3, <4>1, <4>3, <4>4, LoadGoes
    <3>5. CASE o # Past
      <4>1. off' = o + 1
        BY <1>2, <3>2, <3>3, <3>5, StepIs
      <4>2. SimpleRead(saved, schema, t, c2, o, s)
        <5>1. Met(lab, Last(fr), t.comp, lab[off].idx, o)
          BY <3>1, <3>2
        <5>2. s = NextItem(t) \o Tail(todo)
          BY <1>3
        <5> QED BY ONLY <1>1, <1>2, <1>3, <2>1, <3>5, <5>1, <5>2, LoadsSimple
      <4>3. Loads(saved, schema, c2, o + 1, s) /\ Is(o, "value")
            /\ (Packed => HitOne(saved, schema, q) /\ file[o].val = Value(q))
        BY <1>3, <4>2 DEF SimpleRead
      <4>4. Loads(saved, schema, ctxt', off', todo')
        BY ONLY <3>3, <4>1, <4>3
      <4>5. ASSUME ~crashed, Packed PROVE Loaded(saved, schema, ram')
        <5>1. Loaded(saved, schema, ram) /\ q \in Kept(saved) /\ Named(schema, q)
          BY <1>2, <4>3, <4>5 DEF HitOne
        <5> DEFINE x == ram'
                   y == file[o].val
        <5>2. x = Put(ram, q, y) /\ y = Value(q)
          BY <3>3, <4>3, <4>5
        <5> HIDE DEF x, y
        <5>3. Grown(saved, schema, ram, x, q)
          BY ONLY <5>1, <5>2, LoadedGrows
        <5> QED BY <5>3 DEF Grown, x
      <4> QED BY ONLY StoreInv, <1>1, <1>3, <3>3, <4>4, <4>5, LoadGoes
    <3> QED BY <3>4, <3>5
  <2>7. CASE r.res = "not found"
    <3>1. t.comp # Base
      BY <1>1, BaseIs
    <3>2. Loads(saved, schema, ctxt, off, u)
      BY ONLY <1>1, <1>2, <1>3, <2>1, <2>5, <2>7, <3>1, LoadsOver
    <3> QED BY <1>1, <1>3, <2>7, <3>2, LoadStays
  <2>8. CASE r.res = "incoherent"
    <3>1. r.off \in 1 .. Past
      <4>1. off \in 1 .. Past
        BY <1>1, LoadSays
      <4> QED BY <2>5, <2>8, <4>1 DEF Meets1
    <3>2. Fail(r.off, "failed")
      BY <1>1, <2>8
    <3> QED BY <1>1, <3>1, <3>2, LoadFails
  <2> QED BY <2>5, <2>6, <2>7, <2>8 DEF Meets1
<1> QED BY <1>2, <1>4, <1>5, <1>6

LEMMA CompositeLoads ==
  ASSUME Apart, StoreInv, LoadComposite
  PROVE  StoreInv'
<1> DEFINE t == Head(todo)
           u == Tail(todo)
           schema == Running(upgraded)
           r == FindComposite(t.comp, "OBJECT")
           q == PathOf(t)
           c2 == Append(ctxt, Context("OBJECT", TRUE))
           ob == Task("OBJECT", t.comp, t.path, 0)
           C == Components(schema, t.comp, q)
           N == NextItem(t)
<1>1. /\ phase = "load" /\ todo # <<>> /\ t.do = "item" /\ t.comp.desc # Simple
      /\ r.res = "success" =>
           /\ off' = r.off /\ ctxt' = c2 /\ todo' = C \o <<ob>> \o N \o u /\ LoadFrame /\ ram' = Put(ram, q, Group)
      /\ r.res = "not found" /\ t.comp # Base => todo' = u /\ LoadFrame /\ UNCHANGED <<off, ctxt, ram>>
      /\ r.res = "not found" /\ t.comp = Base => Fail(r.off, "failed")
      /\ r.res = "incoherent" => Fail(r.off, "failed")
  BY DEF LoadComposite, Loading, Rest
<1>2. /\ schema \in {Schema, NewSchema} /\ (~crashed /\ Packed => Loaded(saved, schema, ram))
      /\ off \in 1 .. Past
      /\ \/ Loads(saved, schema, ctxt, off, todo)
         \/ Stuck(file, crashed, ctxt, off)
         \/ Bare(file, crashed, off, todo)
  BY <1>1, LoadSays
<1>3. /\ t = Head(todo) /\ u = Tail(todo) /\ schema = Running(upgraded) /\ r = FindComposite(t.comp, "OBJECT")
      /\ q = PathOf(t) /\ c2 = Append(ctxt, Context("OBJECT", TRUE)) /\ ob = Task("OBJECT", t.comp, t.path, 0)
      /\ C = Components(schema, t.comp, q) /\ N = NextItem(t)
  OBVIOUS
<1> HIDE DEF t, u, schema, r, q, c2, ob, C, N
<1>4. CASE Stuck(file, crashed, ctxt, off)
  <2>1. r.res = "not found"
    BY <1>1, <1>3, <1>4, StuckFinds
  <2>2. CASE t.comp # Base
    <3>1. LoadFrame /\ UNCHANGED <<off, ctxt>>
      BY <1>1, <2>1, <2>2
    <3> QED BY <1>1, <1>4, <3>1, StuckGoes
  <2>3. CASE t.comp = Base
    <3>1. Fail(r.off, "failed")
      BY <1>1, <2>1, <2>3
    <3>2. r.off \in 1 .. Past
      BY <1>1, <1>2, <1>3, <1>4, StuckRests
    <3> QED BY <1>1, <3>1, <3>2, LoadFails
  <2> QED BY <2>2, <2>3
<1>5. CASE Bare(file, crashed, off, todo)
  <2>1. t.comp = Base /\ r.res \in {"not found", "incoherent"} /\ r.off \in 1 .. Past
    BY <1>1, <1>3, <1>5, BareFinds
  <2>2. Fail(r.off, "failed")
    BY <1>1, <2>1
  <2> QED BY <1>1, <2>1, <2>2, LoadFails
<1>6. CASE Loads(saved, schema, ctxt, off, todo)
  <2>1. PICK lab, w, fr : Live(saved, schema, lab, w, fr, ctxt, off, todo)
    BY <1>6 DEF Loads
  <2>2. Next1(saved, schema, t, Last(fr), lab[off])
    BY ONLY <1>1, <1>2, <1>3, <2>1, LiveItem
  <2>3. /\ Sought(schema, Last(fr), t.comp) /\ t \in Jobs /\ t.comp \in Known /\ t.path \in Seq(Steps) /\ t.idx \in Nat
        /\ t.comp.desc \in DOMAIN schema
    BY <1>1, <2>2 DEF Next1
  <2>4. Entered(lab, Last(fr), t.comp, "OBJECT", r)
    <3>1. "OBJECT" \in {"OBJECT", "ARRAY"}
      OBVIOUS
    <3> QED BY <1>2, <1>3, <2>1, <2>3, <3>1, CompositeMet
  <2>5. CASE r.res = "success"
    <3>1. PICK o \in 1 .. Past : Met(lab, Last(fr), t.comp, lab[off].idx, o) /\ Is(o, Opener["OBJECT"]) /\ r.off = o + 1
      BY <2>4, <2>5 DEF Entered
    <3>2. Is(o, "{")
      BY <3>1, BracketsAre
    <3> DEFINE v == N \o u
               s == C \o (<<ob>> \o v)
    <3>3. v = NextItem(t) \o Tail(todo) /\ s = Components(schema, t.comp, PathOf(t)) \o (<<ob>> \o v)
      BY <1>3
    <3>4. /\ off' = o + 1 /\ ctxt' = c2 /\ todo' = C \o <<ob>> \o N \o u /\ LoadFrame /\ ram' = Put(ram, q, Group)
      BY <1>1, <2>5, <3>1
    <3>5. todo' = s
      <4>1. <<ob>> \in Seq(Jobs)
        <5>1. ob \in Jobs
          BY <1>3, <2>3 DEF Task, Jobs
        <5> QED BY <5>1
      <4>2. C \in Seq(Jobs) /\ N \in Seq(Jobs) /\ u \in Seq(Jobs)
        BY <1>1, <1>2, <1>3, <2>1, <2>3, LoadLists
      <4>3. <<ob>> \o (N \o u) = (<<ob>> \o N) \o u /\ <<ob>> \o N \in Seq(Jobs)
        BY ONLY <4>1, <4>2, JoinAssoc, ConcatProperties
      <4>4. C \o ((<<ob>> \o N) \o u) = (C \o (<<ob>> \o N)) \o u
        BY ONLY <4>2, <4>3, JoinAssoc
      <4>5. C \o (<<ob>> \o N) = (C \o <<ob>>) \o N
        BY ONLY <4>1, <4>2, JoinAssoc
      <4> QED BY ONLY <3>4, <4>3, <4>4, <4>5 DEF s, v
    <3> HIDE DEF v, s
    <3>6. ItemRead(saved, schema, t, c2, o, s)
      BY ONLY <1>1, <1>2, <1>3, <2>1, <3>1, <3>2, <3>3, LoadsComposite
    <3>7. Loads(saved, schema, c2, o + 1, s) /\ (Packed => HitOne(saved, schema, q) /\ Value(q) = Group)
      BY <1>3, <3>6 DEF ItemRead
    <3>8. Loads(saved, schema, ctxt', off', todo')
      BY ONLY <3>4, <3>5, <3>7
    <3>9. ASSUME ~crashed, Packed PROVE Loaded(saved, schema, ram')
      <4>1. Loaded(saved, schema, ram) /\ q \in Kept(saved) /\ Named(schema, q)
        BY <1>2, <3>7, <3>9 DEF HitOne
      <4> DEFINE x == ram'
                 y == Group
      <4>2. x = Put(ram, q, y) /\ y = Value(q)
        BY <3>4, <3>7, <3>9
      <4> HIDE DEF x, y
      <4>3. Grown(saved, schema, ram, x, q)
        BY ONLY <4>1, <4>2, LoadedGrows
      <4> QED BY <4>3 DEF Grown, x
    <3> QED BY ONLY StoreInv, <1>1, <1>3, <3>4, <3>8, <3>9, LoadGoes
  <2>6. CASE r.res = "not found"
    <3>1. Meets1(lab, Last(fr), t.comp, r)
      BY <2>4, <2>6 DEF Entered
    <3>2. CASE t.comp # Base
      <4>1. Loads(saved, schema, ctxt, off, u)
        BY ONLY <1>1, <1>2, <1>3, <2>1, <2>6, <3>1, <3>2, LoadsOver
      <4> QED BY <1>1, <1>3, <2>6, <3>2, <4>1, LoadStays
    <3>3. CASE t.comp = Base
      <4>1. r.off \in 1 .. Past
        BY <1>2, <2>6, <3>1 DEF Meets1
      <4>2. Fail(r.off, "failed")
        BY <1>1, <2>6, <3>3
      <4> QED BY <1>1, <4>1, <4>2, LoadFails
    <3> QED BY <3>2, <3>3
  <2>7. CASE r.res = "incoherent"
    <3>1. r.off \in 1 .. Past
      BY <2>4, <2>7 DEF Entered
    <3>2. Fail(r.off, "failed")
      BY <1>1, <2>7
    <3> QED BY <1>1, <3>1, <3>2, LoadFails
  <2> QED BY <2>4, <2>5, <2>6, <2>7 DEF Entered
<1> QED BY <1>2, <1>4, <1>5, <1>6

LEMMA NoMemoryLoads ==
  ASSUME Apart, StoreInv, LoadNoMemory
  PROVE  StoreInv'
<1> DEFINE t == Head(todo)
           schema == Running(upgraded)
           m == FindMember(t.comp)
           r == FindComposite(t.comp, "OBJECT")
           x == IF t.comp.desc = Simple THEN m ELSE r
<1>1. phase = "load" /\ todo # <<>> /\ t.do = "item" /\ x.res = "success" /\ Fail(x.off, "starved")
  BY DEF LoadNoMemory, Loading
<1>2. /\ schema \in {Schema, NewSchema}
      /\ \/ Loads(saved, schema, ctxt, off, todo)
         \/ Stuck(file, crashed, ctxt, off)
         \/ Bare(file, crashed, off, todo)
  BY <1>1, LoadSays
<1>3. /\ t = Head(todo) /\ m = FindMember(t.comp) /\ r = FindComposite(t.comp, "OBJECT")
      /\ t.comp.desc = Simple => x = m
      /\ t.comp.desc # Simple => x = r
  OBVIOUS
<1> HIDE DEF t, schema, m, r, x
<1>4. ~Stuck(file, crashed, ctxt, off)
  BY <1>1, <1>3, StuckFinds
<1>5. ~Bare(file, crashed, off, todo)
  BY <1>1, <1>3, BareFinds
<1>6. PICK lab, w, fr : Live(saved, schema, lab, w, fr, ctxt, off, todo)
  BY <1>2, <1>4, <1>5 DEF Loads
<1>7. Next1(saved, schema, t, Last(fr), lab[off])
  BY ONLY <1>1, <1>2, <1>3, <1>6, LiveItem
<1>8. Sought(schema, Last(fr), t.comp)
  BY <1>7 DEF Next1
<1>9. x.off \in 1 .. Past
  <2>1. CASE t.comp.desc = Simple
    <3>1. Meets1(lab, Last(fr), t.comp, m)
      BY <1>2, <1>3, <1>6, <1>8, MemberMet
    <3> QED BY <1>1, <1>3, <2>1, <3>1 DEF Meets1, Met
  <2>2. CASE t.comp.desc # Simple
    <3>1. "OBJECT" \in {"OBJECT", "ARRAY"}
      OBVIOUS
    <3>2. Entered(lab, Last(fr), t.comp, "OBJECT", r)
      BY <1>2, <1>3, <1>6, <1>8, <3>1, CompositeMet
    <3> QED BY <1>1, <1>3, <2>2, <3>2 DEF Entered
  <2> QED BY <2>1, <2>2
<1> QED BY <1>1, <1>9, LoadFails

-----------------------------------------------------------------------------
(* Every step keeps the invariant. *)
LEMMA StoreSteps ==
  ASSUME Apart, StoreInv, [Next]_vars
  PROVE  StoreInv'
<1>1. ASSUME UNCHANGED vars PROVE StoreInv'
  <2>1. UNCHANGED <<saved, phase, upgraded, file, off, ctxt, todo, ram, open, crashed>>
    BY <1>1 DEF vars
  <2> QED BY <2>1 DEF StoreInv, Typed, Busy, SaveInv, FileInv, LoadInv, RamInv
<1>2. ASSUME SaveStart PROVE StoreInv'
  BY <1>2, StartSaves
<1>3. ASSUME SaveStep PROVE StoreInv'
  BY <1>3, AggrSaves, SimpleSaves, CompositeSaves, EndSaves, CloseSaves DEF SaveStep
<1>4. ASSUME LoadStart PROVE StoreInv'
  BY <1>4, StartLoads
<1>5. ASSUME LoadUnopened PROVE StoreInv'
  BY <1>5, UnopenedKeeps
<1>6. ASSUME LoadStep PROVE StoreInv'
  BY <1>6, AggrLoads, SimpleLoads, CompositeLoads, NoMemoryLoads, ObjectEndLoads, ArrayEndLoads, EndLoads DEF LoadStep
<1>7. ASSUME Crash PROVE StoreInv'
  BY <1>7, CrashKeeps
<1> QED BY <1>1, <1>2, <1>3, <1>4, <1>5, <1>6, <1>7 DEF Next

LEMMA StoreAlways ==
  ASSUME Apart
  PROVE  Spec => []StoreInv
<1>1. Init => StoreInv
  BY StoreInit
<1>2. StoreInv /\ [Next]_vars => StoreInv'
  BY StoreSteps
<1> QED BY <1>1, <1>2, PTL DEF Spec

(* Whatever is saved, and wherever the device stops, the loader never has  *)
(* an offset outside the file: the search for a name, the skip of a value  *)
(* behind it and the steps over tokens stay in it.  Neither the writer nor *)
(* the loader pushes more contexts than the stack has room for, in a build *)
(* that does not look, nor pops the last one.                              *)
THEOREM JsonTyped ==
  ASSUME Apart
  PROVE  Spec => []TypeOK
<1>1. StoreInv => TypeOK
  <2> SUFFICES ASSUME StoreInv PROVE TypeOK
    OBVIOUS
  <2>1. Typed
    BY DEF StoreInv
  <2>2. off \in 1 .. Past
    BY <2>1 DEF Typed, Past
  <2>3. \A i \in DOMAIN ctxt : ctxt[i] \in [type : DOMAIN Opener, first : BOOLEAN]
    <3>1. \A i \in DOMAIN ctxt : ctxt[i] \in Stacked
      BY <2>1 DEF Typed
    <3>2. DOMAIN Opener = {"OBJECT", "ARRAY"}
      BY DEF Opener
    <3> QED BY <3>1, <3>2 DEF Stacked
  <2> QED BY <2>1, <2>2, <2>3 DEF Typed, TypeOK
<1> QED BY <1>1, StoreAlways, PTL

(* While a whole save is loaded, every item in memory is one that was      *)
(* saved, with the value it was saved with: a name that the search finds   *)
(* is that of the component it looks for and not of one in another item,   *)
(* also with a newer schema.                                               *)
THEOREM JsonLoadsSaved ==
  ASSUME Apart, Packed
  PROVE  Spec => []OnlySaved
<1>1. StoreInv => OnlySaved
  <2> SUFFICES ASSUME StoreInv, phase = "load", ~crashed, NEW p \in DOMAIN ram \ {<<>>}
               PROVE  p \in DOMAIN Owed[saved][upgraded] /\ ram[p] = Owed[saved][upgraded][p]
    BY DEF OnlySaved
  <2> DEFINE schema == Running(upgraded)
  <2>1. saved \in Configs /\ upgraded \in BOOLEAN /\ Loaded(saved, schema, ram)
    BY LoadSays
  <2>2. p \in DOMAIN ram /\ p # <<>>
    OBVIOUS
  <2>3. schema = Running(upgraded)
    OBVIOUS
  <2> HIDE DEF schema
  <2> QED BY ONLY <2>1, <2>2, <2>3, OnlyLoaded
<1> QED BY <1>1, StoreAlways, PTL

(* A step of a load is done with the frame it keeps, or the load fails. *)
Outcomes == {"success", "not found", "incoherent"}

LEMMA Finds ==
  ASSUME Apart, StoreInv, phase = "load", todo # <<>>, NEW t, t = Head(todo), t.do \in {"aggr", "item"}
  PROVE  /\ t.comp.desc = Simple => FindMember(t.comp).res \in Outcomes
         /\ \A type \in {"OBJECT", "ARRAY"} : FindComposite(t.comp, type).res \in Outcomes
<1> DEFINE schema == Running(upgraded)
<1>1. /\ schema \in {Schema, NewSchema}
      /\ \/ Loads(saved, schema, ctxt, off, todo)
         \/ Stuck(file, crashed, ctxt, off)
         \/ Bare(file, crashed, off, todo)
  BY LoadSays
<1> HIDE DEF schema
<1>2. CASE Stuck(file, crashed, ctxt, off)
  BY <1>2, StuckFinds DEF Outcomes
<1>3. CASE Bare(file, crashed, off, todo)
  <2>1. t.comp = Base /\ Base.desc # Simple /\ \A type : FindComposite(Base, type).res \in {"not found", "incoherent"}
    BY <1>3, BareFinds
  <2> QED BY <2>1 DEF Outcomes
<1>4. CASE Loads(saved, schema, ctxt, off, todo)
  <2>1. PICK lab, w, fr : Live(saved, schema, lab, w, fr, ctxt, off, todo)
    BY <1>4 DEF Loads
  <2> DEFINE f == Last(fr)
             u == Tail(todo)
  <2>2. f = Last(fr) /\ u = Tail(todo) /\ todo # <<>> /\ t = Head(todo)
    OBVIOUS
  <2> HIDE DEF f, u
  <2>3. Sought(schema, f, t.comp)
    <3>1. CASE t.do = "aggr"
      <4>1. Comp1(saved, schema, t, f, u)
        BY ONLY <1>1, <2>1, <2>2, <3>1, LiveComp
      <4> QED BY <4>1 DEF Comp1
    <3>2. CASE t.do = "item"
      <4>1. Next1(saved, schema, t, f, lab[off])
        BY ONLY <1>1, <2>1, <2>2, <3>2, LiveItem
      <4> QED BY <4>1 DEF Next1
    <3> QED BY <3>1, <3>2
  <2>4. Meets1(lab, f, t.comp, FindMember(t.comp))
    BY <1>1, <2>1, <2>2, <2>3, MemberMet
  <2>5. \A type \in {"OBJECT", "ARRAY"} : Entered(lab, f, t.comp, type, FindComposite(t.comp, type))
    BY <1>1, <2>1, <2>2, <2>3, CompositeMet
  <2> QED BY <2>4, <2>5 DEF Meets1, Entered, Outcomes
<1> QED BY <1>1, <1>2, <1>3, <1>4

Proceeds == LoadFrame \/ \E o, outcome : Fail(o, outcome) /\ outcome # "loaded"

LEMMA FailProceeds ==
  ASSUME NEW o, NEW outcome \in {"failed", "starved"}, Fail(o, outcome)
  PROVE  Proceeds
BY DEF Proceeds

LEMMA LoadProceeds ==
  ASSUME Apart, StoreInv, LoadAggr \/ LoadSimple \/ LoadComposite \/ LoadNoMemory \/ LoadObjectEnd \/ LoadArrayEnd
  PROVE  Proceeds
<1>1. CASE LoadAggr
  <2>1. phase = "load" /\ todo # <<>> /\ Head(todo).do = "aggr"
    BY <1>1 DEF LoadAggr, Loading
  <2>2. FindComposite(Head(todo).comp, "ARRAY").res \in Outcomes
    BY <2>1, Finds
  <2> DEFINE r == FindComposite(Head(todo).comp, "ARRAY")
  <2>3. r.res \in Outcomes
    BY <2>2
  <2>4. LoadFrame \/ Fail(r.off, "failed")
    <3>1. CASE r.res = "success"
      BY <1>1, <3>1 DEF LoadAggr
    <3>2. CASE r.res = "not found"
      BY <1>1, <3>2 DEF LoadAggr
    <3>3. CASE r.res = "incoherent"
      BY <1>1, <3>3 DEF LoadAggr
    <3> QED BY <2>3, <3>1, <3>2, <3>3 DEF Outcomes
  <2> HIDE DEF r
  <2> QED BY <2>4, FailProceeds DEF Proceeds
<1>2. CASE LoadSimple
  <2>1. phase = "load" /\ todo # <<>> /\ Head(todo).do = "item" /\ Head(todo).comp.desc = Simple
    BY <1>2 DEF LoadSimple, Loading
  <2>2. FindMember(Head(todo).comp).res \in Outcomes
    BY <2>1, Finds
  <2> DEFINE r == FindMember(Head(todo).comp)
  <2>3. r.res \in Outcomes
    BY <2>2
  <2>4. LoadFrame \/ Fail(r.off, "failed")
    <3>1. CASE r.res = "success"
      BY <1>2, <3>1 DEF LoadSimple
    <3>2. CASE r.res = "not found"
      BY <1>2, <3>2 DEF LoadSimple
    <3>3. CASE r.res = "incoherent"
      BY <1>2, <3>3 DEF LoadSimple
    <3> QED BY <2>3, <3>1, <3>2, <3>3 DEF Outcomes
  <2> HIDE DEF r
  <2> QED BY <2>4, FailProceeds DEF Proceeds
<1>3. CASE LoadComposite
  <2>1. phase = "load" /\ todo # <<>> /\ Head(todo).do = "item"
    BY <1>3 DEF LoadComposite, Loading
  <2>2. FindComposite(Head(todo).comp, "OBJECT").res \in Outcomes
    BY <2>1, Finds
  <2> DEFINE r == FindComposite(Head(todo).comp, "OBJECT")
  <2>3. r.res \in Outcomes
    BY <2>2
  <2>4. LoadFrame \/ Fail(r.off, "failed")
    <3>1. CASE r.res = "success"
      BY <1>3, <3>1 DEF LoadComposite
    <3>2. CASE r.res = "not found"
      BY <1>3, <3>2 DEF LoadComposite
    <3>3. CASE r.res = "incoherent"
      BY <1>3, <3>3 DEF LoadComposite
    <3> QED BY <2>3, <3>1, <3>2, <3>3 DEF Outcomes
  <2> HIDE DEF r
  <2> QED BY <2>4, FailProceeds DEF Proceeds
<1>4. CASE LoadNoMemory
  BY <1>4 DEF LoadNoMemory, Proceeds
<1>5. CASE LoadObjectEnd
  <2>1. LoadFrame \/ Fail(off, "failed")
    BY <1>5 DEF LoadObjectEnd
  <2> QED BY <2>1, FailProceeds DEF Proceeds
<1>6. CASE LoadArrayEnd
  BY <1>6 DEF LoadArrayEnd, Proceeds
<1> QED BY <1>1, <1>2, <1>3, <1>4, <1>5, <1>6

(* A load of a whole save that does not fail ends at the last '}', with    *)
(* the contexts that were pushed popped, and so closes the file: an array  *)
(* whose end was not looked for, or a context that was left, comes only of *)
(* a save that was cut short.                                              *)
THEOREM JsonLoadCloses ==
  ASSUME Apart
  PROVE  Spec => LoadCloses
<1>1. StoreInv /\ [Next]_vars => [phase = "load" /\ phase' = "loaded" /\ ~crashed => open' = open - 1 /\ Len(ctxt) = 1]_vars
  <2> SUFFICES ASSUME StoreInv, Next, phase = "load", phase' = "loaded", ~crashed
               PROVE  open' = open - 1 /\ Len(ctxt) = 1
    OBVIOUS
  <2>1. LoadEnd
    <3>1. ~SaveStart /\ ~LoadStart /\ ~LoadUnopened /\ ~Crash
      BY DEF SaveStart, LoadStart, LoadUnopened, Crash
    <3>2. ~SaveStep
      BY DEF SaveStep, SaveAggr, SaveSimple, SaveComposite, SaveEnd, SaveClose, Saving
    <3>3. ~Proceeds
      BY DEF Proceeds, LoadFrame, Fail
    <3> QED BY <3>1, <3>2, <3>3, LoadProceeds DEF Next, LoadStep
  <2>2. open' = IF Is(off, "}") THEN open - 1 ELSE open
    BY <2>1 DEF LoadEnd
  <2>3. todo = <<>>
    BY <2>1 DEF LoadEnd
  <2>4. /\ Running(upgraded) \in {Schema, NewSchema}
        /\ \/ Loads(saved, Running(upgraded), ctxt, off, todo)
           \/ Stuck(file, crashed, ctxt, off)
           \/ Bare(file, crashed, off, todo)
    BY LoadSays
  <2>5. Loads(saved, Running(upgraded), ctxt, off, todo)
    BY <2>4 DEF Stuck, Bare
  <2>6. Is(off, "}") /\ Len(ctxt) = 1
    BY <2>3, <2>4, <2>5, LoadsEnd
  <2> QED BY <2>2, <2>6
<1> QED BY <1>1, StoreAlways, PTL DEF Spec, LoadCloses
=============================================================================
