------------------------ MODULE IdAssignment_proofs ------------------------
(***************************************************************************)
(* Identifiers are given once, in every tree of items and every history of *)
(* schemas.  What has to be kept besides the ID file's own consistency is  *)
(* what becomes of an identifier that devices use: it is in the file, or   *)
(* it was lost with a composite above it that is no longer in the schema,  *)
(* is still in the file, and cannot be generated again.                    *)
(***************************************************************************)
EXTENDS IdAssignment, WellFoundedInduction, TLAPS

(* A set of numbers that is not empty has a smallest one. *)
LEMMA SmallestNumber ==
  ASSUME NEW M \in SUBSET Nat, M # {}
  PROVE  \E i \in M : \A j \in M : i <= j
<1> DEFINE R == OpToRel(<, Nat)
<1>1. PICK i \in M : \A j \in M : ~(<<j, i>> \in R)
  <2>1. IsWellFoundedOn(R, Nat)
    BY NatLessThanWellFounded
  <2> HIDE DEF R
  <2>2. QED BY <2>1, WFMin
<1>2. \A j \in M : ~(j < i)
  BY <1>1 DEF OpToRel
<1>3. QED BY <1>2

-----------------------------------------------------------------------------
USE BaseAssumption, ParentAssumption, TreeAssumption

(* A composite above x has lost its components in the ID file. *)
Lost(x) == \E a \in Above[x] \ {Base} : a \in Recorded /\ a \notin listed

Kept(x, i) == Lost(x) \/ (x \in Recorded /\ file[x] = i)

(* The schema and the file are trees down from the base. *)
Trees ==
  /\ Base \in Composite /\ Base \in listed
  /\ \A x \in Present : Above[x] \subseteq Composite
  /\ \A x \in Recorded : Above[x] \subseteq listed

Distinct ==
  \A x, y \in Recorded : Parent[x] = Parent[y] /\ file[x] = file[y] => x = y

(* A run that has written the code. *)
Saving ==
  pc = "saving" =>
    /\ ~KeyError
    /\ ids \in [New -> 0 .. MaxId] /\ FirstFree(ids)
    /\ code = [x \in Stored |-> IdOf(x, ids)]
    /\ ~complete

CodeRecorded ==
  complete => \A x \in DOMAIN code : x \in Recorded /\ file[x] = code[x]

AllKept == \A s \in shipped : Kept(s[1], s[2])

IInv ==
  /\ TypeOK /\ Trees /\ Distinct /\ Saving /\ CodeRecorded
  /\ AllKept /\ NeverGivenTwice /\ KeepsId

-----------------------------------------------------------------------------
(* If not everything above x is in L, something above x is not, right      *)
(* below something that is.                                                *)
LEMMA Topmost ==
  ASSUME NEW L, Base \in L, NEW x \in Item, ~(Above[x] \subseteq L)
  PROVE  \E a \in Above[x] \ {Base} : a \notin L /\ Parent[a] \in L
<1> DEFINE Out == Above[x] \ L
           M   == {Level[a] : a \in Out}
<1>1. M \in SUBSET Nat /\ M # {}
  OBVIOUS
<1>2. PICK m \in M : \A j \in M : m <= j
  BY <1>1, SmallestNumber
<1>3. PICK a \in Out : Level[a] = m
  BY <1>2
<1>4. a \in Item \ {Base} /\ Parent[a] \in Item /\ Level[Parent[a]] < Level[a]
  BY <1>3
<1>5. x # Base
  BY <1>3
<1>6. Parent[a] \in Above[x]
  BY <1>3, <1>4, <1>5
<1>7. Parent[a] \in L
  <2>1. SUFFICES ASSUME Parent[a] \notin L PROVE FALSE
    OBVIOUS
  <2>2. Level[Parent[a]] \in M
    BY <2>1, <1>6
  <2>3. m <= Level[Parent[a]] /\ m = Level[a] /\ Level[a] \in Nat /\ Level[Parent[a]] \in Nat
    BY <2>2, <1>2, <1>3, <1>4
  <2> QED BY <2>3, <1>4
<1> QED BY <1>3, <1>4, <1>7

(* What is below something that is gone is gone. *)
LEMMA GoneBelow ==
  ASSUME NEW x \in Item, NEW y \in Item, NEW a \in Above[y],
         y \notin {x} \cup Below(x)
  PROVE  a \in Item /\ a \notin {x} \cup Below(x)
<1>1. y # Base
  OBVIOUS
<1>2. a \in Item /\ Above[a] \subseteq Above[y]
  BY <1>1
<1> QED BY <1>2 DEF Below

LEMMA AboveParent ==
  ASSUME NEW x \in Item \ {Base}
  PROVE  /\ Parent[x] \in Item /\ Parent[x] \in Above[x]
         /\ Above[x] = {Parent[x]} \cup Above[Parent[x]]
         /\ Above[x] \subseteq Item
OBVIOUS

-----------------------------------------------------------------------------
LEMMA Initially == Init => IInv
<1> SUFFICES ASSUME Init PROVE IInv
  OBVIOUS
<1> USE DEF Init
<1>1. Recorded = {} /\ Present = {Base} /\ Composite = {Base}
  BY DEF Recorded, Present, Composite, NoIds
<1>2. TypeOK
  BY <1>1 DEF TypeOK, NoIds, Recorded
<1>3. Trees
  BY <1>1 DEF Trees
<1>4. Distinct /\ Saving /\ CodeRecorded
  BY <1>1 DEF Distinct, Saving, CodeRecorded
<1>5. AllKept /\ NeverGivenTwice /\ KeepsId
  BY DEF AllKept, NeverGivenTwice, KeepsId
<1> QED BY <1>2, <1>3, <1>4, <1>5 DEF IInv

(* A step that leaves the file, the code and the devices alone, outside of *)
(* a run, keeps what is said about them.                                   *)
LEMMA FileUnchanged ==
  ASSUME IInv, UNCHANGED <<file, listed, shipped>>
  PROVE  /\ Distinct' /\ AllKept' /\ NeverGivenTwice' /\ KeepsId'
         /\ Recorded' = Recorded
BY DEF IInv, Distinct, AllKept, Kept, Lost, NeverGivenTwice, KeepsId, Recorded

LEMMA InsertKeeps ==
  ASSUME IInv, NEW x \in Item \ {Base}, NEW k \in {"simple", "composite"},
         NEW persistent \in BOOLEAN, Insert(x, k, persistent)
  PROVE  IInv'
<1> USE DEF Insert, Edits
<1>1. Distinct' /\ AllKept' /\ NeverGivenTwice' /\ KeepsId' /\ Recorded' = Recorded
  BY FileUnchanged
<1>2. TypeOK /\ Trees
  BY DEF IInv
<1>3. /\ Present' = Present \cup {x}
      /\ Composite \subseteq Composite' /\ Composite \subseteq Present
  BY <1>2 DEF TypeOK, Present, Composite
<1>4. Parent[x] \in Composite /\ Above[x] \subseteq Composite
  BY <1>2, <1>3, AboveParent DEF Trees
<1>5. Trees'
  BY <1>1, <1>2, <1>3, <1>4 DEF Trees
<1>6. TypeOK'
  <2>1. kind' \in [Item -> {"absent", "simple", "composite"}] /\ transient' \subseteq Item
    BY <1>2 DEF TypeOK
  <2>2. \A y \in Present' \ {Base} : Parent[y] \in Composite'
    BY <1>2, <1>3, <1>4 DEF TypeOK
  <2> QED BY <1>1, <1>2, <2>1, <2>2 DEF TypeOK
<1>7. Saving' /\ CodeRecorded'
  BY <1>1 DEF IInv, Saving, CodeRecorded
<1> QED BY <1>1, <1>5, <1>6, <1>7 DEF IInv

LEMMA RemoveKeeps ==
  ASSUME IInv, NEW x \in Item \ {Base}, TakeOut(x)
  PROVE  IInv'
<1> USE DEF TakeOut, Edits
<1> DEFINE gone == {x} \cup Below(x)
<1>1. Distinct' /\ AllKept' /\ NeverGivenTwice' /\ KeepsId' /\ Recorded' = Recorded
  BY FileUnchanged
<1>2. TypeOK /\ Trees
  BY DEF IInv
<1>3. Present' = Present \ gone /\ Composite' = Composite \ gone /\ Present \subseteq Item
  BY <1>2 DEF TypeOK, Present, Composite
<1>4. Base \notin gone
  BY DEF Below
<1>5. \A y \in Present' : Above[y] \subseteq Composite'
  BY <1>2, <1>3, GoneBelow DEF Trees
<1>6. Trees'
  BY <1>1, <1>2, <1>3, <1>4, <1>5 DEF Trees
<1>7. TypeOK'
  <2>1. kind' \in [Item -> {"absent", "simple", "composite"}] /\ transient' \subseteq Item
    BY <1>2 DEF TypeOK
  <2>2. \A y \in Present' \ {Base} : Parent[y] \in Composite'
    BY <1>3, <1>5, AboveParent
  <2> QED BY <1>1, <1>2, <2>1, <2>2 DEF TypeOK
<1>8. Saving' /\ CodeRecorded'
  BY <1>1 DEF IInv, Saving, CodeRecorded
<1> QED BY <1>1, <1>6, <1>7, <1>8 DEF IInv

LEMMA SwitchKeeps ==
  ASSUME IInv, NEW x \in Item \ {Base}, Switch(x)
  PROVE  IInv'
<1> USE DEF Switch, Edits
<1>1. Distinct' /\ AllKept' /\ NeverGivenTwice' /\ KeepsId' /\ Recorded' = Recorded
  BY FileUnchanged
<1>2. Present' = Present /\ Composite' = Composite
  BY DEF Present, Composite
<1>3. TypeOK' /\ Trees'
  BY <1>1, <1>2 DEF IInv, TypeOK, Trees
<1>4. Saving' /\ CodeRecorded'
  BY <1>1 DEF IInv, Saving, CodeRecorded
<1> QED BY <1>1, <1>3, <1>4 DEF IInv

LEMMA ForgetKeeps ==
  ASSUME IInv, NEW x \in Item \ {Base}, Forget(x)
  PROVE  IInv'
<1> USE DEF Forget
<1> DEFINE gone == {x} \cup Below(x)
<1>1. TypeOK /\ Trees /\ Distinct /\ AllKept
  BY DEF IInv
<1>2. /\ Recorded' = Recorded \ gone /\ listed' = listed \ gone
      /\ \A y \in Recorded' : file'[y] = file[y]
      /\ Present' = Present /\ Composite' = Composite
  BY DEF Recorded, Present, Composite
<1>3. Base \notin gone
  BY DEF Below
<1>4. \A y \in Recorded' : Above[y] \subseteq listed'
  BY <1>1, <1>2, GoneBelow DEF TypeOK, Trees
<1>5. Trees'
  BY <1>1, <1>2, <1>3, <1>4 DEF Trees
<1>6. TypeOK'
  <2>1. \A y \in Recorded' : Parent[y] \in listed'
    BY <1>1, <1>2, <1>4, AboveParent DEF TypeOK
  <2>2. listed' \subseteq Recorded' \cup {Base}
    BY <1>1, <1>2 DEF TypeOK
  <2> QED BY <1>1, <1>2, <2>1, <2>2 DEF TypeOK
<1>7. Distinct'
  BY <1>1, <1>2 DEF Distinct
<1>8. AllKept'
  <2> SUFFICES ASSUME NEW s \in shipped PROVE Kept(s[1], s[2])'
    BY DEF AllKept
  <2>1. s[1] \in Item \ {Base} /\ s[1] \notin gone /\ Kept(s[1], s[2])
    BY <1>1 DEF TypeOK, AllKept
  <2>2. CASE s[1] \in Recorded /\ file[s[1]] = s[2]
    BY <2>1, <2>2, <1>2 DEF Kept
  <2>3. CASE Lost(s[1])
    <3>1. PICK a \in Above[s[1]] \ {Base} : a \in Recorded /\ a \notin listed
      BY <2>3 DEF Lost
    <3>2. a \in Recorded' /\ a \notin listed'
      BY <3>1, <2>1, <1>2, GoneBelow
    <3> QED BY <3>1, <3>2 DEF Kept, Lost
  <2> QED BY <2>1, <2>2, <2>3 DEF Kept
<1>9. Saving' /\ CodeRecorded'
  BY <1>2 DEF IInv, Saving, CodeRecorded
<1>10. NeverGivenTwice' /\ KeepsId'
  BY DEF IInv, NeverGivenTwice, KeepsId
<1> QED BY <1>5, <1>6, <1>7, <1>8, <1>9, <1>10 DEF IInv

LEMMA GenerateKeeps ==
  ASSUME IInv, NEW f \in [New -> 0 .. MaxId], Generate(f)
  PROVE  IInv'
<1> USE DEF Generate
<1>1. Distinct' /\ AllKept' /\ NeverGivenTwice' /\ KeepsId' /\ Recorded' = Recorded
  BY FileUnchanged
<1>2. /\ Present' = Present /\ Composite' = Composite /\ New' = New /\ Stored' = Stored
      /\ KeyError' = KeyError
  BY <1>1 DEF Present, Composite, New, Stored, KeyError
<1>3. Trees'
  BY <1>1, <1>2 DEF IInv, Trees
<1>4. \A x \in Stored : x \in Item \ {Base} /\ IdOf(x, f) \in 0 .. MaxId
  BY DEF IInv, TypeOK, Stored, Present, New, IdOf
<1>5. TypeOK'
  BY <1>1, <1>2, <1>4 DEF IInv, TypeOK
<1>6. Saving'
  BY <1>1, <1>2 DEF Saving, FirstFree, Given, Others, IdOf
<1>7. CodeRecorded'
  BY DEF CodeRecorded
<1> QED BY <1>1, <1>3, <1>5, <1>6, <1>7 DEF IInv

LEMMA SaveIdsKeeps ==
  ASSUME IInv, SaveIds
  PROVE  IInv'
<1> USE DEF SaveIds
<1>1. TypeOK /\ Trees /\ Distinct /\ AllKept /\ Saving /\ NeverGivenTwice /\ KeepsId
  BY DEF IInv
<1>2. ~KeyError /\ ids \in [New -> 0 .. MaxId] /\ FirstFree(ids)
      /\ code = [x \in Stored |-> IdOf(x, ids)]
  BY <1>1 DEF Saving
<1>3. /\ Recorded' = Saved(listed') /\ \A x \in Recorded' : file'[x] = IdOf(x, ids)
      /\ Present' = Present /\ Composite' = Composite
      /\ Present \subseteq Item /\ Composite \subseteq Present
      /\ Recorded \cup New \subseteq Item \ {Base}
  BY <1>1 DEF Recorded, Present, Composite, TypeOK, New
<1>4. Base \in listed'
  BY <1>1 DEF HasId, Trees
<1>5. \A c \in listed' : Above[c] \subseteq listed'
  <2> SUFFICES ASSUME NEW c \in listed', NEW a \in Above[c] PROVE a \in listed'
    OBVIOUS
  <2>1. c \in Item \ {Base} /\ Above[a] \subseteq Above[c]
    BY <1>3
  <2>2. a \in Composite /\ HasId(a)
    BY <1>1, <1>3 DEF Trees
  <2> QED BY <2>1, <2>2
<1>6. \A x \in Recorded' : x \in Item \ {Base} /\ Above[x] \subseteq listed'
  BY <1>3, <1>5, AboveParent DEF Saved
<1>7. Trees'
  BY <1>1, <1>3, <1>4, <1>6 DEF Trees
<1>8. TypeOK'
  <2>1. \A x \in Recorded' : file'[x] \in 0 .. MaxId
    BY <1>1, <1>2, <1>3 DEF TypeOK, Saved, IdOf
  <2>2. listed' \subseteq Recorded' \cup {Base}
    BY <1>3, <1>5, AboveParent DEF HasId, Saved
  <2>3. \A x \in Recorded' : Parent[x] \in listed'
    BY <1>3 DEF Saved
  <2>4. Recorded' \subseteq Item \ {Base}
    BY <1>6
  <2> QED BY <1>1, <1>3, <2>1, <2>2, <2>3, <2>4 DEF TypeOK
<1>9. Distinct'
  <2> SUFFICES ASSUME NEW x \in Recorded', NEW y \in Recorded',
                      Parent[x] = Parent[y], file'[x] = file'[y]
               PROVE  x = y
    BY DEF Distinct
  <2>1. IdOf(x, ids) = IdOf(y, ids) /\ x \in Recorded \cup New /\ y \in Recorded \cup New
    BY <1>3 DEF Saved
  <2>2. CASE x \in Recorded /\ y \in Recorded
    BY <2>1, <2>2, <1>1 DEF Distinct, IdOf
  <2>3. CASE x \in Recorded /\ y \notin Recorded
    BY <2>1, <2>3, <1>2 DEF FirstFree, Given, IdOf
  <2>4. CASE x \notin Recorded /\ y \in Recorded
    BY <2>1, <2>4, <1>2 DEF FirstFree, Given, IdOf
  <2>5. CASE x \notin Recorded /\ y \notin Recorded
    BY <2>1, <2>5, <1>2 DEF FirstFree, Others, IdOf
  <2> QED BY <2>2, <2>3, <2>4, <2>5
<1>10. Saving'
  BY DEF Saving
<1>11. CodeRecorded'
  <2> SUFFICES ASSUME NEW x \in Stored
               PROVE  x \in Recorded' /\ file'[x] = code[x]
    BY <1>2 DEF CodeRecorded
  <2>1. x \in Present \ {Base} /\ x \in Recorded \cup New
    BY DEF Stored, New
  <2>2. Parent[x] \in Composite /\ Above[x] \subseteq Composite
    BY <2>1, <1>1, <1>3, AboveParent DEF Trees
  <2>3. \A a \in Above[x] : HasId(a)
    BY <2>2, <1>3 DEF Stored, New, HasId
  <2>4. Parent[x] \in listed'
    BY <2>1, <2>2, <2>3, <1>3, AboveParent
  <2> QED BY <2>1, <2>4, <1>2, <1>3 DEF Saved
<1>12. AllKept'
  <2> SUFFICES ASSUME NEW s \in shipped PROVE Kept(s[1], s[2])'
    BY DEF AllKept
  <2> DEFINE x == s[1]
  <2>1. x \in Item \ {Base} /\ Kept(x, s[2])
    BY <1>1 DEF TypeOK, AllKept
  \* Something recorded that is not above anything listed any more.
  <2>2. ASSUME NEW y \in Recorded, Parent[y] \notin listed'
        PROVE  \E a \in Above[y] \ {Base} : a \in Recorded' /\ a \notin listed'
    <3>1. y \in Item /\ Base \in listed' /\ ~(Above[y] \subseteq listed')
      BY <2>2, <1>3, <1>4, AboveParent
    <3>2. PICK a \in Above[y] \ {Base} : a \notin listed' /\ Parent[a] \in listed'
      BY ONLY <3>1, Topmost
    <3>3. a \in Recorded
      BY <3>2, <1>1 DEF Trees, TypeOK
    <3> QED BY <3>2, <3>3, <1>3 DEF Saved
  <2>3. CASE x \in Recorded /\ file[x] = s[2]
    <3>1. CASE Parent[x] \in listed'
      BY <2>3, <3>1, <1>3 DEF Kept, Saved, IdOf
    <3>2. CASE Parent[x] \notin listed'
      BY <2>2, <2>3, <3>2 DEF Kept, Lost
    <3> QED BY <3>1, <3>2
  <2>4. CASE Lost(x)
    <3>1. PICK a \in Above[x] \ {Base} : a \in Recorded /\ a \notin listed
      BY <2>4 DEF Lost
    <3>2. a \notin listed'
      BY <3>1, <1>2 DEF KeyError
    <3>3. CASE Parent[a] \in listed'
      BY <3>1, <3>2, <3>3, <1>3 DEF Kept, Lost, Saved
    <3>4. CASE Parent[a] \notin listed'
      <4>1. PICK b \in Above[a] \ {Base} : b \in Recorded' /\ b \notin listed'
        BY <3>1, <3>4, <2>2
      <4>2. b \in Above[x]
        BY <4>1, <3>1, <2>1
      <4> QED BY <4>1, <4>2 DEF Kept, Lost
    <3> QED BY <3>3, <3>4
  <2> QED BY <2>1, <2>3, <2>4 DEF Kept
<1>13. NeverGivenTwice' /\ KeepsId'
  BY <1>1 DEF NeverGivenTwice, KeepsId
<1> QED BY <1>7, <1>8, <1>9, <1>10, <1>11, <1>12, <1>13 DEF IInv

LEMMA CrashKeeps ==
  ASSUME IInv, Crash
  PROVE  IInv'
<1> USE DEF Crash
<1>1. Distinct' /\ AllKept' /\ NeverGivenTwice' /\ KeepsId' /\ Recorded' = Recorded
  BY FileUnchanged
<1>2. Present' = Present /\ Composite' = Composite
  BY DEF Present, Composite
<1>3. TypeOK' /\ Trees'
  BY <1>1, <1>2 DEF IInv, TypeOK, Trees
<1>4. Saving' /\ CodeRecorded'
  BY <1>1 DEF IInv, Saving, CodeRecorded
<1> QED BY <1>1, <1>3, <1>4 DEF IInv

(* The identifiers that are shipped are in the file, so nothing that was   *)
(* shipped before and lost is below the same composite.                    *)
LEMMA ShipKeeps ==
  ASSUME IInv, Ship
  PROVE  IInv'
<1> USE DEF Ship
<1>1. TypeOK /\ Trees /\ Distinct /\ AllKept /\ CodeRecorded /\ NeverGivenTwice /\ KeepsId
  BY DEF IInv
<1>2. Recorded' = Recorded /\ Present' = Present /\ Composite' = Composite
  BY DEF Recorded, Present, Composite
<1>3. \A x \in DOMAIN code : x \in Recorded /\ file[x] = code[x]
  BY <1>1 DEF CodeRecorded
<1>4. \A s \in shipped' : s \in shipped \/ (s[1] \in Recorded /\ file[s[1]] = s[2])
  BY <1>3
<1>5. TypeOK'
  <2>1. shipped' \subseteq (Item \ {Base}) \X (0 .. MaxId)
    BY <1>1 DEF TypeOK
  <2> QED BY <1>1, <1>2, <2>1 DEF TypeOK
<1>6. Trees' /\ Distinct' /\ CodeRecorded' /\ Saving'
  BY <1>1, <1>2 DEF IInv, Trees, Distinct, CodeRecorded, Saving
<1>7. AllKept'
  BY <1>1, <1>2, <1>4 DEF AllKept, Kept, Lost
<1>8. \A x \in Recorded : ~Lost(x)
  BY <1>1 DEF Trees, Lost
<1>9. \A s, t \in shipped' : Parent[s[1]] = Parent[t[1]] /\ s[1] \in Recorded
                               => t[1] \in Recorded /\ file[t[1]] = t[2]
  <2> SUFFICES ASSUME NEW s \in shipped', NEW t \in shipped',
                      Parent[s[1]] = Parent[t[1]], s[1] \in Recorded
               PROVE  t[1] \in Recorded /\ file[t[1]] = t[2]
    OBVIOUS
  <2>1. s[1] \in Item \ {Base} /\ t[1] \in Item \ {Base}
    BY <1>5 DEF TypeOK
  <2>2. Above[s[1]] = Above[t[1]]
    BY <2>1, AboveParent
  <2>3. ~Lost(t[1])
    BY <2>2, <1>8 DEF Lost
  <2> QED BY <2>3, <1>1, <1>4 DEF AllKept, Kept
<1>10. NeverGivenTwice'
  <2> SUFFICES ASSUME NEW s \in shipped', NEW t \in shipped',
                      Parent[s[1]] = Parent[t[1]], s[2] = t[2]
               PROVE  s[1] = t[1]
    BY DEF NeverGivenTwice
  <2>1. CASE s \in shipped /\ t \in shipped
    BY <2>1, <1>1 DEF NeverGivenTwice
  <2>2. CASE s[1] \in Recorded \/ t[1] \in Recorded
    BY <2>2, <1>1, <1>9 DEF Distinct
  <2> QED BY <2>1, <2>2, <1>4
<1>11. KeepsId'
  <2> SUFFICES ASSUME NEW s \in shipped', NEW t \in shipped', s[1] = t[1]
               PROVE  s[2] = t[2]
    BY DEF KeepsId
  <2>1. CASE s \in shipped /\ t \in shipped
    BY <2>1, <1>1 DEF KeepsId
  <2>2. CASE s[1] \in Recorded
    BY <2>2, <1>9
  <2> QED BY <2>1, <2>2, <1>4
<1> QED BY <1>5, <1>6, <1>7, <1>10, <1>11 DEF IInv

LEMMA Inductive == IInv /\ [Next]_vars => IInv'
<1> SUFFICES ASSUME IInv, [Next]_vars PROVE IInv'
  OBVIOUS
<1>1. CASE UNCHANGED vars
  <2>1. Distinct' /\ AllKept' /\ NeverGivenTwice' /\ KeepsId' /\ Recorded' = Recorded
    BY <1>1, FileUnchanged DEF vars
  <2>2. /\ Present' = Present /\ Composite' = Composite /\ New' = New /\ Stored' = Stored
        /\ KeyError' = KeyError
    BY <1>1 DEF Present, Composite, New, Stored, KeyError, Recorded, vars
  <2>3. TypeOK' /\ Trees'
    BY <1>1, <2>1, <2>2 DEF IInv, TypeOK, Trees, vars
  <2>4. Saving' /\ CodeRecorded'
    BY <1>1, <2>1, <2>2 DEF IInv, Saving, CodeRecorded, FirstFree, Given, Others, IdOf, vars
  <2> QED BY <2>1, <2>3, <2>4 DEF IInv
<1>2. CASE \E x \in Item \ {Base}, k \in {"simple", "composite"}, persistent \in BOOLEAN :
             Insert(x, k, persistent)
  BY <1>2, InsertKeeps
<1>3. CASE \E x \in Item \ {Base} : TakeOut(x) \/ Switch(x) \/ Forget(x)
  BY <1>3, RemoveKeeps, SwitchKeeps, ForgetKeeps
<1>4. CASE \E f \in [New -> 0 .. MaxId] : Generate(f)
  BY <1>4, GenerateKeeps
<1>5. CASE SaveIds
  BY <1>5, SaveIdsKeeps
<1>6. CASE Crash
  BY <1>6, CrashKeeps
<1>7. CASE Ship
  BY <1>7, ShipKeeps
<1> QED BY <1>1, <1>2, <1>3, <1>4, <1>5, <1>6, <1>7 DEF Next

LEMMA Invariant == Spec => []IInv
BY Initially, Inductive, PTL DEF Spec

-----------------------------------------------------------------------------
(* The types, and that schema and ID file are trees.                       *)
THEOREM IdsTyped == Spec => []TypeOK
<1>1. IInv => TypeOK
  BY DEF IInv
<1> QED BY <1>1, Invariant, PTL

(* No identifier that a device stores an item under is given to another.   *)
THEOREM IdsGivenOnce == Spec => []NeverGivenTwice
<1>1. IInv => NeverGivenTwice
  BY DEF IInv
<1> QED BY <1>1, Invariant, PTL

(* An item that devices store keeps its identifier.                        *)
THEOREM IdsStable == Spec => []KeepsId
<1>1. IInv => KeepsId
  BY DEF IInv
<1> QED BY <1>1, Invariant, PTL

(* Whatever becomes of the item, an identifier that devices store it under *)
(* is in the ID file or below a composite that cannot be generated again.  *)
THEOREM IdsKept == Spec => []AllKept
<1>1. IInv => AllKept
  BY DEF IInv
<1> QED BY <1>1, Invariant, PTL
=============================================================================
