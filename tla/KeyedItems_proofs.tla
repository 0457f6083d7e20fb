-------------------------- MODULE KeyedItems_proofs --------------------------
(***************************************************************************)
(* What holds of items identified by key, for every maxCount, set of keys, *)
(* set of words, and set and print functions that agree.  Where it is      *)
(* needed that a key has one way to be typed, the theorem assumes it: for  *)
(* numbers it is false, and so are the conclusions.                        *)
(***************************************************************************)
EXTENDS KeyedItems, SequencesExt, SequenceTheorems, WellFoundedInduction, TLAPS

(* A set of numbers that is not empty has a smallest one. *)
LEMMA SmallestNumber ==
  ASSUME NEW M \in SUBSET Nat, M # {}
  PROVE  \E i \in M : \A j \in M : i <= j
<1> DEFINE R == OpToRel(<, Nat)
<1>1. PICK i \in M : \A j \in M : ~(<<j, i>> \in R)
  <2>1. IsWellFoundedOn(R, Nat)
    BY NatLessThanWellFounded
  <2> HIDE DEF R
  <2>2. QED BY <2>1, WFMin
<1>2. \A j \in M : ~(j < i)
  BY <1>1 DEF OpToRel
<1>3. QED BY <1>2

(* An item taken out of a list leaves the others in their order. *)
LEMMA Removed ==
  ASSUME NEW S, NEW s \in Seq(S), NEW i \in 1 .. Len(s)
  PROVE  /\ RemoveAt(s, i) \in Seq(S)
         /\ Len(RemoveAt(s, i)) = Len(s) - 1
         /\ \A j \in 1 .. Len(s) - 1 :
              RemoveAt(s, i)[j] = IF j < i THEN s[j] ELSE s[j + 1]
<1> DEFINE p == SubSeq(s, 1, i - 1)
           q == SubSeq(s, i + 1, Len(s))
<1>1. p \in Seq(S) /\ Len(p) = i - 1 /\ \A j \in 1 .. i - 1 : p[j] = s[j]
  OBVIOUS
<1>2. q \in Seq(S) /\ Len(q) = Len(s) - i /\ \A j \in 1 .. Len(s) - i : q[j] = s[i + j]
  OBVIOUS
<1>3. RemoveAt(s, i) = p \o q
  BY DEF RemoveAt
<1> HIDE DEF p, q
<1>4. p \o q \in Seq(S) /\ Len(p \o q) = Len(s) - 1
  <2>1. Len(p \o q) = Len(p) + Len(q) /\ p \o q \in Seq(S)
    <3>1. p \in Seq(S) /\ q \in Seq(S)
      BY <1>1, <1>2
    <3>2. QED BY ONLY <3>1, ConcatProperties
  <2>2. Len(s) \in Nat
    OBVIOUS
  <2>3. QED BY <1>1, <1>2, <2>1, <2>2
<1>5. ASSUME NEW j \in 1 .. Len(s) - 1
      PROVE  (p \o q)[j] = IF j < i THEN s[j] ELSE s[j + 1]
  <2>1. CASE j < i
    <3>1. (p \o q)[j] = p[j]
      BY <2>1, <1>1, <1>2
    <3>2. QED BY <3>1, <2>1, <1>1
  <2>2. CASE ~(j < i)
    <3>1. (p \o q)[j] = q[j - (i - 1)] /\ j - (i - 1) \in 1 .. Len(s) - i
      BY <2>2, <1>1, <1>2
    <3>2. QED BY <3>1, <2>2, <1>2
  <2>3. QED BY <2>1, <2>2
<1>6. QED BY <1>3, <1>4, <1>5

-----------------------------------------------------------------------------
USE KeyAssumption, ParseAssumption, ReplayAssumption, MaxCountAssumption

(* The only word for a key is the one it is printed as. *)
Canonical == \A w \in Valid : Show[Parse[w]] = w

-----------------------------------------------------------------------------
(* Lists of keys. *)

(* find_key finds an item that prints as the word. *)
LEMMA FoundItem ==
  ASSUME NEW s \in Seq(Key), NEW w \in Word, Found(s, w)
  PROVE  FindKey(s, w) \in 1 .. Len(s) /\ Show[s[FindKey(s, w)]] = w
<1>1. Matches(s, w) \in SUBSET Nat /\ Matches(s, w) # {}
  BY DEF Matches, Found
<1>2. \E i \in Matches(s, w) : \A j \in Matches(s, w) : i <= j
  BY <1>1, SmallestNumber
<1>3. FindKey(s, w) \in Matches(s, w)
  BY <1>2 DEF FindKey
<1>4. QED BY <1>3 DEF Matches

(* Taking an item out of a list of different keys leaves different keys. *)
LEMMA RemovedDiffer ==
  ASSUME NEW s \in Seq(Key), NEW i \in 1 .. Len(s), AllDiffer(s)
  PROVE  AllDiffer(RemoveAt(s, i))
<1> DEFINE r == RemoveAt(s, i)
<1>1. /\ DOMAIN r = 1 .. Len(s) - 1
      /\ \A j \in 1 .. Len(s) - 1 : r[j] = IF j < i THEN s[j] ELSE s[j + 1]
  BY Removed
<1> HIDE DEF r
<1>2. AllDiffer(r)
  BY <1>1 DEF AllDiffer
<1>3. QED BY <1>2 DEF r

(* When words are canonical, a word that prints as none of the keys is the *)
(* word for a new key.                                                     *)
LEMMA AppendedDiffer ==
  ASSUME NEW s \in Seq(Key), NEW w \in Valid, Canonical, AllDiffer(s), ~Found(s, w)
  PROVE  AllDiffer(Append(s, Parse[w]))
<1> DEFINE a == Append(s, Parse[w])
<1>1. Show[Parse[w]] = w
  BY DEF Canonical
<1>2. \A i \in 1 .. Len(s) : s[i] # Parse[w]
  BY <1>1 DEF Found, Matches
<1>3. DOMAIN a = 1 .. Len(s) + 1 /\ a[Len(s) + 1] = Parse[w]
      /\ \A i \in 1 .. Len(s) : a[i] = s[i]
  BY DEF Valid
<1> HIDE DEF a
<1>4. AllDiffer(a)
  BY <1>2, <1>3 DEF AllDiffer
<1>5. QED BY <1>4 DEF a

-----------------------------------------------------------------------------
(* Types. *)

(* The keys in memory and those that are stored are lists of keys that fit *)
(* the array.                                                              *)
Typed == TypeOK /\ Len(store) <= MaxCount

(* What a command does to the keys, whatever command it is. *)
LEMMA StepTyped ==
  ASSUME Typed, [Next]_vars
  PROVE  Typed'
<1> USE DEF Typed, TypeOK
<1>1. ASSUME NEW w \in Word, Add(w) PROVE Typed'
  BY <1>1 DEF Add, Valid
<1>2. ASSUME NEW w \in Word, SetField(w) PROVE Typed'
  BY <1>2 DEF SetField, Valid
<1>3. ASSUME NEW w \in Word, Del(w) PROVE Typed'
  <2>1. keys' = RemoveAt(keys, FindKey(keys, w)) /\ FindKey(keys, w) \in 1 .. Len(keys)
    BY <1>3, FoundItem DEF Del
  <2>2. keys' \in Seq(Key) /\ Len(keys') = Len(keys) - 1
    BY <2>1, Removed
  <2>3. store' = store
    BY <1>3 DEF Del
  <2>4. QED BY <2>2, <2>3
<1>4. CASE SetDefault
  BY <1>4 DEF SetDefault
<1>5. CASE Save
  BY <1>5 DEF Save
<1>6. CASE Load
  BY <1>6 DEF Load
<1>7. ASSUME NEW w \in Word, NEW u \in Word, SetKey(w, u) PROVE Typed'
  <2>1. Parse[u] \in Key /\ store' = store
    BY <1>7 DEF SetKey, Valid
  <2>2. CASE Found(keys, w) /\ keys' = [keys EXCEPT ![FindKey(keys, w)] = Parse[u]]
    <3>1. FindKey(keys, w) \in 1 .. Len(keys)
      BY <2>2, FoundItem
    <3>2. QED BY <2>1, <2>2, <3>1
  <2>3. CASE Len(keys) < MaxCount /\ keys' = Append(keys, Parse[u])
    BY <2>1, <2>3
  <2>4. QED BY <1>7, <2>2, <2>3 DEF SetKey
<1>8. ASSUME NEW n \in 0 .. MaxCount, LoadOld(n) PROVE Typed'
  BY <1>8 DEF LoadOld
<1>9. ASSUME NEW w \in Word, SetDefItem(w) PROVE Typed'
  <2>1. FindKey(keys, w) \in 1 .. Len(keys)
    BY <1>9, FoundItem DEF SetDefItem
  <2>2. QED BY <1>9, <2>1 DEF SetDefItem
<1>10. CASE UNCHANGED vars
  BY <1>10 DEF vars
<1>11. QED
  BY <1>1, <1>2, <1>3, <1>4, <1>5, <1>6, <1>7, <1>8, <1>9, <1>10 DEF Next, Ordinary

LEMMA InitTyped == Init => Typed
BY DEF Init, Typed, TypeOK

(* The keys are lists of keys that fit the array, after every command and  *)
(* every load.                                                             *)
THEOREM TypeCorrect == Spec => []TypeOK
<1>1. Typed /\ [Next]_vars => Typed'
  BY StepTyped
<1>2. Typed => TypeOK
  BY DEF Typed
<1>3. QED BY InitTyped, <1>1, <1>2, PTL DEF Spec

-----------------------------------------------------------------------------
(* Keys identify items. *)

(* The inductive invariant: also the keys that are stored differ, because  *)
(* a load compares them with nothing.                                      *)
KeysInv == Typed /\ KeysDiffer /\ AllDiffer(store)

(* A command that is ordinary keeps keys different. *)
LEMMA OrdinaryStep ==
  ASSUME Canonical, KeysInv, [Ordinary]_vars
  PROVE  KeysInv'
<1>1. Typed'
  BY StepTyped DEF KeysInv, Next
<1> SUFFICES AllDiffer(keys') /\ AllDiffer(store')
  BY <1>1 DEF KeysInv, KeysDiffer
<1>2. keys \in Seq(Key) /\ AllDiffer(keys) /\ AllDiffer(store)
  BY DEF KeysInv, Typed, TypeOK, KeysDiffer
<1>3. ASSUME NEW w \in Word, Add(w) PROVE AllDiffer(keys') /\ AllDiffer(store')
  BY <1>2, <1>3, AppendedDiffer DEF Add
<1>4. ASSUME NEW w \in Word, SetField(w) PROVE AllDiffer(keys') /\ AllDiffer(store')
  <2>1. w \in Valid /\ store' = store
    BY <1>4 DEF SetField
  <2>2. CASE keys' = keys
    BY <1>2, <2>1, <2>2
  <2>3. CASE ~Found(keys, w) /\ keys' = Append(keys, Parse[w])
    BY <1>2, <2>1, <2>3, AppendedDiffer
  <2>4. QED BY <1>4, <2>2, <2>3 DEF SetField
<1>5. ASSUME NEW w \in Word, Del(w) PROVE AllDiffer(keys') /\ AllDiffer(store')
  <2>1. keys' = RemoveAt(keys, FindKey(keys, w)) /\ store' = store /\ Found(keys, w)
    BY <1>5 DEF Del
  <2>2. FindKey(keys, w) \in 1 .. Len(keys)
    BY <1>2, <2>1, FoundItem
  <2>3. QED BY <1>2, <2>1, <2>2, RemovedDiffer
<1>6. CASE SetDefault
  BY <1>2, <1>6 DEF SetDefault, AllDiffer
<1>7. CASE Save
  BY <1>2, <1>7 DEF Save
<1>8. CASE Load
  BY <1>2, <1>8 DEF Load
<1>9. CASE UNCHANGED vars
  BY <1>2, <1>9 DEF vars
<1>10. QED BY <1>3, <1>4, <1>5, <1>6, <1>7, <1>8, <1>9 DEF Ordinary

(* If a key has one way to be typed, no two items have the same key, for   *)
(* an operator who never assigns to a key nor sets an item to default.     *)
THEOREM OrdinaryKeysDiffer == Canonical => (OrdinarySpec => []KeysDiffer)
<1>1. Init => KeysInv
  BY InitTyped DEF Init, KeysInv, KeysDiffer, AllDiffer
<1>2. Canonical /\ KeysInv /\ [Ordinary]_vars => KeysInv'
  BY OrdinaryStep
<1>3. KeysInv => KeysDiffer
  BY DEF KeysInv
<1>4. Canonical => Canonical'
  BY DEF Canonical, Valid
<1>5. QED BY <1>1, <1>2, <1>3, <1>4, PTL DEF OrdinarySpec

(* Of all there is, only assigning to a key, setting an item to default or *)
(* loading a store from before the key makes two keys equal.               *)
THEOREM OnlyRenames == Canonical => (Spec => OnlyRenamesRepeat)
<1> DEFINE Step == AllDiffer(keys) /\ AllDiffer(store) /\ ~AllDiffer(keys')
                     => cmd'.name \in {"rename", "reset", "migrate"}
<1>1. ASSUME Canonical, Typed, [Next]_vars PROVE [Step]_vars
  <2> SUFFICES ASSUME Next, AllDiffer(keys), AllDiffer(store), ~AllDiffer(keys')
               PROVE  cmd'.name \in {"rename", "reset", "migrate"}
    BY <1>1
  <2>1. CASE Ordinary
    <3>1. KeysInv /\ [Ordinary]_vars
      BY <1>1, <2>1 DEF KeysInv, KeysDiffer
    <3>2. KeysInv'
      BY <1>1, <3>1, OrdinaryStep
    <3>3. QED BY <3>2 DEF KeysInv, KeysDiffer
  <2>2. CASE \E w, u \in Word : SetKey(w, u)
    BY <2>2 DEF SetKey
  <2>3. CASE \E n \in 0 .. MaxCount : LoadOld(n)
    BY <2>3 DEF LoadOld
  <2>4. CASE \E w \in Word : SetDefItem(w)
    BY <2>4 DEF SetDefItem
  <2>5. QED BY <2>1, <2>2, <2>3, <2>4 DEF Next
<1>2. Canonical => Canonical'
  BY DEF Canonical, Valid
<1>3. Typed /\ [Next]_vars => Typed'
  BY StepTyped
<1> HIDE DEF Step
<1>4. Canonical => (Spec => [][Step]_vars)
  BY InitTyped, <1>1, <1>2, <1>3, PTL DEF Spec
<1>5. QED BY <1>4 DEF OnlyRenamesRepeat, Step

(* If a key has one way to be typed, the word that named an item in the    *)
(* last command names it in the next.                                      *)
THEOREM UsedWordNamesItem == Canonical => (Spec => []WordNamesItem)
<1>1. Init => WordNamesItem
  BY DEF Init, WordNamesItem
<1>2. ASSUME NEW w \in Valid, NEW s \in Seq(Key), Canonical
      PROVE  Found(Append(s, Parse[w]), w)
  <2> DEFINE a == Append(s, Parse[w])
  <2>1. Len(s) + 1 \in DOMAIN a /\ a[Len(s) + 1] = Parse[w]
    BY DEF Valid
  <2> HIDE DEF a
  <2>2. Show[Parse[w]] = w
    BY <1>2 DEF Canonical
  <2>3. Found(a, w)
    BY <2>1, <2>2 DEF Found, Matches
  <2>4. QED BY <2>3 DEF a
<1>3. ASSUME Canonical, Typed, WordNamesItem, [Next]_vars PROVE WordNamesItem'
  <2>1. keys \in Seq(Key)
    BY <1>3 DEF Typed, TypeOK
  <2>2. ASSUME NEW w \in Word, Add(w) PROVE WordNamesItem'
    BY <2>1, <2>2, <1>2, <1>3 DEF Add, WordNamesItem
  <2>3. ASSUME NEW w \in Word, SetField(w) PROVE WordNamesItem'
    <3>1. w \in Valid /\ cmd' = [name |-> "set", word |-> w]
      BY <2>3 DEF SetField
    <3>2. CASE Found(keys, w) /\ keys' = keys
      BY <3>1, <3>2 DEF WordNamesItem, Found, Matches
    <3>3. CASE keys' = Append(keys, Parse[w])
      BY <2>1, <3>1, <3>3, <1>2, <1>3 DEF WordNamesItem
    <3>4. QED BY <2>3, <3>2, <3>3 DEF SetField
  <2>4. CASE UNCHANGED vars
    BY <1>3, <2>4 DEF vars, WordNamesItem, Found, Matches
  <2>5. ASSUME cmd'.name \notin {"add", "set"} PROVE WordNamesItem'
    BY <2>5 DEF WordNamesItem
  <2>6. ASSUME NEW w \in Word, NEW u \in Word, Del(w) \/ SetKey(w, u)
        PROVE  WordNamesItem'
    BY <2>5, <2>6 DEF Del, SetKey
  <2>7. CASE SetDefault \/ Save \/ Load
    BY <2>5, <2>7 DEF SetDefault, Save, Load
  <2>8. CASE \E n \in 0 .. MaxCount : LoadOld(n)
    BY <2>5, <2>8 DEF LoadOld
  <2>9. CASE \E w \in Word : SetDefItem(w)
    BY <2>5, <2>9 DEF SetDefItem
  <2>10. QED BY <1>3, <2>2, <2>3, <2>4, <2>6, <2>7, <2>8, <2>9 DEF Next, Ordinary
<1>4. Canonical => Canonical'
  BY DEF Canonical, Valid
<1>5. Typed /\ [Next]_vars => Typed'
  BY StepTyped
<1>6. QED BY InitTyped, <1>1, <1>3, <1>4, <1>5, PTL DEF Spec

(* If a key has one way to be typed, giving the same assignment again adds *)
(* no item: the word it used selects the item it created.                  *)
THEOREM RepeatedSetAddsNothing == Canonical => (Spec => RepeatAddsNothing)
<1> DEFINE Step == \A w \in Word : cmd = [name |-> "set", word |-> w] /\ cmd' = cmd
                     => keys' = keys
<1>1. ASSUME WordNamesItem, [Next]_vars PROVE [Step]_vars
  <2> SUFFICES ASSUME Next, NEW w \in Word, cmd = [name |-> "set", word |-> w], cmd' = cmd
               PROVE  keys' = keys
    BY <1>1
  <2>1. Found(keys, w)
    BY <1>1 DEF WordNamesItem
  <2>2. cmd'.name = "set" /\ cmd'.word = w
    OBVIOUS
  <2>3. ASSUME NEW x \in Word, SetField(x) PROVE keys' = keys
    BY <2>1, <2>2, <2>3 DEF SetField
  <2>4. PICK x \in Word : SetField(x)
    BY <2>2 DEF Next, Ordinary, Add, Del, SetDefault, Save, Load, LoadOld, SetKey, SetDefItem
  <2>5. QED BY <2>3, <2>4
<1> HIDE DEF Step
<1>2. Spec /\ []WordNamesItem => [][Step]_vars
  BY <1>1, PTL DEF Spec
<1>3. Canonical => (Spec => [][Step]_vars)
  BY <1>2, UsedWordNamesItem, PTL
<1>4. QED BY <1>3 DEF RepeatAddsNothing, Step
=============================================================================
