----------------------- MODULE OwnedAggregate_proofs -----------------------
(***************************************************************************)
(* What holds of an owned aggregate for every maxCount, counter width and  *)
(* set of addresses and values.                                            *)
(***************************************************************************)
EXTENDS OwnedAggregate, TLAPS

USE ValueAssumption, AddrAssumption, MaxCountAssumption, CounterAssumption,
    BuildAssumption

-----------------------------------------------------------------------------
(* The operators on blocks. *)

(* realloc keeps what fits in the new length. *)
LEMMA ResizedBlock ==
  ASSUME NEW b \in Block, NEW n \in 0 .. CounterMax + 1
  PROVE  /\ Resized(b, n) \in Block
         /\ Resized(b, n) \in [0 .. n-1 -> Slot]
         /\ \A j \in 0 .. n-1 : j \in DOMAIN b => Resized(b, n)[j] = b[j]
BY DEF Resized, Block, Slot

(* An insertion makes a block one longer out of the old items and the new. *)
LEMMA InsertedBlock ==
  ASSUME NEW b \in Block, NEW n \in 0 .. CounterMax, NEW i \in 0 .. n,
         NEW v \in Value
  PROVE  LET c == MovedUp(Resized(b, n+1), i, v)
         IN  /\ c \in Block
             /\ DOMAIN c = 0 .. n
             /\ DOMAIN b = 0 .. n-1 /\ (\A j \in DOMAIN b : b[j] # Garbage)
                  => \A j \in 0 .. n : c[j] # Garbage
<1> DEFINE r == Resized(b, n+1)
           c == MovedUp(r, i, v)
<1>1. r \in [0 .. n -> Slot] /\ \A j \in 0 .. n : j \in DOMAIN b => r[j] = b[j]
  <2>1. n+1 \in 0 .. CounterMax + 1 /\ (n+1)-1 = n
    OBVIOUS
  <2>2. QED BY <2>1, ResizedBlock
<1> HIDE DEF r
<1>2. c \in [0 .. n -> Slot]
  BY <1>1 DEF MovedUp, Slot
<1>3. c \in Block
  <2>1. n+1 \in 0 .. CounterMax + 1 /\ 0 .. (n+1)-1 = 0 .. n
    OBVIOUS
  <2>2. QED BY <2>1, <1>2 DEF Block
<1>4. ASSUME DOMAIN b = 0 .. n-1, \A j \in DOMAIN b : b[j] # Garbage
      PROVE  \A j \in 0 .. n : c[j] # Garbage
  <2>1. \A j \in 0 .. n-1 : r[j] # Garbage
    BY <1>1, <1>4
  <2>2. QED BY <1>1, <2>1 DEF MovedUp
<1>5. QED BY <1>2, <1>3, <1>4 DEF r

(* A deletion makes a block one shorter out of the items that stay. *)
LEMMA RemovedBlock ==
  ASSUME NEW b \in Block, NEW n \in 1 .. CounterMax + 1, NEW i \in 0 .. n-1,
         DOMAIN b = 0 .. n-1
  PROVE  LET m == MovedDown(b, i, n)
             c == Resized(m, n-1)
         IN  /\ m \in Block
             /\ c \in Block
             /\ DOMAIN c = 0 .. (n-1)-1
             /\ (\A j \in DOMAIN b : b[j] # Garbage)
                  => \A j \in DOMAIN c : c[j] # Garbage
<1> DEFINE m == MovedDown(b, i, n)
           c == Resized(m, n-1)
<1>1. b \in [0 .. n-1 -> Slot]
  BY DEF Block
<1>2. m \in [0 .. n-1 -> Slot]
  BY <1>1 DEF MovedDown
<1>3. m \in Block
  BY <1>2 DEF Block
<1>4. (\A j \in DOMAIN b : b[j] # Garbage) => \A j \in 0 .. n-1 : m[j] # Garbage
  BY <1>1 DEF MovedDown
<1> HIDE DEF m
<1>5. /\ c \in Block /\ c \in [0 .. (n-1)-1 -> Slot]
      /\ \A j \in 0 .. (n-1)-1 : j \in DOMAIN m => c[j] = m[j]
  BY <1>3, ResizedBlock
<1>6. QED BY <1>2, <1>3, <1>4, <1>5 DEF m

-----------------------------------------------------------------------------
(* Type correctness. *)

MemTypeOK ==
  /\ ppItems \in DOMAIN heap \cup {NULL}
  /\ counter \in 0 .. CounterMax
  /\ DOMAIN heap \subseteq Addr
  /\ \A a \in DOMAIN heap : heap[a] \in Block

LEMMA CountType == TypeOK => Count \in 0 .. CounterMax
BY DEF TypeOK, Count

LEMMA ContentsType == MemTypeOK => Contents \in Block
<1>1. EmptyBlock \in Block
  BY DEF EmptyBlock, Block, Slot
<1>2. QED BY <1>1 DEF MemTypeOK, Contents

(* Putting the items' block at one of the allocator's targets is well typed. *)
LEMMA ReplacedType ==
  ASSUME MemTypeOK, NEW a \in Targets, NEW b \in Block
  PROVE  /\ DOMAIN Replaced(a, b) \subseteq Addr
         /\ a \in DOMAIN Replaced(a, b)
         /\ Replaced(a, b)[a] = b
         /\ \A x \in DOMAIN Replaced(a, b) : Replaced(a, b)[x] \in Block
BY DEF MemTypeOK, Targets, Replaced

LEMMA SetCountType ==
  ASSUME MemTypeOK, NEW n \in Nat, SetCount(n)
  PROVE  counter' \in 0 .. CounterMax
BY DEF MemTypeOK, SetCount

(* What a successful add does, whatever the build: the new block holds one *)
(* item more and takes the place of the old one in the heap.               *)
LEMMA AddEffect ==
  ASSUME TypeOK, NEW i \in 0 .. Count, NEW v \in Value, AddAt(i, v)
  PROVE  /\ MemTypeOK'
         /\ SetCount(Count + 1)
         /\ ppItems' # NULL
         /\ heap'[ppItems'] = MovedUp(Resized(Contents, Count + 1), i, v)
         /\ DOMAIN heap'[ppItems'] = 0 .. Count
         /\ DOMAIN heap' = (DOMAIN heap \ {ppItems}) \cup {ppItems'}
<1>1. Count \in 0 .. CounterMax
  BY CountType
<1>2. MemTypeOK
  BY DEF TypeOK, MemTypeOK
<1> DEFINE b == MovedUp(Resized(Contents, Count + 1), i, v)
<1>3. b \in Block /\ DOMAIN b = 0 .. Count
  BY <1>1, <1>2, ContentsType, InsertedBlock
<1> HIDE DEF b
<1>4. PICK a \in Targets : /\ ppItems' = a
                           /\ heap' = Replaced(a, b)
                           /\ SetCount(Count + 1)
  BY DEF AddAt, b
<1>5. counter' \in 0 .. CounterMax
  BY <1>1, <1>2, <1>4, SetCountType
<1>6. MemTypeOK'
  BY <1>2, <1>3, <1>4, <1>5, ReplacedType DEF MemTypeOK
<1>7. ppItems' # NULL /\ heap'[ppItems'] = b
  BY <1>2, <1>3, <1>4, ReplacedType DEF Targets
<1>8. DOMAIN heap' = (DOMAIN heap \ {ppItems}) \cup {ppItems'}
  BY <1>4 DEF Replaced
<1>9. QED BY <1>3, <1>4, <1>6, <1>7, <1>8 DEF b

LEMMA SetDefaultType ==
  ASSUME MemTypeOK, SetDefault
  PROVE  MemTypeOK'
<1>1. CASE ppItems = NULL
  BY <1>1 DEF SetDefault, mem, MemTypeOK
<1>2. CASE ppItems # NULL
  <2>1. ppItems' = NULL /\ heap' = Freed /\ SetCount(0)
    BY <1>2 DEF SetDefault
  <2>2. counter' \in 0 .. CounterMax
    BY <2>1, SetCountType
  <2>3. QED BY <2>1, <2>2 DEF Freed, MemTypeOK
<1>3. QED BY <1>1, <1>2

LEMMA ShrinkType ==
  ASSUME TypeOK, NEW i \in 0 .. Count - 1, ppItems # NULL,
         DOMAIN Contents = 0 .. Count - 1,
         Shrink(MovedDown(Contents, i, Count), Count - 1), SetCount(Count - 1)
  PROVE  MemTypeOK'
<1>1. Count \in 1 .. CounterMax
  BY CountType
<1>2. MemTypeOK
  BY DEF TypeOK, MemTypeOK
<1>3. counter' \in 0 .. CounterMax
  BY <1>1, <1>2, SetCountType
<1> DEFINE m == MovedDown(Contents, i, Count)
<1>4. m \in Block /\ Resized(m, Count - 1) \in Block
  BY <1>1, <1>2, ContentsType, RemovedBlock
<1> HIDE DEF m
<1>5. EmptyBlock \in Block
  BY DEF EmptyBlock, Block, Slot
<1>6. Shrink(m, Count - 1)
  BY DEF m
<1>7. CASE ppItems' = NULL /\ heap' = Freed
  BY <1>2, <1>3, <1>7 DEF Freed, MemTypeOK
<1>8. CASE ppItems' = NULL /\ \E a \in Targets : heap' = Replaced(a, EmptyBlock)
  BY <1>2, <1>3, <1>5, <1>8, ReplacedType DEF MemTypeOK
<1>9. CASE \E a \in Targets : ppItems' = a /\ heap' = Replaced(a, Resized(m, Count - 1))
  BY <1>2, <1>3, <1>4, <1>9, ReplacedType DEF MemTypeOK
<1>10. CASE ppItems' = NULL /\ heap' = [heap EXCEPT ![ppItems] = m]
  BY <1>2, <1>3, <1>4, <1>10 DEF MemTypeOK
<1>11. QED BY <1>6, <1>7, <1>8, <1>9, <1>10 DEF Shrink

(* Shrinking in del leaves a null pointer or a block of the new length. *)
LEMMA ShrinkEffect ==
  ASSUME TypeOK, NEW i \in 0 .. Count - 1, ppItems # NULL,
         DOMAIN Contents = 0 .. Count - 1,
         Shrink(MovedDown(Contents, i, Count), Count - 1)
  PROVE  \/ ppItems' = NULL
         \/ /\ Count - 1 # 0
            /\ ppItems' # NULL
            /\ heap'[ppItems'] = Resized(MovedDown(Contents, i, Count), Count - 1)
            /\ DOMAIN heap' = (DOMAIN heap \ {ppItems}) \cup {ppItems'}
<1>1. MemTypeOK
  BY DEF TypeOK, MemTypeOK
<1> DEFINE c == Resized(MovedDown(Contents, i, Count), Count - 1)
<1>2. c \in Block
  BY <1>1, ContentsType, CountType, RemovedBlock
<1> HIDE DEF c
<1>3. ASSUME NEW a \in Targets, ppItems' = a, heap' = Replaced(a, c)
      PROVE  /\ ppItems' # NULL
             /\ heap'[ppItems'] = c
             /\ DOMAIN heap' = (DOMAIN heap \ {ppItems}) \cup {ppItems'}
  BY <1>1, <1>2, <1>3, ReplacedType DEF Targets, Replaced
<1>4. CASE Count - 1 = 0
  BY <1>4 DEF Shrink
<1>5. CASE Count - 1 # 0
  BY <1>3, <1>5 DEF Shrink, c
<1>6. QED BY <1>4, <1>5

-----------------------------------------------------------------------------
(* The invariant that makes TypeOK inductive, in every build and with every *)
(* allocator.  del and the move of items need the block to be as long as a  *)
(* count above 0 says (a count that wrapped to 0 may have a longer block),  *)
(* and a load may not be behind the count.                                  *)

BlockCoversCount ==
  ppItems # NULL /\ Count > 0 => DOMAIN heap[ppItems] = 0 .. Count - 1

LoadNotBehind == loadIdx # NotLoading => loadIdx >= Count

TInv == TypeOK /\ BlockCoversCount /\ LoadNotBehind

LEMMA AddTInv ==
  ASSUME TInv, NEW i \in 0 .. Count, NEW v \in Value, AddAt(i, v),
         MaxCount = 1 => Count = 0
  PROVE  MemTypeOK' /\ BlockCoversCount' /\ Count' <= Count + 1
<1>1. /\ MemTypeOK'
      /\ SetCount(Count + 1)
      /\ ppItems' # NULL
      /\ DOMAIN heap'[ppItems'] = 0 .. Count
  BY AddEffect DEF TInv
<1>2. Count \in 0 .. CounterMax
  BY CountType DEF TInv
<1>3. CASE HasCounter
  <2>1. Count' = (Count + 1) % (CounterMax + 1)
    BY <1>1, <1>3 DEF SetCount, Count
  <2>2. Count' = Count + 1 \/ Count' = 0
    BY <1>2, <2>1
  <2>3. QED BY <1>1, <1>2, <2>2 DEF BlockCoversCount
<1>4. CASE ~HasCounter
  <2>1. Count = 0 /\ Count' = 1
    BY <1>1, <1>4 DEF Count
  <2>2. QED BY <1>1, <2>1 DEF BlockCoversCount
<1>5. QED BY <1>3, <1>4

LEMMA SetDefaultTInv ==
  ASSUME TInv, SetDefault, ~NullItems
  PROVE  MemTypeOK' /\ BlockCoversCount' /\ Count' = 0 /\ ppItems' = NULL
<1>1. MemTypeOK'
  BY SetDefaultType DEF TInv, TypeOK, MemTypeOK
<1>2. CASE ppItems = NULL
  BY <1>1, <1>2, CountType DEF SetDefault, mem, NullItems, TInv, BlockCoversCount, Count
<1>3. CASE ppItems # NULL
  <2>1. ppItems' = NULL /\ SetCount(0)
    BY <1>3 DEF SetDefault
  <2>2. Count' = 0
    BY <2>1 DEF SetCount, Count
  <2>3. QED BY <1>1, <2>1, <2>2 DEF BlockCoversCount
<1>4. QED BY <1>2, <1>3

LEMMA TInvInit == Init => TInv
BY DEF Init, TInv, TypeOK, BlockCoversCount, LoadNotBehind, Count, NotLoading

LEMMA TInvNext == TInv /\ [Next]_vars => TInv'
<1> SUFFICES ASSUME TInv, [Next]_vars PROVE TInv'
  OBVIOUS
<1> USE DEF NotLoading
<1>0. Count \in 0 .. CounterMax /\ MemTypeOK
  BY CountType DEF TInv, TypeOK, MemTypeOK
<1>1. ASSUME NEW s \in {"aborted", "undefined"}, Stop(s)
      PROVE  TInv'
  BY <1>1 DEF Stop, mem, TInv, TypeOK, BlockCoversCount, LoadNotBehind, Count
<1>2. ASSUME NEW i \in 0 .. Count, AddCmd(i)
      PROVE  TInv'
  <2>1. CASE Stop("aborted")
    BY <1>1, <2>1
  <2>2. CASE AddAt(i, Default) /\ UNCHANGED <<loadIdx, status>>
    <3>1. MemTypeOK' /\ BlockCoversCount'
      BY <1>2, <2>2, AddTInv, <1>0 DEF AddCmd
    <3>2. QED BY <1>2, <2>2, <3>1
              DEF TInv, TypeOK, MemTypeOK, LoadNotBehind, AddCmd, AtPrompt
  <2>3. QED BY <1>2, <2>1, <2>2 DEF AddCmd
<1>3. ASSUME NEW i \in 0 .. Count, DelCmd(i)
      PROVE  TInv'
  <2>1. CASE Stop(IF Asserts THEN "aborted" ELSE "undefined")
    BY <1>1, <2>1
  <2>2. CASE /\ ~NullItems
             /\ Shrink(MovedDown(Contents, i, Count), Count - 1)
             /\ SetCount(Count - 1)
             /\ UNCHANGED <<loadIdx, status>>
    <3>1. i \in 0 .. Count - 1 /\ Count > 0 /\ ppItems # NULL
      BY <1>0, <1>3, <2>2 DEF DelCmd, NullItems
    <3>2. DOMAIN Contents = 0 .. Count - 1
      BY <3>1 DEF TInv, BlockCoversCount, Contents
    <3>3. MemTypeOK'
      BY <2>2, <3>1, <3>2, ShrinkType DEF TInv
    <3>4. BlockCoversCount'
      <4>1. CASE ppItems' = NULL
        BY <4>1 DEF BlockCoversCount
      <4>2. CASE ppItems' # NULL
        <5>1. /\ Count - 1 # 0
              /\ heap'[ppItems'] = Resized(MovedDown(Contents, i, Count), Count - 1)
          BY <2>2, <3>1, <3>2, <4>2, ShrinkEffect DEF TInv
        <5>2. DOMAIN heap'[ppItems'] = 0 .. (Count - 1) - 1
          BY <5>1 DEF Resized
        <5>3. HasCounter /\ Count' = Count - 1
          BY <1>0, <2>2, <3>1, <5>1 DEF SetCount, Count
        <5>4. QED BY <5>2, <5>3 DEF BlockCoversCount
      <4>3. QED BY <4>1, <4>2
    <3>5. QED BY <1>3, <2>2, <3>3, <3>4
              DEF TInv, TypeOK, MemTypeOK, LoadNotBehind, DelCmd, AtPrompt
  <2>3. QED BY <1>3, <2>1, <2>2 DEF DelCmd
<1>4. ASSUME NEW i \in 0 .. Count, NEW v \in Value, SetCmd(i, v)
      PROVE  TInv'
  <2>1. CASE Stop("undefined")
    BY <1>1, <2>1
  <2>2. CASE /\ ~NullItems
             /\ heap' = [heap EXCEPT ![ppItems][i] = v]
             /\ UNCHANGED <<ppItems, counter, loadIdx, status>>
    <3>1. ppItems \in DOMAIN heap /\ heap[ppItems] \in Block
      BY <1>0, <1>4, <2>2 DEF SetCmd, NullItems, MemTypeOK
    <3>2. [heap[ppItems] EXCEPT ![i] = v] \in Block
      BY <3>1 DEF Block, Slot
    <3>3. heap' = [heap EXCEPT ![ppItems] = [heap[ppItems] EXCEPT ![i] = v]]
      BY <2>2
    <3>4. MemTypeOK'
      BY <1>0, <2>2, <3>1, <3>2, <3>3 DEF MemTypeOK
    <3>5. BlockCoversCount'
      BY <1>0, <2>2, <3>1, <3>3 DEF TInv, BlockCoversCount, Count, MemTypeOK
    <3>6. QED BY <2>2, <3>4, <3>5 DEF TInv, TypeOK, MemTypeOK, LoadNotBehind, Count
  <2>3. QED BY <1>4, <2>1, <2>2 DEF SetCmd
<1>5. ASSUME NEW v \in Value, ImplicitAddCmd(v)
      PROVE  TInv'
  <2>1. CASE Stop("aborted")
    BY <1>1, <2>1
  <2>2. CASE AddAt(Count, v) /\ UNCHANGED <<loadIdx, status>>
    <3>1. MemTypeOK' /\ BlockCoversCount'
      BY <1>5, <2>2, AddTInv, <1>0 DEF ImplicitAddCmd
    <3>2. QED BY <1>5, <2>2, <3>1
              DEF TInv, TypeOK, MemTypeOK, LoadNotBehind, ImplicitAddCmd, AtPrompt
  <2>3. QED BY <1>5, <2>1, <2>2 DEF ImplicitAddCmd
<1>6. ASSUME NEW v \in Value, LoadItem(v)
      PROVE  TInv'
  <2>1. CASE Stop("aborted") \/ Stop("undefined")
    BY <1>1, <2>1
  <2>2. CASE /\ loadIdx <= Count
             /\ AddAt(loadIdx, v) /\ loadIdx' = loadIdx + 1 /\ UNCHANGED status
    <3>1. loadIdx = Count /\ loadIdx \in 0 .. MaxCount - 1
      BY <1>0, <1>6, <2>2 DEF LoadItem, TInv, LoadNotBehind
    <3>2. MemTypeOK' /\ BlockCoversCount' /\ Count' <= Count + 1
      BY <2>2, <3>1, AddTInv, <1>0
    <3>3. QED BY <2>2, <3>1, <3>2 DEF TInv, TypeOK, MemTypeOK, LoadNotBehind
  <2>3. QED BY <1>6, <2>1, <2>2 DEF LoadItem
<1>7. CASE SetDefCmd \/ LoadStart
  <2>1. CASE Stop("undefined")
    BY <1>1, <2>1
  <2>2. CASE ~NullItems /\ SetDefault /\ loadIdx' \in {NotLoading, 0} /\ UNCHANGED status
    BY <2>2, SetDefaultTInv DEF TInv, TypeOK, MemTypeOK, LoadNotBehind
  <2>3. QED BY <1>7, <2>1, <2>2 DEF SetDefCmd, LoadStart, AtPrompt
<1>8. CASE LoadEnd
  BY <1>8 DEF LoadEnd, mem, TInv, TypeOK, BlockCoversCount, LoadNotBehind, Count
<1>9. CASE LoadFail
  <2>1. MemTypeOK'
    BY <1>0, <1>9, SetDefaultType DEF LoadFail
  <2>2. BlockCoversCount'
    BY <1>9 DEF LoadFail, SetDefault, mem, BlockCoversCount
  <2>3. QED BY <1>9, <2>1, <2>2 DEF LoadFail, TInv, TypeOK, MemTypeOK, LoadNotBehind
<1>10. CASE Restart
  BY <1>10 DEF Restart, TInv, TypeOK, BlockCoversCount, LoadNotBehind, Count
<1>11. CASE UNCHANGED vars
  BY <1>11 DEF vars, TInv, TypeOK, BlockCoversCount, LoadNotBehind, Count
<1>12. QED BY <1>2, <1>3, <1>4, <1>5, <1>6, <1>7, <1>8, <1>9, <1>10, <1>11 DEF Next

(* In every build, with every allocator and every counter width, the       *)
(* pointer is null or points to an allocated block, and the counter stays  *)
(* in its type.                                                            *)
THEOREM TypeCorrect == Spec => []TypeOK
<1>1. TInv => TypeOK
  BY DEF TInv
<1>2. QED BY <1>1, TInvInit, TInvNext, PTL DEF Spec

-----------------------------------------------------------------------------
(* No memory is lost: with an allocator that always shrinks a block and for *)
(* which realloc(p, 0) frees, the only block allocated is the one the       *)
(* parent points to, in every build and at every count.                     *)
THEOREM NoMemoryLost ==
  ASSUME ~ShrinkFails, ZeroReallocFrees
  PROVE  Spec => []NoLeak
<1>1. Init => NoLeak
  BY DEF Init, NoLeak
<1>2. TInv /\ NoLeak /\ [Next]_vars => NoLeak'
  <2> SUFFICES ASSUME TInv, NoLeak, [Next]_vars PROVE NoLeak'
    OBVIOUS
  <2>1. ASSUME NEW s, Stop(s) PROVE NoLeak'
    BY <2>1 DEF Stop, mem, NoLeak
  <2>2. ASSUME NEW i \in 0 .. Count, NEW v \in Value, AddAt(i, v) PROVE NoLeak'
    BY <2>2, AddEffect DEF TInv, NoLeak
  <2>3. CASE SetDefault
    BY <2>3 DEF SetDefault, Freed, mem, NoLeak
  <2>4. ASSUME NEW i \in 0 .. Count, AddCmd(i) PROVE NoLeak'
    BY <2>1, <2>2, <2>4 DEF AddCmd
  <2>5. ASSUME NEW i \in 0 .. Count, DelCmd(i) PROVE NoLeak'
    <3>1. CASE ~NullItems /\ Shrink(MovedDown(Contents, i, Count), Count - 1)
      BY <3>1 DEF Shrink, Freed, Replaced, NoLeak
    <3>2. QED BY <2>1, <2>5, <3>1 DEF DelCmd
  <2>6. ASSUME NEW i \in 0 .. Count, NEW v \in Value, SetCmd(i, v) PROVE NoLeak'
    BY <2>1, <2>6 DEF SetCmd, NoLeak
  <2>7. ASSUME NEW v \in Value, ImplicitAddCmd(v) PROVE NoLeak'
    BY <2>1, <2>2, <2>7, CountType DEF ImplicitAddCmd, TInv
  <2>8. ASSUME NEW v \in Value, LoadItem(v) PROVE NoLeak'
    BY <2>1, <2>2, <2>8 DEF LoadItem
  <2>9. CASE SetDefCmd \/ LoadStart \/ LoadEnd \/ LoadFail
    BY <2>1, <2>3, <2>9 DEF SetDefCmd, LoadStart, LoadEnd, LoadFail, mem, NoLeak
  <2>10. CASE Restart
    BY <2>10 DEF Restart, NoLeak
  <2>11. CASE UNCHANGED vars
    BY <2>11 DEF vars, NoLeak
  <2>12. QED BY <2>4, <2>5, <2>6, <2>7, <2>8, <2>9, <2>10, <2>11 DEF Next
<1>3. QED BY <1>1, <1>2, TInvInit, TInvNext, PTL DEF Spec

(* With any allocator and in any build, whatever counter and pointer say,  *)
(* only 'del' loses memory.                                                *)
THEOREM OnlyDelLosesMemory == Spec => OnlyDelLoses
<1> DEFINE Step == Lost' \subseteq Lost \/ \E i \in 0 .. Count - 1 : DelCmd(i)
<1>1. ASSUME TInv, [Next]_vars PROVE [Step]_vars
  <2> SUFFICES ASSUME Next PROVE Step
    BY <1>1
  <2>1. ASSUME NEW s, Stop(s) PROVE Step
    BY <2>1 DEF Stop, mem, Lost
  <2>2. ASSUME NEW i \in 0 .. Count, NEW v \in Value, AddAt(i, v) PROVE Step
    BY <2>2 DEF AddAt, Replaced, Lost
  <2>3. CASE SetDefault
    BY <2>3 DEF SetDefault, Freed, mem, Lost
  <2>4. ASSUME NEW i \in 0 .. Count, AddCmd(i) PROVE Step
    BY <2>1, <2>2, <2>4 DEF AddCmd
  <2>5. ASSUME NEW i \in 0 .. Count, DelCmd(i) PROVE Step
    <3>1. i \in 0 .. Count - 1
      BY <2>5, <1>1, CountType DEF DelCmd, TInv
    <3>2. QED BY <2>5, <3>1
  <2>6. ASSUME NEW i \in 0 .. Count, NEW v \in Value, SetCmd(i, v) PROVE Step
    BY <2>1, <2>6 DEF SetCmd, Lost
  <2>7. ASSUME NEW v \in Value, ImplicitAddCmd(v) PROVE Step
    BY <1>1, <2>1, <2>2, <2>7, CountType DEF ImplicitAddCmd, TInv
  <2>8. ASSUME NEW v \in Value, LoadItem(v) PROVE Step
    <3>1. CASE \E s : Stop(s)
      BY <2>1, <3>1
    <3>2. CASE AddAt(loadIdx, v)
      BY <3>2 DEF AddAt, Replaced, Lost
    <3>3. QED BY <2>8, <3>1, <3>2 DEF LoadItem
  <2>9. CASE SetDefCmd \/ LoadStart \/ LoadEnd \/ LoadFail
    BY <2>1, <2>3, <2>9 DEF SetDefCmd, LoadStart, LoadEnd, LoadFail, mem, Lost
  <2>10. CASE Restart
    BY <2>10 DEF Restart, Lost
  <2>11. QED BY <2>4, <2>5, <2>6, <2>7, <2>8, <2>9, <2>10 DEF Next
<1> HIDE DEF Step
<1>2. Spec => [][Step]_vars
  BY <1>1, TInvInit, TInvNext, PTL DEF Spec
<1>3. QED BY <1>2 DEF OnlyDelLoses, Step

-----------------------------------------------------------------------------
(* The array and its counter.  An implicit add at a full array is stopped   *)
(* only by an assert, and del only gets its block back from an allocator    *)
(* that shrinks: under these two conditions pointer, counter and block      *)
(* agree and no item is uninitialized.                                      *)

Guarded == (Asserts \/ MaxCount = 1) /\ ~ShrinkFails

MInv ==
  /\ TInv
  /\ PointerMatchesCount
  /\ CountInRange
  /\ ItemsInitialized
  /\ NoUndefined
  /\ loadIdx # NotLoading => loadIdx = Count

LEMMA AddMInv ==
  ASSUME MInv, NEW i \in 0 .. Count, NEW v \in Value, AddAt(i, v),
         Count < MaxCount, HasCounter => Count + 1 <= CounterMax
  PROVE  /\ PointerMatchesCount' /\ CountInRange' /\ ItemsInitialized'
         /\ Count' = Count + 1
<1>1. Count \in 0 .. CounterMax /\ MemTypeOK
  BY CountType DEF MInv, TInv, TypeOK, MemTypeOK
<1>2. /\ SetCount(Count + 1)
      /\ ppItems' # NULL
      /\ heap'[ppItems'] = MovedUp(Resized(Contents, Count + 1), i, v)
      /\ DOMAIN heap'[ppItems'] = 0 .. Count
  BY AddEffect DEF MInv, TInv
<1>3. Count' = Count + 1
  <2>1. CASE HasCounter
    <3>1. (Count + 1) % (CounterMax + 1) = Count + 1
      BY <1>1, <2>1
    <3>2. QED BY <1>2, <2>1, <3>1 DEF SetCount, Count
  <2>2. CASE ~HasCounter
    BY <1>1, <1>2, <2>2 DEF Count
  <2>3. QED BY <2>1, <2>2
<1>4. DOMAIN Contents = 0 .. Count - 1 /\ \A j \in DOMAIN Contents : Contents[j] # Garbage
  BY <1>1 DEF MInv, TInv, PointerMatchesCount, BlockCoversCount, ItemsInitialized,
              Contents, EmptyBlock
<1>5. \A j \in 0 .. Count : heap'[ppItems'][j] # Garbage
  <2>1. Contents \in Block
    BY <1>1, ContentsType
  <2>2. \A j \in 0 .. Count : MovedUp(Resized(Contents, Count + 1), i, v)[j] # Garbage
    BY <1>1, <1>4, <2>1, InsertedBlock
  <2>3. QED BY <1>2, <2>2
<1>6. QED BY <1>1, <1>2, <1>3, <1>5
          DEF PointerMatchesCount, CountInRange, ItemsInitialized

LEMMA DelMInv ==
  ASSUME MInv, ~ShrinkFails, NEW i \in 0 .. Count - 1,
         Shrink(MovedDown(Contents, i, Count), Count - 1), SetCount(Count - 1)
  PROVE  PointerMatchesCount' /\ CountInRange' /\ ItemsInitialized'
<1>1. Count \in 1 .. CounterMax /\ MemTypeOK
  BY CountType DEF MInv, TInv, TypeOK, MemTypeOK
<1>2. /\ ppItems # NULL
      /\ DOMAIN Contents = 0 .. Count - 1
      /\ \A j \in DOMAIN Contents : Contents[j] # Garbage
  BY <1>1 DEF MInv, TInv, PointerMatchesCount, BlockCoversCount, ItemsInitialized, Contents
<1>3. CASE Count - 1 = 0
  <2>1. ppItems' = NULL
    BY <1>3 DEF Shrink
  <2>2. Count' = 0
    BY <1>3, <2>1 DEF SetCount, Count
  <2>3. QED BY <2>1, <2>2 DEF PointerMatchesCount, CountInRange, ItemsInitialized
<1>4. CASE Count - 1 # 0
  <2>1. ppItems' # NULL
    BY <1>1, <1>4 DEF Shrink, Targets, MemTypeOK
  <2>2. heap'[ppItems'] = Resized(MovedDown(Contents, i, Count), Count - 1)
    BY <1>2, <2>1, ShrinkEffect DEF MInv, TInv
  <2>3. Contents \in Block
    BY <1>1, ContentsType
  <2>4. \A j \in DOMAIN heap'[ppItems'] : heap'[ppItems'][j] # Garbage
    <3> DEFINE c == Resized(MovedDown(Contents, i, Count), Count - 1)
    <3>1. Count \in 1 .. CounterMax + 1
      BY <1>1
    <3>2. \A j \in DOMAIN c : c[j] # Garbage
      BY <1>2, <2>3, <3>1, RemovedBlock
    <3> HIDE DEF c
    <3>3. heap'[ppItems'] = c
      BY <2>2 DEF c
    <3>4. QED BY <3>2, <3>3
  <2>5. HasCounter
    BY <1>1, <1>4 DEF Count
  <2>6. Count' = Count - 1
    BY <1>1, <2>5 DEF SetCount, Count
  <2>7. QED BY <1>1, <1>4, <2>1, <2>4, <2>6
            DEF MInv, PointerMatchesCount, CountInRange, ItemsInitialized
<1>5. QED BY <1>3, <1>4

LEMMA MInvNext ==
  ASSUME Guarded, MInv, [Next]_vars
  PROVE  MInv'
<1> USE DEF NotLoading
<1>1. TInv'
  BY TInvNext DEF MInv
<1>2. Count \in 0 .. CounterMax /\ ~NullItems
  BY CountType DEF MInv, TInv, PointerMatchesCount, NullItems
<1>3. CASE Stop("aborted") \/ UNCHANGED vars
  BY <1>1, <1>3 DEF Stop, vars, mem, MInv, PointerMatchesCount, CountInRange,
                    ItemsInitialized, NoUndefined, Count
<1>4. ASSUME NEW i \in 0 .. Count, NEW v \in Value, AddAt(i, v), ~AddAsserts,
             status' = status, MaxCount = 1 => Count = 0,
             \/ UNCHANGED loadIdx /\ loadIdx = NotLoading
             \/ loadIdx = Count /\ loadIdx' = loadIdx + 1
      PROVE  MInv'
  <2>1. Count < MaxCount /\ (HasCounter => Count + 1 <= CounterMax)
    BY <1>2, <1>4 DEF Guarded, AddAsserts
  <2>2. PointerMatchesCount' /\ CountInRange' /\ ItemsInitialized' /\ Count' = Count + 1
    BY <1>4, <2>1, AddMInv
  <2>3. QED BY <1>1, <1>4, <2>2 DEF MInv, NoUndefined
<1>5. ASSUME NEW i \in 0 .. Count, AddCmd(i) PROVE MInv'
  BY <1>2, <1>3, <1>4, <1>5 DEF AddCmd, AtPrompt
<1>6. ASSUME NEW i \in 0 .. Count, DelCmd(i) PROVE MInv'
  <2>1. i \in 0 .. Count - 1
    BY <1>2, <1>6 DEF DelCmd
  <2>2. PointerMatchesCount' /\ CountInRange' /\ ItemsInitialized'
    BY <1>2, <1>6, <2>1, DelMInv DEF DelCmd, Guarded
  <2>3. QED BY <1>1, <1>2, <1>6, <2>2 DEF DelCmd, AtPrompt, MInv, NoUndefined
<1>7. ASSUME NEW i \in 0 .. Count, NEW v \in Value, SetCmd(i, v) PROVE MInv'
  <2>1. /\ heap' = [heap EXCEPT ![ppItems] = [heap[ppItems] EXCEPT ![i] = v]]
        /\ UNCHANGED <<ppItems, counter, loadIdx, status>>
    BY <1>2, <1>7 DEF SetCmd
  <2>2. ItemsInitialized'
    BY <2>1 DEF MInv, TInv, TypeOK, ItemsInitialized, Block
  <2>3. QED BY <1>1, <2>1, <2>2
            DEF MInv, PointerMatchesCount, CountInRange, NoUndefined, Count
<1>8. ASSUME NEW v \in Value, ImplicitAddCmd(v) PROVE MInv'
  BY <1>2, <1>3, <1>4, <1>8 DEF ImplicitAddCmd, AtPrompt
<1>9. ASSUME NEW v \in Value, LoadItem(v) PROVE MInv'
  <2>1. loadIdx = Count /\ loadIdx \in 0 .. MaxCount - 1
    BY <1>2, <1>9 DEF LoadItem, MInv
  <2>2. QED BY <1>2, <1>3, <1>4, <1>9, <2>1 DEF LoadItem
<1>10. CASE SetDefCmd \/ LoadStart \/ LoadFail
  <2>1. SetDefault /\ UNCHANGED status /\ loadIdx' \in {NotLoading, 0}
    BY <1>2, <1>10 DEF SetDefCmd, LoadStart, LoadFail, AtPrompt
  <2>2. Count' = 0 /\ ppItems' = NULL
    BY <1>2, <2>1, SetDefaultTInv DEF MInv
  <2>3. QED BY <1>1, <2>1, <2>2
            DEF MInv, PointerMatchesCount, CountInRange, ItemsInitialized, NoUndefined
<1>11. CASE LoadEnd
  BY <1>1, <1>11 DEF LoadEnd, mem, MInv, PointerMatchesCount, CountInRange,
                     ItemsInitialized, NoUndefined, Count
<1>12. CASE Restart
  BY <1>1, <1>12 DEF Restart, MInv, PointerMatchesCount, CountInRange,
                     ItemsInitialized, NoUndefined, Count
<1>13. QED BY <1>3, <1>5, <1>6, <1>7, <1>8, <1>9, <1>10, <1>11, <1>12 DEF Next

LEMMA MInvAlways == ASSUME Guarded PROVE Spec => []MInv
<1>1. Init => MInv
  BY TInvInit DEF Init, MInv, PointerMatchesCount, CountInRange, ItemsInitialized,
                  NoUndefined, Count, NotLoading
<1>2. QED BY <1>1, MInvNext, PTL DEF Spec

(* The sanity checks of freeItems hold: the pointer is null exactly when   *)
(* the count is 0.                                                         *)
THEOREM PointerAndCountAgree ==
  ASSUME Guarded PROVE Spec => []PointerMatchesCount
<1>1. MInv => PointerMatchesCount
  BY DEF MInv
<1>2. QED BY <1>1, MInvAlways, PTL

(* There are never more items than the schema allows.                      *)
THEOREM NotMoreThanMax ==
  ASSUME Guarded PROVE Spec => []CountInRange
<1>1. MInv => CountInRange
  BY DEF MInv
<1>2. QED BY <1>1, MInvAlways, PTL

(* The block is exactly as long as the count says, so reading or writing   *)
(* any item the evaluation accepts stays inside it.                        *)
THEOREM BlockAndCountAgree ==
  ASSUME Guarded PROVE Spec => []BlockFitsCount
<1>1. MInv => BlockFitsCount
  BY CountType DEF MInv, TInv, PointerMatchesCount, BlockCoversCount, BlockFitsCount
<1>2. QED BY <1>1, MInvAlways, PTL

(* No item the operator or the application sees is uninitialized memory.   *)
THEOREM NoItemUninitialized ==
  ASSUME Guarded PROVE Spec => []ItemsInitialized
<1>1. MInv => ItemsInitialized
  BY DEF MInv
<1>2. QED BY <1>1, MInvAlways, PTL

(* No command and no load writes through a null pointer or past the block. *)
THEOREM NothingUndefined ==
  ASSUME Guarded PROVE Spec => []NoUndefined
<1>1. MInv => NoUndefined
  BY DEF MInv
<1>2. QED BY <1>1, MInvAlways, PTL

-----------------------------------------------------------------------------
(* The memory implements the list of items of module OwnedItems. *)

Abs == [i \in 0 .. Count - 1 |-> Contents[i]]

LEMMA AbsSize == MInv => Items!Size(Abs) = Count /\ Count \in 0 .. MaxCount
<1> SUFFICES ASSUME MInv PROVE Items!Size(Abs) = Count /\ Count \in 0 .. MaxCount
  OBVIOUS
<1>1. Count \in 0 .. MaxCount
  BY CountType DEF MInv, TInv, CountInRange
<1>2. DOMAIN Abs = 0 .. Count - 1
  BY DEF Abs
<1>3. ASSUME NEW n \in 0 .. MaxCount, 0 .. Count - 1 = 0 .. n - 1
      PROVE  n = Count
  BY <1>1, <1>3
<1>4. QED BY <1>1, <1>2, <1>3 DEF Items!Size

LEMMA AddImplements ==
  ASSUME MInv, NEW i \in 0 .. Count, NEW v \in Value, AddAt(i, v),
         Count < MaxCount, HasCounter => Count + 1 <= CounterMax
  PROVE  Abs' = Items!Inserted(Abs, Items!Size(Abs), i, v)
<1>1. Count \in 0 .. CounterMax /\ MemTypeOK
  BY CountType DEF MInv, TInv, TypeOK, MemTypeOK
<1>2. Count' = Count + 1
  BY AddMInv
<1>3. /\ ppItems' # NULL
      /\ heap'[ppItems'] = MovedUp(Resized(Contents, Count + 1), i, v)
  BY AddEffect DEF MInv, TInv
<1>4. DOMAIN Contents = 0 .. Count - 1
  BY <1>1 DEF MInv, TInv, PointerMatchesCount, BlockCoversCount, Contents, EmptyBlock
<1>5. Abs' = [j \in 0 .. Count |-> heap'[ppItems'][j]]
  BY <1>1, <1>2, <1>3 DEF Abs, Contents
<1>6. \A j \in 0 .. Count :
         heap'[ppItems'][j] = IF j < i THEN Contents[j]
                              ELSE IF j = i THEN v ELSE Contents[j-1]
  BY <1>1, <1>3, <1>4 DEF MovedUp, Resized
<1>7. Items!Size(Abs) = Count
  BY AbsSize
<1>8. \A j \in 0 .. Count - 1 : Abs[j] = Contents[j]
  BY DEF Abs
<1>9. Items!Inserted(Abs, Count, i, v)
        = [j \in 0 .. Count |-> IF j < i THEN Abs[j] ELSE IF j = i THEN v ELSE Abs[j-1]]
  BY DEF Items!Inserted
<1>10. \A j \in 0 .. Count :
          heap'[ppItems'][j] = IF j < i THEN Abs[j] ELSE IF j = i THEN v ELSE Abs[j-1]
  BY <1>1, <1>6, <1>8
<1>11. QED BY <1>5, <1>7, <1>9, <1>10

LEMMA DelImplements ==
  ASSUME MInv, ~ShrinkFails, NEW i \in 0 .. Count - 1,
         Shrink(MovedDown(Contents, i, Count), Count - 1), SetCount(Count - 1)
  PROVE  Abs' = Items!Removed(Abs, Items!Size(Abs), i)
<1>1. Count \in 1 .. CounterMax
  BY CountType DEF MInv, TInv
<1>2. ppItems # NULL /\ DOMAIN Contents = 0 .. Count - 1 /\ MemTypeOK
  BY <1>1 DEF MInv, TInv, TypeOK, MemTypeOK, PointerMatchesCount, BlockCoversCount, Contents
<1>3. Items!Size(Abs) = Count
  BY AbsSize
<1>4. CASE Count - 1 = 0
  <2>1. ppItems' = NULL
    BY <1>4 DEF Shrink
  <2>2. Count' = 0
    BY <1>4, <2>1 DEF SetCount, Count
  <2>3. QED BY <1>1, <1>3, <1>4, <2>2 DEF Items!Removed, Abs
<1>5. CASE Count - 1 # 0
  <2>1. ppItems' # NULL
    BY <1>1, <1>2, <1>5 DEF Shrink, Targets, MemTypeOK
  <2>2. heap'[ppItems'] = Resized(MovedDown(Contents, i, Count), Count - 1)
    BY <1>2, <2>1, ShrinkEffect DEF MInv, TInv
  <2>3. HasCounter
    BY <1>1, <1>5 DEF Count
  <2>4. Count' = Count - 1
    BY <1>1, <2>3 DEF SetCount, Count
  <2>5. Abs' = [j \in 0 .. Count - 2 |-> heap'[ppItems'][j]]
    BY <1>1, <2>1, <2>4 DEF Abs, Contents
  <2>6. \A j \in 0 .. Count - 2 :
           heap'[ppItems'][j] = IF j < i THEN Contents[j] ELSE Contents[j+1]
    BY <1>1, <1>2, <2>2 DEF MovedDown, Resized
  <2>7. \A j \in 0 .. Count - 1 : Abs[j] = Contents[j]
    BY DEF Abs
  <2>8. Items!Removed(Abs, Count, i)
          = [j \in 0 .. Count - 2 |-> IF j < i THEN Abs[j] ELSE Abs[j+1]]
    BY DEF Items!Removed
  <2>9. \A j \in 0 .. Count - 2 :
           heap'[ppItems'][j] = IF j < i THEN Abs[j] ELSE Abs[j+1]
    BY <1>1, <2>6, <2>7
  <2>10. QED BY <1>3, <2>5, <2>8, <2>9
<1>6. QED BY <1>4, <1>5

LEMMA StepImplements ==
  ASSUME Guarded, MInv, [Next]_vars
  PROVE  Items!Next \/ Abs' = Abs
<1> USE DEF NotLoading
<1>1. Count \in 0 .. CounterMax /\ ~NullItems /\ MemTypeOK
  BY CountType DEF MInv, TInv, TypeOK, MemTypeOK, PointerMatchesCount, NullItems
<1>2. Items!Size(Abs) = Count /\ Count \in 0 .. MaxCount /\ DOMAIN Abs = 0 .. Count - 1
  BY AbsSize DEF Abs
<1>3. CASE UNCHANGED mem
  BY <1>3 DEF mem, Abs, Contents, Count
<1>4. ASSUME NEW i \in 0 .. Count, NEW v \in Value, AddAt(i, v), ~AddAsserts,
             MaxCount = 1 => Count = 0
      PROVE  Count < MaxCount /\ Abs' = Items!Inserted(Abs, Items!Size(Abs), i, v)
  <2>1. Count < MaxCount /\ (HasCounter => Count + 1 <= CounterMax)
    BY <1>1, <1>2, <1>4 DEF Guarded, AddAsserts
  <2>2. QED BY <1>4, <2>1, AddImplements
<1>5. ASSUME NEW i \in 0 .. Count, AddCmd(i) PROVE Items!Next \/ Abs' = Abs
  <2>1. CASE Stop("aborted")
    BY <1>3, <2>1 DEF Stop
  <2>2. CASE ~AddAsserts /\ AddAt(i, Default)
    <3>1. Count < MaxCount /\ Abs' = Items!Inserted(Abs, Items!Size(Abs), i, Default)
      BY <1>1, <1>4, <1>5, <2>2 DEF AddCmd
    <3>2. Items!Add(i) /\ i \in 0 .. MaxCount
      BY <1>2, <3>1 DEF Items!Add, Abs
    <3>3. QED BY <3>2 DEF Items!Next
  <2>3. QED BY <1>5, <2>1, <2>2 DEF AddCmd
<1>6. ASSUME NEW i \in 0 .. Count, DelCmd(i) PROVE Items!Next \/ Abs' = Abs
  <2>1. i \in 0 .. Count - 1
    BY <1>1, <1>6 DEF DelCmd
  <2>2. Abs' = Items!Removed(Abs, Items!Size(Abs), i)
    BY <1>1, <1>6, <2>1, DelImplements DEF DelCmd, Guarded
  <2>3. Items!Del(i) /\ i \in 0 .. MaxCount
    BY <1>2, <2>1, <2>2 DEF Items!Del, Abs
  <2>4. QED BY <2>3 DEF Items!Next
<1>7. ASSUME NEW i \in 0 .. Count, NEW v \in Value, SetCmd(i, v)
      PROVE  Items!Next \/ Abs' = Abs
  <2>1. /\ heap' = [heap EXCEPT ![ppItems] = [heap[ppItems] EXCEPT ![i] = v]]
        /\ UNCHANGED <<ppItems, counter>>
        /\ i \in 0 .. Count - 1
    BY <1>1, <1>7 DEF SetCmd
  <2>2. ppItems # NULL /\ ppItems \in DOMAIN heap /\ DOMAIN heap[ppItems] = 0 .. Count - 1
    BY <1>1, <2>1 DEF MInv, TInv, PointerMatchesCount, BlockCoversCount, MemTypeOK
  <2>3. Count' = Count /\ heap'[ppItems'] = [heap[ppItems] EXCEPT ![i] = v]
    BY <2>1, <2>2 DEF Count
  <2>4. Abs' = [Abs EXCEPT ![i] = v]
    BY <2>1, <2>2, <2>3 DEF Abs, Contents
  <2>5. Items!Put(i, v) /\ i \in 0 .. MaxCount
    BY <1>2, <2>1, <2>4 DEF Items!Put, Abs
  <2>6. QED BY <2>5 DEF Items!Next
<1>8. ASSUME NEW v \in Value, AddAt(Count, v), ~AddAsserts, MaxCount = 1 => Count = 0
      PROVE  Items!Next \/ Abs' = Abs
  <2>1. Count < MaxCount /\ Abs' = Items!Inserted(Abs, Items!Size(Abs), Count, v)
    BY <1>1, <1>4, <1>8
  <2>2. Items!Put(Count, v) /\ Count \in 0 .. MaxCount
    BY <1>2, <2>1 DEF Items!Put, Abs
  <2>3. QED BY <2>2 DEF Items!Next
<1>9. ASSUME NEW v \in Value, ImplicitAddCmd(v) PROVE Items!Next \/ Abs' = Abs
  BY <1>3, <1>8, <1>9 DEF ImplicitAddCmd, Stop
<1>10. ASSUME NEW v \in Value, LoadItem(v) PROVE Items!Next \/ Abs' = Abs
  <2>1. loadIdx = Count /\ loadIdx \in 0 .. MaxCount - 1
    BY <1>1, <1>10 DEF LoadItem, MInv
  <2>2. QED BY <1>1, <1>3, <1>8, <1>10, <2>1 DEF LoadItem, Stop
<1>11. CASE SetDefCmd \/ LoadStart \/ LoadFail
  <2>1. SetDefault
    BY <1>1, <1>11 DEF SetDefCmd, LoadStart, LoadFail
  <2>2. Count' = 0
    BY <1>1, <2>1, SetDefaultTInv DEF MInv
  <2>3. Items!Clear
    BY <2>2 DEF Items!Clear, Abs
  <2>4. QED BY <2>3 DEF Items!Next
<1>12. CASE LoadEnd
  BY <1>3, <1>12 DEF LoadEnd
<1>13. CASE Restart
  <2>1. Count' = 0
    BY <1>13 DEF Restart, Count
  <2>2. Items!Clear
    BY <2>1 DEF Items!Clear, Abs
  <2>3. QED BY <2>2 DEF Items!Next
<1>14. CASE UNCHANGED vars
  BY <1>3, <1>14 DEF vars, mem
<1>15. QED
  BY <1>5, <1>6, <1>7, <1>9, <1>10, <1>11, <1>12, <1>13, <1>14 DEF Next

(* The pointer, counter and blocks implement the list of items: every      *)
(* command and every step of a load changes the list as OwnedItems allows. *)
THEOREM MemoryImplementsItems ==
  ASSUME Guarded PROVE Spec => ImplementsItems
<1>1. Init => Items!Init
  BY DEF Init, Items!Init, Count, Contents
<1>2. MInv /\ [Next]_vars => [Items!Next]_Abs
  BY StepImplements
<1>3. QED BY <1>1, <1>2, MInvAlways, PTL DEF Spec, ImplementsItems, Items!Spec, Abs
=============================================================================
