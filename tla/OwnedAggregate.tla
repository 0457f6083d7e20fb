--------------------------- MODULE OwnedAggregate ---------------------------
(***************************************************************************)
(* One Owned_aggregate of one parent item, at the level of its memory: the *)
(* parent holds a pointer to a block of items and, when there can be more  *)
(* than one item, a counter of limited width.  Adding and deleting go      *)
(* through realloc, whose outcome is up to the allocator.                  *)
(*                                                                         *)
(* A command is evaluated and then executed by one thread, so each is one  *)
(* step.  A load is not a command but a run of steps, one per stored item: *)
(* nothing else runs in between, but every item can fail.  Items found by  *)
(* key are items found by index here: a key is resolved to the index of an *)
(* existing item or to the count (Item_identifier_key::find_key).          *)
(***************************************************************************)
EXTENDS Integers

CONSTANTS
  Value,            \* the values of an item
  Default,          \* the value of an item after memset and setDefault
  Garbage,          \* what memory holds that nobody wrote
  Addr,             \* the addresses of blocks
  NULL,             \* nullptr
  MaxCount,         \* Aggregate_data::maxCount
  HasCounter,       \* m_counterAggr != nullptr
  CounterMax,       \* the largest value of the counter's type
  Asserts,          \* assert() is compiled in (a build without NDEBUG)
  AllocFails,       \* realloc may fail to make a block larger
  ShrinkFails,      \* realloc may fail to make a block smaller
  ZeroReallocFrees  \* realloc(p, 0) frees p and returns nullptr

ASSUME ValueAssumption   == Default \in Value /\ Garbage \notin Value
ASSUME AddrAssumption    == NULL \notin Addr
ASSUME MaxCountAssumption == MaxCount \in Nat \ {0}
\* A counter is mandatory when there can be more than one item.
ASSUME CounterAssumption ==
  /\ HasCounter \in BOOLEAN
  /\ ~HasCounter => MaxCount = 1
  /\ CounterMax \in Nat \ {0}
ASSUME BuildAssumption ==
  /\ Asserts \in BOOLEAN
  /\ AllocFails \in BOOLEAN
  /\ ShrinkFails \in BOOLEAN
  /\ ZeroReallocFrees \in BOOLEAN

VARIABLES
  ppItems,  \* the parent's pointer to the items
  counter,  \* the parent's counter (0 when it has none)
  heap,     \* the blocks that are allocated, each a function on 0 .. n-1
  loadIdx,  \* Aggregate::load's index, or NotLoading
  status    \* "running", "aborted" by an assert, "undefined" after a bad access

mem  == <<ppItems, counter, heap>>
vars == <<ppItems, counter, heap, loadIdx, status>>

Slot  == Value \cup {Garbage}
Block == UNION {[0 .. n-1 -> Slot] : n \in 0 .. CounterMax + 1}

(* Owned_aggregate::getCount *)
Count == IF HasCounter THEN counter ELSE IF ppItems = NULL THEN 0 ELSE 1

NotLoading == -1

EmptyBlock == [j \in 0 .. -1 |-> Garbage]
Contents   == IF ppItems = NULL THEN EmptyBlock ELSE heap[ppItems]

-----------------------------------------------------------------------------
(* The allocator. *)

(* A block after realloc to n items: what fits is kept, the rest is new. *)
Resized(b, n) == [j \in 0 .. n-1 |-> IF j \in DOMAIN b THEN b[j] ELSE Garbage]

(* Where realloc may put the block: where it is, or any free address. *)
Targets == {a \in Addr : a \notin DOMAIN heap \/ a = ppItems}

(* The heap when the items' block is now block b at a. *)
Replaced(a, b) ==
  [x \in (DOMAIN heap \ {ppItems}) \cup {a} |-> IF x = a THEN b ELSE heap[x]]

(* The heap without the items' block. *)
Freed == [x \in DOMAIN heap \ {ppItems} |-> heap[x]]

-----------------------------------------------------------------------------
(* The operations on the array. *)

(* Mutant: the displaced items are not moved. *)
MovedUpInPlace(b, i, v) == [j \in DOMAIN b |-> IF j = i THEN v ELSE b[j]]

(* Mutant: the added item is not set to its default. *)
MovedUpNoDefault(b, i, v) ==
  [j \in DOMAIN b |-> IF j < i THEN b[j]
                      ELSE IF j > i THEN b[j-1]
                      ELSE IF v = Default THEN Garbage ELSE v]

(* memmove of the displaced items, then memset and setDefault of item i,   *)
(* which then gets value v: Default for 'add', the operator's or the       *)
(* store's value when the item is added to be assigned.                    *)
MovedUp(b, i, v) ==
  [j \in DOMAIN b |-> IF j < i THEN b[j] ELSE IF j = i THEN v ELSE b[j-1]]

(* Mutant: the move starts one item too far. *)
MovedDownFar(b, i, n) ==
  [j \in DOMAIN b |-> IF i <= j /\ j < n-2 THEN b[j+2] ELSE b[j]]

(* memmove of the items after i. *)
MovedDown(b, i, n) ==
  [j \in DOMAIN b |-> IF i <= j /\ j < n-1 THEN b[j+1] ELSE b[j]]

(* setCount, in the width of the counter. *)
SetCount(n) == counter' = IF HasCounter THEN n % (CounterMax + 1) ELSE counter

(* Mutant: the comparison with maxCount is off by one. *)
AddAssertsLate ==
  Asserts /\ (Count > MaxCount \/ (HasCounter /\ Count + 1 > CounterMax))

(* The asserts in add and in the setCount that ends it. *)
AddAsserts ==
  Asserts /\ (Count >= MaxCount \/ (HasCounter /\ Count + 1 > CounterMax))

(* Mutant: the block is not made larger. *)
AddAtShort(i, v) ==
  \E a \in Targets :
    /\ ppItems' = a
    /\ heap' = Replaced(a, MovedUp(Resized(Contents, Count), i, v))
    /\ SetCount(Count + 1)

(* add, when realloc succeeds. *)
AddAt(i, v) ==
  \E a \in Targets :
    /\ ppItems' = a
    /\ heap' = Replaced(a, MovedUp(Resized(Contents, Count + 1), i, v))
    /\ SetCount(Count + 1)

(* Mutant: freeItems does not clear the pointer. *)
SetDefaultDangling ==
  IF ppItems = NULL THEN UNCHANGED mem
  ELSE ppItems' = ppItems /\ heap' = Freed /\ SetCount(0)

(* Mutant: freeItems does not reset the counter. *)
SetDefaultKeepsCount ==
  IF ppItems = NULL THEN UNCHANGED mem
  ELSE ppItems' = NULL /\ heap' = Freed /\ UNCHANGED counter

(* Mutant: freeItems clears the pointer and does not free. *)
SetDefaultForgets ==
  IF ppItems = NULL THEN UNCHANGED mem
  ELSE ppItems' = NULL /\ UNCHANGED heap /\ SetCount(0)

(* Aggregate::setDefault, and the freeItems it ends with. *)
SetDefault ==
  IF ppItems = NULL THEN UNCHANGED mem
  ELSE /\ ppItems' = NULL
       /\ heap' = Freed
       /\ SetCount(0)

(* The pointer says there are no items and the counter says there are: the *)
(* next access to one is an access through nullptr.                        *)
NullItems == ppItems = NULL /\ Count > 0

Stop(s) == status' = s /\ UNCHANGED <<mem, loadIdx>>

-----------------------------------------------------------------------------
Init ==
  /\ ppItems = NULL
  /\ counter = 0
  /\ heap = [a \in {} |-> EmptyBlock]
  /\ loadIdx = NotLoading
  /\ status = "running"

AtPrompt == status = "running" /\ loadIdx = NotLoading

(* 'add [i]': evalAdd, handleAdd, add.  Without an index i is the count.   *)
(* When realloc fails the command does nothing.                            *)
AddCmd(i) ==
  /\ AtPrompt
  /\ Count < MaxCount
  /\ \/ AddAsserts /\ Stop("aborted")
     \/ ~AddAsserts /\ AddAt(i, Default) /\ UNCHANGED <<loadIdx, status>>

(* '[i] = v', i an existing item: evalCmd, getComponentItem, set. *)
SetCmd(i, v) ==
  /\ AtPrompt
  /\ i < Count
  /\ MaxCount = 1 => i = 0
  /\ \/ NullItems /\ Stop("undefined")
     \/ /\ ~NullItems
        /\ heap' = [heap EXCEPT ![ppItems][i] = v]
        /\ UNCHANGED <<ppItems, counter, loadIdx, status>>

(* '[i] = v', i the count: evalCmd accepts it as an implicit add, without  *)
(* looking at maxCount, and getComponentItem calls add.  If that fails it  *)
(* asserts; in a build without asserts set(nullptr) changes nothing.       *)
ImplicitAddCmd(v) ==
  /\ AtPrompt
  /\ MaxCount = 1 => Count = 0
  /\ \/ AddAsserts /\ Stop("aborted")
     \/ ~AddAsserts /\ AddAt(Count, v) /\ UNCHANGED <<loadIdx, status>>
     \/ ~AddAsserts /\ AllocFails /\ Asserts /\ Stop("aborted")

(* Mutant: the pointer to the last item's block is cleared, not freed. *)
ShrinkForgets(b, n) ==
  IF n = 0
  THEN ppItems' = NULL /\ UNCHANGED heap
  ELSE \E a \in Targets : ppItems' = a /\ heap' = Replaced(a, Resized(b, n))

(* realloc to n items at the end of del; its result is not looked at. *)
Shrink(b, n) ==
  IF n = 0
  THEN /\ ppItems' = NULL
       /\ \/ ZeroReallocFrees /\ heap' = Freed
          \/ ~ZeroReallocFrees /\ \E a \in Targets : heap' = Replaced(a, EmptyBlock)
  ELSE \/ \E a \in Targets : ppItems' = a /\ heap' = Replaced(a, Resized(b, n))
       \/ ShrinkFails /\ ppItems' = NULL /\ heap' = [heap EXCEPT ![ppItems] = b]

(* 'del [i]': evalDel, handleDel, del. *)
DelCmd(i) ==
  /\ AtPrompt
  /\ i < Count
  /\ MaxCount = 1 => i = 0
  /\ \/ NullItems /\ Stop(IF Asserts THEN "aborted" ELSE "undefined")
     \/ /\ ~NullItems
        /\ Shrink(MovedDown(Contents, i, Count), Count - 1)
        /\ SetCount(Count - 1)
        /\ UNCHANGED <<loadIdx, status>>

(* 'setdef' of the parent. *)
SetDefCmd ==
  /\ AtPrompt
  /\ \/ NullItems /\ Stop("undefined")
     \/ ~NullItems /\ SetDefault /\ UNCHANGED <<loadIdx, status>>

(* Mutant: the load counts its items from 1. *)
LoadStartAtOne ==
  AtPrompt /\ ~NullItems /\ SetDefault /\ loadIdx' = 1 /\ UNCHANGED status

(* 'load' first sets everything to default. *)
LoadStart ==
  /\ AtPrompt
  /\ \/ NullItems /\ Stop("undefined")
     \/ ~NullItems /\ SetDefault /\ loadIdx' = 0 /\ UNCHANGED status

(* loadItem found an item: getComponentItem adds it, endLoad reads it.     *)
(* Should the counter have wrapped, the item is written past the block.    *)
LoadItem(v) ==
  /\ status = "running"
  /\ loadIdx \in 0 .. MaxCount - 1
  /\ \/ AddAsserts /\ Stop("aborted")
     \/ ~AddAsserts /\ loadIdx > Count /\ Stop("undefined")
     \/ /\ ~AddAsserts /\ loadIdx <= Count
        /\ AddAt(loadIdx, v) /\ loadIdx' = loadIdx + 1 /\ UNCHANGED status

(* The store has no more items, or the array is full. *)
LoadEnd ==
  /\ status = "running"
  /\ loadIdx # NotLoading
  /\ loadIdx' = NotLoading
  /\ UNCHANGED <<mem, status>>

(* An item did not load, or there was no memory for it: everything is set  *)
(* to default.                                                             *)
LoadFail ==
  /\ status = "running"
  /\ loadIdx # NotLoading
  /\ SetDefault
  /\ loadIdx' = NotLoading
  /\ UNCHANGED status

(* The program is started again; the old process's memory is gone. *)
Restart ==
  /\ status # "running"
  /\ ppItems' = NULL /\ counter' = 0 /\ heap' = [a \in {} |-> EmptyBlock]
  /\ loadIdx' = NotLoading /\ status' = "running"

Next ==
  \/ \E i \in 0 .. Count : AddCmd(i) \/ DelCmd(i)
  \/ \E i \in 0 .. Count, v \in Value : SetCmd(i, v)
  \/ \E v \in Value : ImplicitAddCmd(v) \/ LoadItem(v)
  \/ SetDefCmd \/ LoadStart \/ LoadEnd \/ LoadFail \/ Restart

Spec == Init /\ [][Next]_vars

-----------------------------------------------------------------------------
(* The types.  The parent's pointer is null or points to an allocated      *)
(* block, never to one that realloc or free gave back.                     *)
TypeOK ==
  /\ ppItems \in DOMAIN heap \cup {NULL}
  /\ counter \in 0 .. CounterMax
  /\ DOMAIN heap \subseteq Addr
  /\ \A a \in DOMAIN heap : heap[a] \in Block
  /\ loadIdx \in {NotLoading} \cup 0 .. MaxCount
  /\ status \in {"running", "aborted", "undefined"}

(* The sanity checks of freeItems: the pointer is null exactly when there  *)
(* are no items.  With no counter that is how the count is defined, so the *)
(* property is about arrays with one.                                      *)
PointerMatchesCount == ppItems = NULL <=> Count = 0

(* Never more items than the schema allows, whatever command is typed.     *)
CountInRange == Count <= MaxCount

(* The block the parent points to is as long as the count says, so no      *)
(* access to an item is out of bounds and no memory is paid for twice.     *)
BlockFitsCount ==
  ppItems # NULL => DOMAIN heap[ppItems] = 0 .. Count - 1

(* Every item the count admits has been written: adding, moving and        *)
(* deleting never leave uninitialized memory behind as an item.            *)
ItemsInitialized ==
  ppItems # NULL => \A i \in DOMAIN heap[ppItems] : heap[ppItems][i] # Garbage

(* Every allocated block is the one the parent points to: no add, delete,  *)
(* set to default or failed load loses memory.                             *)
NoLeak == DOMAIN heap \subseteq {ppItems}

(* Memory is only ever lost by 'del', in any build and with any allocator: *)
(* add, set to default and every way a load ends lose none, though counter *)
(* and pointer may disagree.                                               *)
Lost == DOMAIN heap \ {ppItems}
OnlyDelLoses ==
  [][Lost' \subseteq Lost \/ \E i \in 0 .. Count - 1 : DelCmd(i)]_vars

(* Nothing goes through a null pointer to an item or past the block.       *)
NoUndefined == status # "undefined"

(* The array of memory implements the list of items. *)
Items == INSTANCE OwnedItems
  WITH items <- [i \in 0 .. Count - 1 |-> Contents[i]]
ImplementsItems == Items!Spec
=============================================================================
