----------------------------- MODULE OwnedItems -----------------------------
(***************************************************************************)
(* What an owned aggregate promises its users, without any memory: a list  *)
(* of at most MaxCount items that the operator adds to, sets, deletes from *)
(* and clears.  Indices start at 0, as on the command line.  A command     *)
(* that is refused, or that runs out of memory, changes nothing.           *)
(***************************************************************************)
EXTENDS Integers

CONSTANTS
  Value,     \* the values an item can have
  Default,   \* the value, one of them, of an item that was only added
  MaxCount   \* Aggregate_data::maxCount, at least 1

VARIABLE items   \* the items, a function on 0 .. n-1

ItemLists == UNION {[0 .. n-1 -> Value] : n \in 0 .. MaxCount}

(* The number of items in a list. *)
Size(s) == CHOOSE n \in 0 .. MaxCount : DOMAIN s = 0 .. n-1

(* s with v put before the item at index i (or after the last one). *)
Inserted(s, n, i, v) ==
  [j \in 0 .. n |-> IF j < i THEN s[j] ELSE IF j = i THEN v ELSE s[j-1]]

(* s without the item at index i. *)
Removed(s, n, i) == [j \in 0 .. n-2 |-> IF j < i THEN s[j] ELSE s[j+1]]

-----------------------------------------------------------------------------
Init == items = [j \in 0 .. -1 |-> Default]

(* 'add': a default item, anywhere in the list. *)
Add(i) ==
  /\ i \in 0 .. Size(items)
  /\ Size(items) < MaxCount
  /\ items' = Inserted(items, Size(items), i, Default)

(* '=': an existing item gets a value; one past the end is created. *)
Put(i, v) ==
  \/ /\ i \in DOMAIN items
     /\ items' = [items EXCEPT ![i] = v]
  \/ /\ i = Size(items)
     /\ Size(items) < MaxCount
     /\ items' = Inserted(items, Size(items), i, v)

(* 'del': the later items move down by one. *)
Del(i) ==
  /\ i \in DOMAIN items
  /\ items' = Removed(items, Size(items), i)

(* 'setdef', the start of a load, a failed load, a restart. *)
Clear == items' = [j \in 0 .. -1 |-> Default]

Next ==
  \/ \E i \in 0 .. MaxCount : Add(i) \/ Del(i)
  \/ \E i \in 0 .. MaxCount, v \in Value : Put(i, v)
  \/ Clear

Spec == Init /\ [][Next]_items
=============================================================================
