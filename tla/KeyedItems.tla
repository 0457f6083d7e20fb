------------------------------ MODULE KeyedItems ------------------------------
(***************************************************************************)
(* An owned array whose items are identified by a key, one of their own    *)
(* components (Item_identifier_key).  The operator types a word; the set   *)
(* function of the key turns a word into the value kept in memory, and the *)
(* print function turns that value back into a word.  A typed word selects *)
(* the first item whose PRINTED key equals it.                             *)
(***************************************************************************)
EXTENDS Integers, Sequences, SequencesExt

CONSTANTS
  Key,         \* the values of the key in memory
  DefaultKey,  \* the key of an item that was only added
  Word,        \* what can be typed for a key
  Invalid,     \* the result of a word the set function refuses
  Parse,       \* the set function of the key: from words to keys or Invalid
  Show,        \* the print function of the key: from keys to words
  MaxCount     \* Aggregate_data::maxCount

ASSUME KeyAssumption   == DefaultKey \in Key /\ Invalid \notin Key
ASSUME ParseAssumption == Parse \in [Word -> Key \cup {Invalid}] /\ Show \in [Key -> Word]
\* What is printed can be typed again, and means the same.
ASSUME ReplayAssumption == \A k \in Key : Parse[Show[k]] = k
ASSUME MaxCountAssumption == MaxCount \in Nat \ {0}

VARIABLES
  keys,   \* the keys of the items, in the order of the array
  store,  \* the keys of the items that were saved
  cmd     \* the last command that was executed

vars == <<keys, store, cmd>>

Valid == {w \in Word : Parse[w] # Invalid}

(* Mutant: the last item is not looked at. *)
MatchesShort(s, w) == {i \in DOMAIN s : i < Len(s) /\ Show[s[i]] = w}

(* find_key: the index of the first item that prints as w, or one past the *)
(* last item.                                                              *)
Matches(s, w) == {i \in DOMAIN s : Show[s[i]] = w}
Found(s, w)   == Matches(s, w) # {}
FindKey(s, w) ==
  IF Found(s, w) THEN CHOOSE i \in Matches(s, w) : \A j \in Matches(s, w) : i <= j
  ELSE Len(s) + 1

-----------------------------------------------------------------------------
Init == keys = <<>> /\ store = <<>> /\ cmd = [name |-> "none"]

(* Mutant: the number of items is not checked. *)
AddUnchecked(w) ==
  /\ w \in Valid /\ ~Found(keys, w)
  /\ keys' = Append(keys, Parse[w])
  /\ cmd' = [name |-> "add", word |-> w]
  /\ UNCHANGED store

(* 'add w': get_indexAdd refuses a word that prints like an existing key; *)
(* the new item is at the end.                                            *)
Add(w) ==
  /\ w \in Valid
  /\ Len(keys) < MaxCount
  /\ ~Found(keys, w)
  /\ keys' = Append(keys, Parse[w])
  /\ cmd' = [name |-> "add", word |-> w]
  /\ UNCHANGED store

(* Mutant: every 'w field = v' is taken for an implicit add. *)
SetFieldAppends(w) ==
  /\ w \in Valid /\ Len(keys) < MaxCount
  /\ keys' = Append(keys, Parse[w])
  /\ cmd' = [name |-> "set", word |-> w]
  /\ UNCHANGED store

(* 'w field = v': get_indexEval, then extractId and an implicit add if no *)
(* item prints as w.  At a full array that add asserts and nothing is     *)
(* kept, so it is no step of this module.                                 *)
SetField(w) ==
  /\ w \in Valid
  /\ \/ Found(keys, w) /\ UNCHANGED keys
     \/ ~Found(keys, w) /\ Len(keys) < MaxCount /\ keys' = Append(keys, Parse[w])
  /\ cmd' = [name |-> "set", word |-> w]
  /\ UNCHANGED store

(* 'w key = u': the key is a component like any other. *)
SetKey(w, u) ==
  /\ w \in Valid /\ u \in Valid
  /\ \/ Found(keys, w) /\ keys' = [keys EXCEPT ![FindKey(keys, w)] = Parse[u]]
     \/ ~Found(keys, w) /\ Len(keys) < MaxCount /\ keys' = Append(keys, Parse[u])
  /\ cmd' = [name |-> "rename", word |-> w]
  /\ UNCHANGED store

(* 'del w' *)
Del(w) ==
  /\ w \in Valid
  /\ Found(keys, w)
  /\ keys' = RemoveAt(keys, FindKey(keys, w))
  /\ cmd' = [name |-> "del", word |-> w]
  /\ UNCHANGED store

(* 'w setdef' or 'w key setdef': the key is set to default like any other *)
(* component.                                                              *)
SetDefItem(w) ==
  /\ w \in Valid
  /\ Found(keys, w)
  /\ keys' = [keys EXCEPT ![FindKey(keys, w)] = DefaultKey]
  /\ cmd' = [name |-> "reset"]
  /\ UNCHANGED store

(* 'setdef' of the parent *)
SetDefault == keys' = <<>> /\ cmd' = [name |-> "setdef"] /\ UNCHANGED store

Save == store' = keys /\ cmd' = [name |-> "save"] /\ UNCHANGED keys

(* 'load': items are added without a key, which is then read like any      *)
(* other component; nothing compares it with the keys loaded before it.    *)
Load == keys' = store /\ cmd' = [name |-> "load"] /\ UNCHANGED store

(* 'load' of a store written before the key was a component: every item    *)
(* keeps the key it was added with.                                        *)
LoadOld(n) ==
  /\ keys' = [i \in 1 .. n |-> DefaultKey]
  /\ cmd' = [name |-> "migrate"]
  /\ UNCHANGED store

Ordinary ==
  \/ \E w \in Word : Add(w) \/ SetField(w) \/ Del(w)
  \/ SetDefault \/ Save \/ Load

Next ==
  \/ Ordinary
  \/ \E w, u \in Word : SetKey(w, u)
  \/ \E w \in Word : SetDefItem(w)
  \/ \E n \in 0 .. MaxCount : LoadOld(n)

(* All the commands there are, and stores from before the key. *)
Spec == Init /\ [][Next]_vars

(* The commands of an operator who never sets the key of an item that is   *)
(* there, nor sets such an item to default, and who only loads what was    *)
(* saved with the key.                                                     *)
OrdinarySpec == Init /\ [][Ordinary]_vars

-----------------------------------------------------------------------------
TypeOK == keys \in Seq(Key) /\ store \in Seq(Key) /\ Len(keys) <= MaxCount

(* A key identifies an item: no two items have the same one, so every item *)
(* can be named on the command line.                                       *)
AllDiffer(s) == \A i, j \in DOMAIN s : s[i] = s[j] => i = j
KeysDiffer == AllDiffer(keys)

(* Only setting the key through its component, setting the item to default *)
(* or loading a store from before the key can give two items the same key: *)
(* no sequence of other commands does, saving and loading included.        *)
OnlyRenamesRepeat ==
  [][AllDiffer(keys) /\ AllDiffer(store) /\ ~AllDiffer(keys')
       => cmd'.name \in {"rename", "reset", "migrate"}]_vars

(* The word that named an item in a command names it in the next: after    *)
(* 'add w' or 'w field = v' there is an item that w selects.               *)
WordNamesItem == cmd.name \in {"add", "set"} => Found(keys, cmd.word)

(* A word that was used once does not create a second item: the same       *)
(* command given twice has the effect of giving it once.                   *)
RepeatAddsNothing ==
  [][\A w \in Word : cmd = [name |-> "set", word |-> w] /\ cmd' = cmd
       => keys' = keys]_vars
===============================================================================
