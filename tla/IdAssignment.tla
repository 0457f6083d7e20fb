---------------------------- MODULE IdAssignment ----------------------------
(***************************************************************************)
(* The identifiers that the code generator gives to the items of a schema, *)
(* and remembers in a file, while the schema is edited and the generated   *)
(* code is built into devices that are then in the field with data stored  *)
(* under these identifiers.                                                *)
(*                                                                         *)
(* An item is the whole path of its name, so that an item removed from the *)
(* schema and put back is the same item.  The base item keeps its name.    *)
(***************************************************************************)
EXTENDS Integers

CONSTANTS
  Item,    \* every item that a schema may have
  Base,    \* the base item
  Parent,  \* the composite of each other item
  Above,   \* the items above each item
  Level,   \* how many there are
  MaxId    \* the largest identifier (a bound of the model)

ASSUME BaseAssumption == Base \in Item /\ Above[Base] = {}
ASSUME ParentAssumption ==
  /\ Parent \in [Item \ {Base} -> Item]
  /\ Above \in [Item -> SUBSET Item]
  /\ Level \in [Item -> Nat]
  /\ MaxId \in Nat
ASSUME TreeAssumption ==
  \A x \in Item \ {Base} :
    /\ Above[x] = {Parent[x]} \cup Above[Parent[x]]
    /\ Base \in Above[x]
    /\ Level[Parent[x]] < Level[x]
    /\ \A a \in Above[x] : Above[a] \subseteq Above[x]

VARIABLES
  kind,       \* the schema: each item's kind
  transient,  \* the items that are not persistent
  file,       \* the ID file: the identifiers it has
  listed,     \*   and the composites whose components it lists
  pc,         \* "edit", or "saving" when the code is written and not yet the IDs
  ids,        \* the new identifiers of the run that is saving
  code,       \* the identifiers of the stored items in the generated code
  complete,   \* the run that generated the code saved its IDs
  shipped     \* what devices in the field store: items and their identifiers

vars == <<kind, transient, file, listed, pc, ids, code, complete, shipped>>

Recorded  == DOMAIN file
Present   == {x \in Item : kind[x] # "absent"}
Composite == {x \in Item : kind[x] = "composite"}
Below(x)  == {y \in Item : x \in Above[y]}

NoIds == [x \in {} |-> 0]

Init ==
  /\ kind = [x \in Item |-> IF x = Base THEN "composite" ELSE "absent"]
  /\ transient = {}
  /\ file = NoIds /\ listed = {Base}
  /\ pc = "edit" /\ ids = NoIds
  /\ code = NoIds /\ complete = FALSE
  /\ shipped = {}

-----------------------------------------------------------------------------
(* The developer edits the schema. *)
Edits == pc = "edit" /\ UNCHANGED <<file, listed, pc, ids, code, complete, shipped>>

Insert(x, k, persistent) ==
  /\ Edits
  /\ x \in Item \ Present /\ Parent[x] \in Composite
  /\ k = "composite" => Below(x) # {}
  /\ kind' = [kind EXCEPT ![x] = k]
  /\ transient' = IF persistent THEN transient ELSE transient \cup {x}

TakeOut(x) ==
  /\ Edits
  /\ x \in Present \ {Base}
  /\ kind' = [y \in Item |-> IF y = x \/ y \in Below(x) THEN "absent" ELSE kind[y]]
  /\ transient' = transient \ ({x} \cup Below(x))

Switch(x) ==
  /\ Edits
  /\ x \in Present \ {Base}
  /\ transient' = IF x \in transient THEN transient \ {x} ELSE transient \cup {x}
  /\ UNCHANGED kind

(* The developer removes an item from the ID file, because no device has   *)
(* its identifier and the code that may still be shipped does not either.  *)
Forget(x) ==
  LET gone == {x} \cup Below(x)
  IN  /\ pc = "edit"
      /\ x \in Recorded \ Present
      /\ \A s \in shipped : s[1] \notin gone
      /\ DOMAIN code \cap gone = {}
      /\ file' = [y \in Recorded \ gone |-> file[y]]
      /\ listed' = listed \ gone
      /\ UNCHANGED <<kind, transient, pc, ids, code, complete, shipped>>

-----------------------------------------------------------------------------
(* The generator. *)

(* set_ids: an item in the ID file keeps its identifier, whatever it is    *)
(* now; the others need one if they are persistent.                        *)
New == {x \in Present \ {Base} : x \notin Recorded /\ x \notin transient}

(* What Id_generator knows of x's composite: the identifiers in the file.  *)
Given(x) == {file[y] : y \in {z \in Recorded : Parent[z] = Parent[x]}}

Others(x, f) == {f[y] : y \in {z \in New \ {x} : Parent[z] = Parent[x]}}

(* Mutant: identifiers in the file are not taken into account. *)
FirstFreeOfNew(f) ==
  \A x \in New :
    /\ f[x] \notin Others(x, f)
    /\ \A n \in 0 .. f[x] - 1 : n \in Others(x, f)

(* get_id: the components of a composite get the first free numbers, in    *)
(* the order they are in.                                                  *)
FirstFree(f) ==
  \A x \in New :
    /\ f[x] \notin Given(x) \cup Others(x, f)
    /\ \A n \in 0 .. f[x] - 1 : n \in Given(x) \cup Others(x, f)

IdOf(x, f) == IF x \in Recorded THEN file[x] ELSE f[x]

(* Mutant: the components of every composite in the schema are listed. *)
HasIdIfPresent(x) == x = Base \/ x \in Present

HasId(x) == x = Base \/ x \in Recorded \cup New

(* The items that the generated code stores. *)
Stored ==
  {x \in Present \ {Base} : x \notin transient /\ Above[x] \cap transient = {}}

(* CompositeItem.set_ids looks for the components of an item that is in    *)
(* the ID file: the script stops if there are none listed.                 *)
KeyError == \E x \in Composite : x \in Recorded /\ x \notin listed

(* The script up to saveInititializationFile: the code is written. *)
Generate(f) ==
  /\ pc = "edit"
  /\ ~KeyError
  /\ FirstFree(f)
  /\ code' = [x \in Stored |-> IdOf(x, f)]
  /\ ids' = f /\ complete' = FALSE /\ pc' = "saving"
  /\ UNCHANGED <<kind, transient, file, listed, shipped>>

(* Mutant: only what is in the schema is kept. *)
SavedOfSchema(above) == {x \in (Recorded \cup New) \cap Present : Parent[x] \in above}

(* get_component_ids: of the composites in the schema, all the components  *)
(* the file has, and the new ones; what was below a composite that is no   *)
(* longer in the schema, or is no longer one, is not kept.                 *)
Saved(above) == {x \in Recorded \cup New : Parent[x] \in above}

(* saveIdData *)
SaveIds ==
  /\ pc = "saving"
  /\ listed' = {c \in Composite : HasId(c) /\ \A a \in Above[c] : HasId(a)}
  /\ file' = [x \in Saved(listed') |-> IdOf(x, ids)]
  /\ pc' = "edit" /\ ids' = NoIds /\ complete' = TRUE
  /\ UNCHANGED <<kind, transient, code, shipped>>

(* The script does not get to the ID file. *)
Crash ==
  /\ pc = "saving"
  /\ pc' = "edit" /\ ids' = NoIds
  /\ UNCHANGED <<kind, transient, file, listed, code, complete, shipped>>

(* Devices with the generated code are used and save their configuration.  *)
(* Code of a run that did not end is not built: make stops.                *)
Ship ==
  /\ pc = "edit" /\ complete
  /\ shipped' = shipped \cup {<<x, code[x]>> : x \in DOMAIN code}
  /\ UNCHANGED <<kind, transient, file, listed, pc, ids, code, complete>>

Next ==
  \/ \E x \in Item \ {Base}, k \in {"simple", "composite"}, persistent \in BOOLEAN :
       Insert(x, k, persistent)
  \/ \E x \in Item \ {Base} : TakeOut(x) \/ Switch(x) \/ Forget(x)
  \/ \E f \in [New -> 0 .. MaxId] : Generate(f)
  \/ SaveIds \/ Crash \/ Ship

Spec == Init /\ [][Next]_vars

-----------------------------------------------------------------------------
(* The types.  The schema is a tree, and so is the ID file: whatever is    *)
(* recorded is listed in a composite that is itself recorded.              *)
TypeOK ==
  /\ kind \in [Item -> {"absent", "simple", "composite"}]
  /\ transient \subseteq Item
  /\ Recorded \subseteq Item \ {Base} /\ \A x \in Recorded : file[x] \in 0 .. MaxId
  /\ \A x \in Present \ {Base} : Parent[x] \in Composite
  /\ \A x \in Recorded : Parent[x] \in listed
  /\ listed \subseteq Recorded \cup {Base}
  /\ pc \in {"edit", "saving"} /\ complete \in BOOLEAN
  /\ DOMAIN code \subseteq Item \ {Base} /\ \A x \in DOMAIN code : code[x] \in 0 .. MaxId
  /\ shipped \subseteq (Item \ {Base}) \X (0 .. MaxId)

(* Within a composite, no identifier that devices store an item under is   *)
(* ever given to another item, whatever was removed, put back or made      *)
(* volatile since: no device loads one item's data into another item.      *)
NeverGivenTwice ==
  \A s, t \in shipped :
    Parent[s[1]] = Parent[t[1]] /\ s[2] = t[2] => s[1] = t[1]

(* An item that devices store keeps its identifier for as long as there    *)
(* are versions of the schema that have it.                                *)
KeepsId == \A s, t \in shipped : s[1] = t[1] => s[2] = t[2]
=============================================================================
