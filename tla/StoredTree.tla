----------------------------- MODULE StoredTree -----------------------------
(***************************************************************************)
(* What the stores have in common: a configuration as a tree of items, and *)
(* the walk that the descriptors and aggregates make over it to save it    *)
(* and to load it.  The walk calls a store for every item; the modules     *)
(* that extend this one are the stores.                                    *)
(*                                                                         *)
(* An item is named by its path from the root, a sequence of pairs of a    *)
(* component's name and an index.  Every simple item of the saved          *)
(* configuration has a value of its own, which is its path: a value that   *)
(* ends up in another item shows.                                          *)
(***************************************************************************)
EXTENDS Integers, Sequences, SequencesExt, FiniteSets

CONSTANTS
  Schema,    \* of the software that saves: the components of each descriptor
  NewSchema, \* of the software that loads
  Volatile,  \* the names of components that are not persistent
  Configs    \* the configurations that may be saved, each a set of paths

(* A component: its name, its descriptor, maxCount, and whether it is      *)
(* owned.  Simple is the descriptor of every simple item.                  *)
Component(name, desc, max, owned) ==
  [name |-> name, desc |-> desc, max |-> max, owned |-> owned]
Simple == "simple"
Base   == Component("device", "Root", 1, FALSE)

(* What a composite item has for a value. *)
Group == <<>>

Below(path, c, k) == Append(path, <<c.name, k>>)

(* The indices of the items of component c that there are in a set of paths. *)
Present(paths, path, c) == {k \in 0 .. c.max - 1 : Below(path, c, k) \in paths}

All(schema)  == UNION {ToSet(schema[d]) : d \in DOMAIN schema}
Names(schema) == {c.name : c \in All(schema)}
SimpleNames  == {c.name : c \in {x \in All(Schema) \cup All(NewSchema) : x.desc = Simple}}

(* Mutant: a simple item counts whether it is persistent or not. *)
HasContentAny(paths, path) ==
  \E p \in paths \ {<<>>} : Last(p)[1] \in SimpleNames /\ IsPrefix(path, p)

(* hasPersistentContent of the item at a path: there is a persistent       *)
(* simple item in it.  The composites on the way to it are not asked.      *)
HasContent(paths, path) ==
  \E p \in paths \ {<<>>} : Last(p)[1] \in SimpleNames \ Volatile /\ IsPrefix(path, p)

-----------------------------------------------------------------------------
(* What is assumed of the schemas and of the configurations.               *)
Known == All(Schema) \cup All(NewSchema) \cup {Base}
Steps == {c.name : c \in Known} \X Nat

(* The component that the item at a path is of, and those it has itself.   *)
CompOf(path) ==
  IF path = <<>> THEN Base ELSE CHOOSE c \in Known : c.name = Last(path)[1]
Parts(schema, path) == ToSet(schema[CompOf(path).desc])

(* The components of a descriptor have different names. *)
ASSUME SchemaAssumption ==
  \A schema \in {Schema, NewSchema} :
    /\ "Root" \in DOMAIN schema /\ Simple \notin DOMAIN schema
    /\ \A d \in DOMAIN schema :
         /\ schema[d] \in Seq(All(schema))
         /\ \A i, j \in DOMAIN schema[d] : schema[d][i].name = schema[d][j].name => i = j
    /\ \A c \in All(schema) :
         /\ c = Component(c.name, c.desc, c.max, c.owned)
         /\ c.desc \in DOMAIN schema \cup {Simple}
         /\ c.max \in Nat \ {0} /\ c.owned \in BOOLEAN

(* A name, and so an identifier, is that of one component, which newer     *)
(* software does not change, and the base item is part of no other.        *)
ASSUME NamesAssumption ==
  /\ \A c, e \in Known : c.name = e.name => c = e
  /\ Base \notin All(Schema) \cup All(NewSchema)
  /\ \A c \in Known : c.name \notin {"none", "zero"}

(* The components that newer software keeps are in the same order.         *)
ASSUME OrderAssumption ==
  \A d \in DOMAIN Schema \cap DOMAIN NewSchema :
    \A i, j \in DOMAIN Schema[d], m, n \in DOMAIN NewSchema[d] :
      Schema[d][i] = NewSchema[d][m] /\ Schema[d][j] = NewSchema[d][n] => (i < j <=> m < n)

(* The items of a configuration are those of a tree, and those of an array *)
(* are its first ones.                                                     *)
ASSUME ConfigAssumption ==
  \A paths \in Configs :
    /\ <<>> \in paths /\ paths \subseteq Seq(Steps)
    /\ \A p \in paths \ {<<>>} : \E q \in paths :
         /\ CompOf(q).desc \in DOMAIN Schema
         /\ \E c \in Parts(Schema, q) : \E k \in Present(paths, q, c) : p = Below(q, c, k)
    /\ \A q \in paths : CompOf(q).desc \in DOMAIN Schema =>
         \A c \in Parts(Schema, q) :
           Present(paths, q, c) = 0 .. Cardinality(Present(paths, q, c)) - 1

(* What a store that identifies items by their place needs beyond that, of *)
(* which the descriptors promise nothing: no composite component is left   *)
(* out as not persistent; there is something to save of every              *)
(* configuration; in an array there is none behind an item of which        *)
(* nothing is saved; and a component that newer software has anywhere it   *)
(* has in every descriptor that had it.                                    *)
Lasting == \A c \in Known : c.desc # Simple => c.name \notin Volatile
Filled  == \A paths \in Configs : HasContent(paths, <<>>)
Packed ==
  \A paths \in Configs : \A p \in paths :
    CompOf(p).desc \in DOMAIN Schema =>
      \A c \in Parts(Schema, p) : c.name \notin Volatile =>
        \A k \in Present(paths, p, c) : HasContent(paths, Below(p, c, k)) =>
          \A m \in 0 .. k : HasContent(paths, Below(p, c, m))
Keeping ==
  \A d \in DOMAIN Schema \cap DOMAIN NewSchema : \A c \in ToSet(Schema[d]) :
    c.name \in Names(NewSchema) => c \in ToSet(NewSchema[d])

-----------------------------------------------------------------------------
(* A walk is a stack of what is still to be done: Aggregate::save or load  *)
(* of a component of the item at a path, save or load of an item, or the   *)
(* call that ends an object or an array.                                   *)
Task(do, c, path, k) == [do |-> do, comp |-> c, path |-> path, idx |-> k]

(* The components of the item at a path, in the order of the descriptor. *)
Components(schema, c, path) ==
  [i \in DOMAIN schema[c.desc] |-> Task("aggr", schema[c.desc][i], path, 0)]

(* Aggregate::save writes nothing: the component is not persistent, or     *)
(* none of its items has persistent content.                               *)
Skipped(paths, c, path) ==
  \/ c.name \in Volatile
  \/ \A k \in Present(paths, path, c) : ~HasContent(paths, Below(path, c, k))

(* Mutant: the last item is written first. *)
SaveItemsReversed(paths, c, path) ==
  [k \in 1 .. Cardinality(Present(paths, path, c)) |->
     Task("item", c, path, Cardinality(Present(paths, path, c)) - k)]

(* Aggregate::save writes the items there are. *)
SaveItems(paths, c, path) ==
  [k \in 1 .. Cardinality(Present(paths, path, c)) |-> Task("item", c, path, k - 1)]

(* Aggregate::load goes on with the next item up to maxCount. *)
NextItem(task) ==
  IF task.idx + 1 < task.comp.max
  THEN <<Task("item", task.comp, task.path, task.idx + 1)>> ELSE <<>>

PathOf(task) == IF task.comp = Base THEN <<>> ELSE Below(task.path, task.comp, task.idx)

-----------------------------------------------------------------------------
(* The schema of the software that is running. *)
Running(newer) == IF newer THEN NewSchema ELSE Schema

Value(p) == IF p # <<>> /\ Last(p)[1] \in SimpleNames THEN p ELSE Group

(* The items that a load owes of each configuration, with their values:    *)
(* those that are persistent and that the schema has.                      *)
Owed ==
  [paths \in Configs |->
     [newer \in BOOLEAN |->
        [p \in {q \in paths \ {<<>>} :
                  HasContent(paths, q) /\
                  \A i \in DOMAIN q : q[i][1] \in Names(Running(newer)) \ Volatile} |->
           Value(p)]]]

(* What was loaded, without the item that is all of it. *)
Brought(ram) == [p \in DOMAIN ram \ {<<>>} |-> ram[p]]

(* Memory with the item at a path. *)
Put(items, p, value) ==
  [q \in DOMAIN items \cup {p} |-> IF q = p THEN value ELSE items[q]]

(* No configuration: nothing was ever saved. *)
Nothing == {}

(* Nothing but the defaults: no item was loaded. *)
Defaults == [p \in {} |-> Group]
=============================================================================
