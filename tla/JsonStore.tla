------------------------------ MODULE JsonStore ------------------------------
(***************************************************************************)
(* The JSON store: JsonWriter and JsonLoader with their context stacks,    *)
(* under the walk of module StoredTree and the manager's save and load, in *)
(* a build without asserts.  The file is a sequence of tokens; white space *)
(* is not modelled.  The device may stop at any moment, which cuts a save  *)
(* short, and the software that starts then may have a newer schema.  Any  *)
(* configuration may be saved next, and loaded any number of times.        *)
(***************************************************************************)
EXTENDS StoredTree

CONSTANTS
  StackDepth,  \* ContextStack::STACK_DEPTH
  MaxOpen,     \* bound: how often one process has the file open
  SavedAgain   \* bound: the configurations that are saved over another

(* The file, the base item, and in them every array and every composite    *)
(* have a context each, and the stacks can hold them all.                  *)
ASSUME DepthAssumption ==
  /\ StackDepth \in Nat /\ MaxOpen \in Nat
  /\ \E height \in [DOMAIN Schema -> 0 .. StackDepth] :
       /\ 2 + height["Root"] <= StackDepth
       /\ \A d \in DOMAIN Schema : \A c \in ToSet(Schema[d]) :
            (IF c.max > 1 THEN 1 ELSE 0) + (IF c.desc = Simple THEN 0 ELSE 1 + height[c.desc])
              <= height[d]

ASSUME AgainAssumption == SavedAgain \subseteq Configs

(* What the search for a name needs beyond that, which goes on behind the  *)
(* end of the composite it began in: that those around a composite have    *)
(* none of its components, nor of those that newer software gives it.      *)
Apart ==
  \A paths \in Configs : \A p, q \in paths : \A schema \in {Schema, NewSchema} :
    /\ IsStrictPrefix(q, p)
    /\ CompOf(q).desc \in DOMAIN Schema /\ CompOf(p).desc \in DOMAIN schema
    => Parts(Schema, q) \cap Parts(schema, p) = {}

VARIABLES
  saved,   \* the configuration that was saved last, the paths of its items
  phase,   \* what the manager is doing, or how the last command ended
  upgraded, \* the software has the newer schema
  file,    \* the tokens in the file
  off,     \* the place of the next token the loader reads
  ctxt,    \* the context stack, of the writer or of the loader
  todo,    \* what the walk has still to do
  ram,     \* the items in memory, and their values
  open,    \* how many times the file is open
  crashed  \* the save was cut short

vars == <<saved, phase, upgraded, file, off, ctxt, todo, ram, open, crashed>>

Token(kind, v) == [kind |-> kind, val |-> v]
Mark(kind)     == Token(kind, Group)
NameToken(c)   == Token("name", <<<<c.name, 0>>>>)

Opener == [OBJECT |-> "{", ARRAY |-> "["]
Closer == [OBJECT |-> "}", ARRAY |-> "]"]

Context(type, first) == [type |-> type, first |-> first]

(* ContextStack::init *)
InitStack == <<Context("OBJECT", TRUE)>>
Top       == Last(ctxt)

(* The stack after setIsFirstMember(false). *)
NotFirst(s) == [s EXCEPT ![Len(s)].first = FALSE]

Rest == Tail(todo)

-----------------------------------------------------------------------------
(* The writer. *)

(* startWriteMember: a comma unless this is the first member, and a name   *)
(* unless this is in an array.                                             *)
Member(c) ==
  (IF Top.first THEN <<>> ELSE <<Mark(",")>>)
    \o (IF Top.type = "OBJECT" THEN <<NameToken(c)>> ELSE <<>>)

Write(tokens) == file' = file \o tokens

StartWrite(c, type) ==
  /\ Write(Append(Member(c), Mark(Opener[type])))
  /\ ctxt' = Append(ctxt, Context(type, TRUE))

(* What a save leaves alone. *)
SaveFrame == UNCHANGED <<saved, phase, upgraded, off, ram, open, crashed>>

Saving(do) == phase = "save" /\ todo # <<>> /\ Head(todo).do = do

Phases == {"started", "save", "saved", "load", "loaded", "failed", "starved", "undefined"}

(* No command is running. *)
Idle == phase \in {"started", "saved", "loaded", "failed", "starved"}

(* The program has started for the first time: there is no file. *)
Init ==
  /\ saved = Nothing
  /\ phase = "started"
  /\ upgraded = FALSE
  /\ file = <<>> /\ off = 1
  /\ ctxt = InitStack
  /\ todo = <<>>
  /\ ram = Defaults
  /\ open = 0
  /\ crashed = FALSE

(* The operator has changed the configuration and saves it:                *)
(* Config_manager_implement::save, Json_store::startWrite.  What was in    *)
(* the file is gone.                                                       *)
SaveStart ==
  /\ Idle /\ ~upgraded /\ open < MaxOpen
  /\ saved' \in IF saved = Nothing THEN Configs ELSE SavedAgain
  /\ phase' = "save"
  /\ file' = <<Mark("{")>> /\ off' = 1
  /\ ctxt' = InitStack
  /\ todo' = <<Task("item", Base, <<>>, 0)>>
  /\ ram' = [p \in saved' |-> p]
  /\ open' = open + 1
  /\ crashed' = FALSE
  /\ UNCHANGED upgraded

(* Aggregate::save *)
SaveAggr ==
  /\ Saving("aggr")
  /\ LET t     == Head(todo)
         items == SaveItems(saved, t.comp, t.path)
     IN  IF Skipped(saved, t.comp, t.path)
         THEN todo' = Rest /\ UNCHANGED <<file, ctxt>>
         ELSE IF t.comp.max > 1
         THEN /\ StartWrite(t.comp, "ARRAY")
              /\ todo' = items \o <<Task("ARRAY", t.comp, t.path, 0)>> \o Rest
         ELSE todo' = items \o Rest /\ UNCHANGED <<file, ctxt>>
  /\ SaveFrame

(* Simple_descriptor::save, JsonWriter::writeSimple. *)
SaveSimple ==
  /\ Saving("item")
  /\ LET t == Head(todo)
     IN  /\ t.comp.desc = Simple
         /\ Write(Append(Member(t.comp), Token("value", PathOf(t))))
  /\ ctxt' = NotFirst(ctxt)
  /\ todo' = Rest
  /\ SaveFrame

(* Composite_descriptor::save; nothing is written of an item without       *)
(* persistent content.                                                     *)
SaveComposite ==
  /\ Saving("item")
  /\ LET t == Head(todo)
     IN  /\ t.comp.desc # Simple
         /\ IF HasContent(saved, PathOf(t))
            THEN /\ StartWrite(t.comp, "OBJECT")
                 /\ todo' = Components(Schema, t.comp, PathOf(t))
                              \o <<Task("OBJECT", t.comp, t.path, 0)>> \o Rest
            ELSE todo' = Rest /\ UNCHANGED <<file, ctxt>>
  /\ SaveFrame

(* JsonWriter::endWriteComposite *)
SaveClose(type) ==
  /\ Saving(type)
  /\ Write(<<Mark(Closer[type])>>)
  /\ ctxt' = NotFirst(Front(ctxt))
  /\ todo' = Rest
  /\ SaveFrame

(* Mutant: the last brace is not written. *)
SaveEndUnclosed ==
  /\ phase = "save" /\ todo = <<>>
  /\ open' = open - 1
  /\ phase' = "saved"
  /\ UNCHANGED <<saved, upgraded, file, off, ctxt, todo, ram, crashed>>

(* Json_store::endWrite *)
SaveEnd ==
  /\ phase = "save" /\ todo = <<>>
  /\ Write(<<Mark("}")>>)
  /\ open' = open - 1
  /\ phase' = "saved"
  /\ UNCHANGED <<saved, upgraded, off, ctxt, todo, ram, crashed>>

(* The device stops.  During a save what the file holds is some beginning  *)
(* of what was written.  What was in memory is lost.                       *)
Crash ==
  /\ phase # "started"
  /\ IF phase # "save" THEN UNCHANGED <<file, crashed>>
     ELSE crashed' = TRUE /\ \E n \in 0 .. Len(file) : file' = SubSeq(file, 1, n)
  /\ phase' = "started"
  /\ upgraded' \in {upgraded, TRUE}
  /\ off' = 1 /\ ctxt' = InitStack /\ todo' = <<>> /\ open' = 0
  /\ ram' = Defaults
  /\ UNCHANGED saved

-----------------------------------------------------------------------------
(* The loader.  A search that fails restores the offset. *)

Is(o, kind) == o \in DOMAIN file /\ file[o].kind = kind
Past        == Len(file) + 1

(* Mutant: the offset goes past the end. *)
StepBlindly(o) == o + 1

(* After the token at o.  Nothing is read at the end of the file. *)
Step(o) == Min({o + 1, Past})

(* Mutant: after the next closing marker. *)
ClosedAtNext(o, type) ==
  LET ends == {p \in o + 1 .. Len(file) : Is(p, Closer[type])}
  IN  IF ends = {} THEN Past ELSE Min(ends) + 1

(* toCloser: after the marker that closes the one at o.  Only markers of   *)
(* that kind are counted.                                                  *)
Closed(o, type) ==
  LET count(p, kind) == Cardinality({q \in o .. p : file[q].kind = kind})
      ends == {p \in o + 1 .. Len(file) : count(p, Opener[type]) = count(p, Closer[type])}
  IN  IF ends = {} THEN Past ELSE Min(ends) + 1

(* After the value at o, as toNextName skips it. *)
SkipValue(o) ==
  IF Is(o, "{") THEN Closed(o, "OBJECT")
  ELSE IF Is(o, "[") THEN Closed(o, "ARRAY") ELSE Step(o)

(* toNextName: after the first comma behind the value at o, wherever it is.*)
NextName(o) ==
  LET commas == {p \in SkipValue(o) .. Len(file) : Is(p, ",")}
  IN  IF commas = {} THEN Past + 1 ELSE Min(commas) + 1

(* findName, from o: where it ends, or how it fails. *)
FindName(c, o) ==
  LET find[p \in 1 .. Past + 1] ==
        IF ~Is(p, "name") THEN [res |-> "incoherent", off |-> off]
        ELSE IF file[p] = NameToken(c) THEN [res |-> "success", off |-> p + 1]
        ELSE IF p + 1 >= Past THEN [res |-> "incoherent", off |-> off]
        ELSE IF NextName(p + 1) > Past THEN [res |-> "not found", off |-> off]
        ELSE find[NextName(p + 1)]
  IN  find[o]

(* startLoadMember *)
FindMember(c) ==
  LET o == IF Top.first THEN off ELSE off + 1
  IN  IF ~Top.first /\ ~Is(off, ",") THEN [res |-> "not found", off |-> off]
      ELSE IF Top.type = "OBJECT" THEN FindName(c, o)
      ELSE [res |-> "success", off |-> o]

(* startLoadComposite *)
FindComposite(c, type) ==
  LET m == FindMember(c)
  IN  IF m.res = "success" /\ ~Is(m.off, Opener[type])
      THEN [res |-> "incoherent", off |-> m.off]
      ELSE IF m.res = "success" THEN [m EXCEPT !.off = @ + 1] ELSE m

Loading(do) == phase = "load" /\ todo # <<>> /\ Head(todo).do = do

(* Some error other than 'not found' ends the whole load: the defaults are *)
(* restored, the store's endLoad closes the file if it is at the last '}'. *)
Fail(o, outcome) ==
  /\ phase' = outcome
  /\ ram' = Defaults
  /\ open' = IF Is(o, "}") THEN open - 1 ELSE open
  /\ off' = o /\ todo' = <<>>
  /\ UNCHANGED <<saved, upgraded, file, ctxt, crashed>>

(* What the steps of a load leave alone. *)
LoadFrame == UNCHANGED <<saved, phase, upgraded, file, open, crashed>>

(* Config_manager_implement::load, Json_store::startLoad; its result is    *)
(* not looked at.  A load that has no '{' goes on with the context that an *)
(* earlier load left, or that of the constructor.                          *)
LoadStart ==
  /\ Idle /\ saved # Nothing
  /\ open < MaxOpen /\ open' = open + 1
  /\ IF Is(1, "{") THEN off' = 2 /\ ctxt' = InitStack
     ELSE off' = 1 /\ UNCHANGED ctxt
  /\ todo' = <<Task("item", Base, <<>>, 0)>>
  /\ phase' = "load"
  /\ ram' = Defaults
  /\ UNCHANGED <<saved, upgraded, file, crashed>>

(* Where there is no file, startLoad fails, which nobody looks at, and     *)
(* what reads or seeks next is given a null pointer for the file.          *)
LoadUnopened ==
  /\ Idle /\ saved = Nothing
  /\ phase' = "undefined"
  /\ UNCHANGED <<saved, upgraded, file, off, ctxt, todo, ram, open, crashed>>

(* Aggregate::load *)
LoadAggr ==
  /\ Loading("aggr")
  /\ LET t     == Head(todo)
         item  == <<Task("item", t.comp, t.path, 0)>>
         found == FindComposite(t.comp, "ARRAY")
     IN  IF t.comp.name \in Volatile
         THEN todo' = Rest /\ LoadFrame /\ UNCHANGED <<off, ctxt, ram>>
         ELSE IF t.comp.max = 1
         THEN todo' = item \o Rest /\ LoadFrame /\ UNCHANGED <<off, ctxt, ram>>
         ELSE CASE found.res = "success" ->
                                        /\ off' = found.off
                     /\ ctxt' = Append(ctxt, Context("ARRAY", TRUE))
                     /\ todo' = item \o <<Task("ARRAY", t.comp, t.path, 0)>> \o Rest
                     /\ LoadFrame /\ UNCHANGED ram
                [] found.res = "not found" ->
                     /\ todo' = Rest
                     /\ LoadFrame /\ UNCHANGED <<off, ctxt, ram>>
                [] found.res = "incoherent" -> Fail(found.off, "failed")

(* loadItem of a simple item.  The set function refuses a value that is    *)
(* not one and leaves the item as it is; nobody looks at its result.       *)
LoadSimple ==
  /\ Loading("item")
  /\ LET t     == Head(todo)
         found == FindMember(t.comp)
         item  == PathOf(t)
     IN  /\ t.comp.desc = Simple
         /\ CASE found.res = "success" ->
                   /\ off' = Step(found.off)
                   /\ ctxt' = NotFirst(ctxt)
                   /\ ram' = IF Is(found.off, "value")
                             THEN Put(ram, item, file[found.off].val)
                             ELSE IF t.comp.owned THEN Put(ram, item, Group) ELSE ram
                   /\ todo' = NextItem(t) \o Rest
                   /\ LoadFrame
              [] found.res = "not found" ->
                   /\ todo' = Rest
                   /\ LoadFrame /\ UNCHANGED <<off, ctxt, ram>>
              [] found.res = "incoherent" -> Fail(found.off, "failed")

(* loadItem of a composite item, up to its components. *)
LoadComposite ==
  /\ Loading("item")
  /\ LET t     == Head(todo)
         found == FindComposite(t.comp, "OBJECT")
         item  == PathOf(t)
     IN  /\ t.comp.desc # Simple
         /\ CASE found.res = "success" ->
                                    /\ off' = found.off
                   /\ ctxt' = Append(ctxt, Context("OBJECT", TRUE))
                   /\ ram' = Put(ram, item, Group)
                   /\ todo' = Components(Running(upgraded), t.comp, item)
                                \o <<Task("OBJECT", t.comp, t.path, 0)>>
                                \o NextItem(t) \o Rest
                   /\ LoadFrame
              [] found.res = "not found" /\ t.comp # Base ->
                   /\ todo' = Rest
                   /\ LoadFrame /\ UNCHANGED <<off, ctxt, ram>>
              [] found.res = "not found" /\ t.comp = Base -> Fail(found.off, "failed")
              [] found.res = "incoherent" -> Fail(found.off, "failed")

(* There is no memory for an owned item. *)
LoadNoMemory ==
  /\ Loading("item")
  /\ LET t     == Head(todo)
         found == IF t.comp.desc = Simple THEN FindMember(t.comp)
                  ELSE FindComposite(t.comp, "OBJECT")
     IN  t.comp.owned /\ found.res = "success" /\ Fail(found.off, "starved")

(* endLoadObject: anything but '}' ends the load. *)
LoadObjectEnd ==
  /\ Loading("OBJECT")
  /\ IF Is(off, "}")
     THEN /\ off' = off + 1
          /\ ctxt' = NotFirst(Front(ctxt))
          /\ todo' = Rest
          /\ LoadFrame /\ UNCHANGED ram
     ELSE Fail(off, "failed")

(* Mutant: the end of the array is waited for. *)
LoadArrayEndWaits ==
  /\ Loading("ARRAY") /\ Is(off, "]")
  /\ off' = off + 1 /\ ctxt' = NotFirst(Front(ctxt))
  /\ todo' = Rest
  /\ LoadFrame /\ UNCHANGED ram

(* endLoadArray: when the array has more items than were loaded nothing    *)
(* happens, and the context stays the array's.                             *)
LoadArrayEnd ==
  /\ Loading("ARRAY")
  /\ IF Is(off, "]")
     THEN off' = off + 1 /\ ctxt' = NotFirst(Front(ctxt))
     ELSE UNCHANGED <<off, ctxt>>
  /\ todo' = Rest
  /\ LoadFrame /\ UNCHANGED ram

(* Json_store::endLoad closes the file only behind the last '}'. *)
LoadEnd ==
  /\ phase = "load" /\ todo = <<>>
  /\ open' = IF Is(off, "}") THEN open - 1 ELSE open
  /\ phase' = "loaded"
  /\ UNCHANGED <<saved, upgraded, file, off, ctxt, todo, ram, crashed>>

(* The steps of a save and of a load, which are one command each. *)
SaveStep ==
  \/ SaveAggr \/ SaveSimple \/ SaveComposite \/ SaveEnd
  \/ \E type \in {"OBJECT", "ARRAY"} : SaveClose(type)
LoadStep ==
  \/ LoadAggr \/ LoadSimple \/ LoadComposite \/ LoadNoMemory
  \/ LoadObjectEnd \/ LoadArrayEnd \/ LoadEnd

Next == SaveStart \/ SaveStep \/ LoadStart \/ LoadUnopened \/ LoadStep \/ Crash

(* A command that was begun is carried on: the handler waits for nothing.  *)
(* Whether one is given is the operator's business.                        *)
Spec == Init /\ [][Next]_vars /\ WF_vars(SaveStep \/ LoadStep)
-----------------------------------------------------------------------------
(* Every variable has its type: the offset stays in the file, the context  *)
(* stack in its array and never empty.                                     *)
TypeOK ==
  /\ phase \in Phases
  /\ upgraded \in BOOLEAN
  /\ off \in 1 .. Past
  /\ Len(ctxt) \in 1 .. StackDepth
  /\ \A i \in DOMAIN ctxt : ctxt[i] \in [type : DOMAIN Opener, first : BOOLEAN]
  /\ open \in 0 .. MaxOpen
  /\ crashed \in BOOLEAN

(* At no moment of a load of a whole save is there an item that was not    *)
(* saved, or one with another's value: the application reads the           *)
(* configuration while it is loaded.                                       *)
OnlySaved ==
  phase = "load" /\ ~crashed =>
    \A p \in DOMAIN ram \ {<<>>} :
       p \in DOMAIN Owed[saved][upgraded] /\ ram[p] = Owed[saved][upgraded][p]

(* A configuration that was saved to the end is loaded: the search for a   *)
(* component that was not stored must leave the others to be found, and    *)
(* only a lack of memory ends the load.                                    *)
WholeLoads == phase = "failed" => crashed

(* A load of a whole configuration ends behind its last brace, with the    *)
(* contexts that were pushed popped, and closes the file; only loads of    *)
(* partly saved configurations, and of those without memory, leave a file  *)
(* open.                                                                   *)
LoadCloses == [][phase = "load" /\ phase' = "loaded" /\ ~crashed
                   => open' = open - 1 /\ Len(ctxt) = 1]_vars

(* The store keeps the promises of Recovery. *)
Promised == INSTANCE Recovery WITH
  whole <- saved # Nothing /\ phase # "save" /\ ~crashed,
  device <- phase,
  loaded <- IF phase = "loaded" THEN Brought(ram) ELSE Defaults

(* What is in memory after a load is exactly what was saved, every value   *)
(* in the item it was saved from, or it is the defaults because the save   *)
(* was cut short or memory ran out: also with a newer schema, and however  *)
(* often the device saved, loaded and stopped before.                      *)
KeepsPromise == Promised!Spec

(* A save or a load that was begun ends, whatever it finds in the file and *)
(* however often a search for a component fails.                           *)
CommandsEnd == Promised!CommandsEnd
=============================================================================
