------------------------------ MODULE TlvStore ------------------------------
(***************************************************************************)
(* The TLV store: TlvWriter and TlvLoader with their stacks of composites, *)
(* under the walk of module StoredTree and the manager's save and load, in *)
(* a build without asserts.                                                *)
(*                                                                         *)
(* The file is what the writes to it make of it.  A type takes one cell, a *)
(* length one cell, and a value as many as the item is long.  The header   *)
(* of a composite is written after what is in it; where nothing has been   *)
(* written yet there are zeros.  The device may stop at any moment; during *)
(* a save the file is then what some first part of the writes made of it.  *)
(* The software that starts may have a newer schema.  Any configuration    *)
(* may be saved next, and loaded any number of times.                      *)
(***************************************************************************)
EXTENDS StoredTree

CONSTANTS
  LenOf,      \* the length of each simple component's item, by name
  IdZero,     \* the names of the components whose identifier is 0
  LenMod,     \* item_len_t holds 0 .. LenMod - 1
  StackDepth, \* STACK_DEPTH of TlvWriter and of TlvLoader
  SavedAgain  \* bound: the configurations that are saved over another

(* No item is empty, and its length is one that a header can have. *)
ASSUME LenAssumption ==
  /\ LenMod \in Nat \ {0} /\ StackDepth \in Nat
  /\ LenOf \in [SimpleNames -> 1 .. LenMod - 1]

(* There are not more composites in one another than the stacks can hold.  *)
ASSUME DepthAssumption ==
  \A schema \in {Schema, NewSchema} :
    \E height \in [DOMAIN schema -> 1 .. StackDepth] :
      \A d \in DOMAIN schema : \A c \in ToSet(schema[d]) :
        c.desc # Simple => height[c.desc] < height[d]

ASSUME AgainAssumption == SavedAgain \subseteq Configs

VARIABLES
  saved,   \* the configuration that was saved last, the paths of its items
  phase,   \* what the manager is doing, or how the last command ended
  upgraded, \* the software has the newer schema
  writes,  \* the writes of the save, each a cell and its offset
  file,    \* the cells that a save left in the file
  off,     \* the offset of the next write or read
  stack,   \* m_writeStack or m_loadStack, up to m_stackIndex
  todo,    \* what the walk has still to do
  ram,     \* the items in memory, and their values
  open,    \* how many times the file is open
  crashed  \* the save was cut short

vars == <<saved, phase, upgraded, writes, file, off, stack, todo, ram, open, crashed>>

Cell(type, len, val) == [type |-> type, len |-> len, val |-> val]
TypeCell(c)    == Cell(c.name, 0, Group)
LengthCell(n)  == Cell("none", n, Group)
ValueCell(p)   == Cell("none", 0, p)
Zeros          == Cell("zero", 0, Group)

(* HDR_LENGTH *)
Header == 2

(* What some writes make of an empty file. *)
FileOf(ws) ==
  LET to(o) == {i \in DOMAIN ws : ws[i].at = o}
  IN  [o \in 1 .. Max({0} \cup {ws[i].at + 1 : i \in DOMAIN ws}) |->
         IF to(o - 1) = {} THEN Zeros ELSE ws[Max(to(o - 1))].cell]

(* The size of the file, and the cell at an offset in it. *)
Size  == Len(file)
At(o) == file[o + 1]

(* CompositeWriteContext: where the header goes, and the length so far.    *)
(* CompositeLoadContext: where the value is, and its length.               *)
Context(at, len) == [at |-> at, len |-> len]

Top  == Last(stack)
Rest == Tail(todo)

-----------------------------------------------------------------------------
(* The writer. *)

(* The writes of some cells, one after the other from offset o. *)
Writes(o, cells) == [i \in DOMAIN cells |-> [at |-> o + i - 1, cell |-> cells[i]]]

(* Mutant: the header of the component is not counted. *)
AddLengthBare(s, n) ==
  IF s = <<>> THEN s ELSE [s EXCEPT ![Len(s)].len = (@ + n) % LenMod]

(* addLengthToComposite *)
AddLength(s, n) ==
  IF s = <<>> THEN s ELSE [s EXCEPT ![Len(s)].len = (@ + n + Header) % LenMod]

SaveFrame == UNCHANGED <<saved, phase, upgraded, file, ram, open, crashed>>

Saving(do) == phase = "save" /\ todo # <<>> /\ Head(todo).do = do

Phases == {"started", "save", "saved", "load", "loaded", "failed", "starved", "undefined"}

(* No command is running. *)
Idle == phase \in {"started", "saved", "loaded", "failed", "starved"}

(* The program has started for the first time: there is no file. *)
Init ==
  /\ saved = Nothing
  /\ phase = "started"
  /\ upgraded = FALSE
  /\ writes = <<>> /\ file = <<>> /\ off = 0
  /\ stack = <<>>
  /\ todo = <<>>
  /\ ram = Defaults
  /\ open = 0
  /\ crashed = FALSE

(* The operator has changed the configuration and saves it:                *)
(* Config_manager_implement::save, Tlv_store::startWrite.  What was in the *)
(* file is gone.                                                           *)
SaveStart ==
  /\ Idle /\ ~upgraded
  /\ saved' \in IF saved = Nothing THEN Configs ELSE SavedAgain
  /\ phase' = "save"
  /\ file' = <<>> /\ off' = 0
  /\ stack' = <<>>
  /\ todo' = <<Task("item", Base, <<>>, 0)>>
  /\ ram' = [p \in saved' |-> p]
  /\ open' = open + 1
  /\ crashed' = FALSE
  /\ UNCHANGED <<upgraded, writes>>

(* Aggregate::save; the TLV store does nothing for an array. *)
SaveAggr ==
  /\ Saving("aggr")
  /\ LET t == Head(todo)
     IN  todo' = (IF Skipped(saved, t.comp, t.path) THEN <<>>
                  ELSE SaveItems(saved, t.comp, t.path)) \o Rest
  /\ UNCHANGED <<writes, off, stack>>
  /\ SaveFrame

(* Simple_descriptor::save, TlvWriter::writeSimple. *)
SaveSimple ==
  /\ Saving("item")
  /\ LET t     == Head(todo)
         len   == LenOf[t.comp.name]
         value == [i \in 1 .. len |-> ValueCell(PathOf(t))]
     IN  /\ t.comp.desc = Simple
         /\ writes' = writes \o Writes(off, <<TypeCell(t.comp), LengthCell(len)>> \o value)
         /\ off' = off + Header + len
         /\ stack' = AddLength(stack, len)
  /\ todo' = Rest
  /\ SaveFrame

(* Composite_descriptor::save, TlvWriter::startWriteComposite: space is    *)
(* reserved for the header.                                                *)
SaveComposite ==
  /\ Saving("item")
  /\ LET t == Head(todo)
     IN  /\ t.comp.desc # Simple
         /\ IF HasContent(saved, PathOf(t))
            THEN /\ stack' = Append(stack, Context(off, 0))
                 /\ off' = off + Header
                 /\ todo' = Components(Schema, t.comp, PathOf(t))
                              \o <<Task("OBJECT", t.comp, t.path, 0)>> \o Rest
            ELSE todo' = Rest /\ UNCHANGED <<off, stack>>
  /\ UNCHANGED writes
  /\ SaveFrame

(* Mutant: the offset stays behind the header. *)
SaveCloseStays ==
  /\ Saving("OBJECT")
  /\ writes' = writes \o Writes(Top.at, <<TypeCell(Head(todo).comp), LengthCell(Top.len)>>)
  /\ stack' = AddLength(Front(stack), Top.len)
  /\ off' = Top.at + Header
  /\ todo' = Rest
  /\ SaveFrame

(* Mutant: the composite stays on the stack. *)
SaveCloseKeeps ==
  /\ Saving("OBJECT")
  /\ writes' = writes \o Writes(Top.at, <<TypeCell(Head(todo).comp), LengthCell(Top.len)>>)
  /\ todo' = Rest
  /\ SaveFrame /\ UNCHANGED <<off, stack>>

(* TlvWriter::endWriteComposite: the header is written, then the offset is *)
(* moved back to the end, unless that was the outermost composite.         *)
SaveClose ==
  /\ Saving("OBJECT")
  /\ writes' = writes \o Writes(Top.at, <<TypeCell(Head(todo).comp), LengthCell(Top.len)>>)
  /\ stack' = AddLength(Front(stack), Top.len)
  /\ off' = IF stack' = <<>> THEN Top.at + Header ELSE off
  /\ todo' = Rest
  /\ SaveFrame

(* Store::endWrite *)
SaveEnd ==
  /\ phase = "save" /\ todo = <<>>
  /\ file' = FileOf(writes) /\ writes' = <<>>
  /\ open' = open - 1
  /\ phase' = "saved"
  /\ UNCHANGED <<saved, upgraded, off, stack, todo, ram, crashed>>

(* The device stops, and what was in memory is lost. *)
Crash ==
  /\ phase # "started"
  /\ IF phase # "save" THEN UNCHANGED <<file, crashed>>
     ELSE crashed' = TRUE /\ \E n \in 0 .. Len(writes) : file' = FileOf(SubSeq(writes, 1, n))
  /\ writes' = <<>>
  /\ phase' = "started"
  /\ upgraded' \in {upgraded, TRUE}
  /\ off' = 0 /\ stack' = <<>> /\ todo' = <<>> /\ open' = 0
  /\ ram' = Defaults
  /\ UNCHANGED saved

-----------------------------------------------------------------------------
(* The loader. *)

Found(res, o) == [res |-> res, off |-> o]

(* matchType: whether the type at o is that of component c. *)
Matches(o, c) == At(o).type = c.name \/ (At(o).type = "zero" /\ c.name \in IdZero)

(* Mutant: the search does not stop at the end of the composite. *)
RoomBeyond(o) == o + Header <= Size

(* There is space for a header between o and the end of the composite, and *)
(* more: the difference of the offsets is unsigned.                        *)
Room(o) == o - Top.at + Header \in 0 .. Top.len - 1

(* findTypeInComposite, from o: where it ends, or how it fails.            *)
FindInComposite(c, o) ==
  LET find[p \in Nat] ==
        CASE ~Room(p)                       -> Found("not found", off)
          [] Room(p) /\ p >= Size           -> Found("read fail", p)
          [] Room(p) /\ p < Size /\ Matches(p, c) -> Found("success", p + 1)
          [] OTHER -> IF p + 1 >= Size THEN Found("read fail", p + 1)
                      ELSE find[p + Header + At(p + 1).len]
  IN  find[o]

(* findType: outside of any composite there is nothing to search. *)
FindType(c) ==
  IF stack # <<>> THEN FindInComposite(c, off)
  ELSE IF off >= Size THEN Found("read fail", off)
  ELSE IF Matches(off, c) THEN Found("success", off + 1) ELSE Found("not found", off)

Loading(do) == phase = "load" /\ todo # <<>> /\ Head(todo).do = do

(* Some error other than 'not found' ends the whole load: the defaults are *)
(* restored and the file is closed.                                        *)
Fail(outcome) ==
  /\ phase' = outcome
  /\ ram' = Defaults
  /\ open' = open - 1
  /\ todo' = <<>>
  /\ UNCHANGED <<saved, upgraded, writes, file, off, stack, crashed>>

LoadFrame == UNCHANGED <<saved, phase, upgraded, writes, file, open, crashed>>

(* Config_manager_implement::load, Tlv_store::startLoad. *)
LoadStart ==
  /\ Idle /\ saved # Nothing
  /\ open' = open + 1
  /\ off' = 0 /\ stack' = <<>>
  /\ todo' = <<Task("item", Base, <<>>, 0)>>
  /\ phase' = "load"
  /\ ram' = Defaults
  /\ UNCHANGED <<saved, upgraded, writes, file, crashed>>

(* Where there is no file, startLoad fails, which nobody looks at, and     *)
(* what reads or seeks next is given a null pointer for the file.          *)
LoadUnopened ==
  /\ Idle /\ saved = Nothing
  /\ phase' = "undefined"
  /\ UNCHANGED <<saved, upgraded, writes, file, off, stack, todo, ram, open, crashed>>

(* Aggregate::load *)
LoadAggr ==
  /\ Loading("aggr")
  /\ LET t == Head(todo)
     IN  todo' = (IF t.comp.name \in Volatile THEN <<>>
                  ELSE <<Task("item", t.comp, t.path, 0)>>) \o Rest
  /\ LoadFrame /\ UNCHANGED <<off, stack, ram>>

(* Mutant: a component that was not stored is waited for. *)
LoadNotFoundWaits ==
  Loading("item") /\ FindType(Head(todo).comp).res = "read fail" /\ Fail("failed")

(* startLoad does not find the item: the rest of its array is not there    *)
(* either, or there is nothing to load at all.                             *)
LoadNotFound ==
  /\ Loading("item")
  /\ LET t     == Head(todo)
         found == FindType(t.comp)
     IN  CASE found.res = "not found" /\ t.comp # Base ->
                todo' = Rest /\ LoadFrame /\ UNCHANGED <<off, stack, ram>>
           [] found.res = "not found" /\ t.comp = Base -> Fail("failed")
           [] found.res = "read fail" -> Fail("failed")
           [] found.res = "success" -> FALSE

(* loadItem of a simple item, TlvLoader::endLoadSimple. *)
LoadSimple ==
  /\ Loading("item")
  /\ LET t     == Head(todo)
         found == FindType(t.comp)
         len   == LenOf[t.comp.name]
     IN  /\ t.comp.desc = Simple /\ found.res = "success"
         /\ IF found.off + 1 + len > Size \/ At(found.off).len # len
            THEN Fail("failed")
            ELSE /\ ram' = Put(ram, PathOf(t), At(found.off + 1).val)
                 /\ off' = found.off + 1 + len
                 /\ todo' = NextItem(t) \o Rest
                 /\ LoadFrame /\ UNCHANGED stack

(* loadItem of a composite item, up to its components.  A length that      *)
(* cannot be read is whatever was in memory.                               *)
LoadComposite ==
  /\ Loading("item")
  /\ LET t     == Head(todo)
         found == FindType(t.comp)
     IN  /\ t.comp.desc # Simple /\ found.res = "success"
         /\ \E len \in IF found.off < Size THEN {At(found.off).len} ELSE 0 .. LenMod - 1 :
              stack' = Append(stack, Context((found.off + 1) % LenMod, len))
         /\ off' = found.off + 1
         /\ ram' = Put(ram, PathOf(t), Group)
         /\ todo' = Components(Running(upgraded), t.comp, PathOf(t))
                      \o <<Task("OBJECT", t.comp, t.path, 0)>> \o NextItem(t) \o Rest
         /\ LoadFrame

(* There is no memory for an owned item. *)
LoadNoMemory ==
  /\ Loading("item")
  /\ Head(todo).comp.owned
  /\ FindType(Head(todo).comp).res = "success"
  /\ Fail("starved")

(* endLoadComposite: behind the composite, whatever was read of it. *)
LoadClose ==
  /\ Loading("OBJECT")
  /\ off' = Top.at + Top.len
  /\ stack' = Front(stack)
  /\ todo' = Rest
  /\ LoadFrame /\ UNCHANGED ram

(* Store::endLoad *)
LoadEnd ==
  /\ phase = "load" /\ todo = <<>>
  /\ open' = open - 1
  /\ phase' = "loaded"
  /\ UNCHANGED <<saved, upgraded, writes, file, off, stack, todo, ram, crashed>>

(* The steps of a save and of a load, which are one command each. *)
SaveStep == SaveAggr \/ SaveSimple \/ SaveComposite \/ SaveClose \/ SaveEnd
LoadStep ==
  \/ LoadAggr \/ LoadNotFound \/ LoadSimple \/ LoadComposite
  \/ LoadNoMemory \/ LoadClose \/ LoadEnd

Next == SaveStart \/ SaveStep \/ LoadStart \/ LoadUnopened \/ LoadStep \/ Crash

(* A command that was begun is carried on: the handler waits for nothing.  *)
(* Whether one is given is the operator's business.                        *)
Spec == Init /\ [][Next]_vars /\ WF_vars(SaveStep \/ LoadStep)

-----------------------------------------------------------------------------
(* Every variable has its type.  The stacks hold at most StackDepth        *)
(* composites, which the loader does not check and the writer's assert     *)
(* gets wrong by one, and the file is open at most once, also when a save  *)
(* or a load follows one that failed.                                      *)
TypeOK ==
  /\ phase \in Phases
  /\ upgraded \in BOOLEAN
  /\ off \in Nat
  /\ Len(stack) \in 0 .. StackDepth
  /\ \A i \in DOMAIN stack : stack[i] \in [at : Nat, len : 0 .. LenMod - 1]
  /\ open \in 0 .. 1
  /\ crashed \in BOOLEAN

(* At no moment of a load, even of a partly saved configuration, is there  *)
(* an item that was not saved, or one with another's value: the            *)
(* application reads the configuration while it is loaded.                 *)
OnlySaved ==
  phase = "load" =>
    \A p \in DOMAIN ram \ {<<>>} :
       p \in DOMAIN Owed[saved][upgraded] /\ ram[p] = Owed[saved][upgraded][p]

(* "save" saves the entire configuration and "load" loads it (README.md):  *)
(* a value is loaded into the item it was saved from.                      *)
ItsOwnValue == phase \in {"load", "loaded"} => \A p \in DOMAIN ram : ram[p] = Value(p)

(* While the composites of a whole configuration are loaded the offset     *)
(* stays in the innermost, and each composite in the one around it: the    *)
(* lengths that were added up during the save are the ones the loader      *)
(* needs to find what comes behind.                                        *)
InsideComposite ==
  phase = "load" /\ ~crashed =>
    \A i \in DOMAIN stack :
      LET end == stack[i].at + stack[i].len
      IN  /\ off \in stack[i].at .. end
          /\ i > 1 => end <= stack[i - 1].at + stack[i - 1].len

(* "startWriteComposite/endWriteComposite not called if empty": a header   *)
(* is never written for a composite with nothing in it.                    *)
NoEmptyComposite == Saving("OBJECT") => Top.len > 0

(* The store keeps the promises of Recovery. *)
Promised == INSTANCE Recovery WITH
  whole <- saved # Nothing /\ phase # "save" /\ ~crashed,
  device <- phase,
  loaded <- IF phase = "loaded" THEN Brought(ram) ELSE Defaults

(* What is in memory after a load is exactly what was saved, every value   *)
(* in the item it was saved from, or it is the defaults because the save   *)
(* was cut short or memory ran out: also with a newer schema, and however  *)
(* often the device saved, loaded and stopped before.                      *)
KeepsPromise == Promised!Spec

(* A save or a load that was begun ends, whatever lengths lead the search. *)
CommandsEnd == Promised!CommandsEnd
=============================================================================
