# A verification of config_store in TLA+

config_store keeps the configuration of a device in RAM, as a tree of items that a schema describes. An operator
looks at it and changes it with typed commands; it is saved to and loaded from non-volatile memory as TLV or JSON.
This directory holds TLA+ models of its core logic, the TLC runs that check them on small instances, and TLAPS
proofs of the properties that matter most. `src/` below is the repository.

## 1. Inventory

| Component | Source | State it keeps | Operations | What makes it correct |
|---|---|---|---|---|
| Manager | `src/src/cfg_mgr_implement.cpp` | `m_ramBase`, the block of the configuration; `m_currCtxt`, the current context | `handleCmd` → `delegate`, `save`, `load`, `resetCtxt` | a command is executed only if all of it is valid; the context always points to an item; a load gives the saved configuration or the defaults |
| Descriptors | `cfg_mgr_composite_descriptor.cpp`, `cfg_mgr_simple_descriptor.cpp` | none, they are metadata | `evalCmd`, `handleCmd`, `setDefault`, `save`, `startLoad`/`endLoad` | execution finds what evaluation accepted |
| Owned aggregate | `cfg_mgr_owned_aggregate.cpp`, `cfg_mgr_aggregate.cpp` | in the parent item: a pointer to a block of items and a counter | `add`, `del`, `freeItems`, implicit add, `load` | pointer, counter and block agree; a list of items; no memory lost |
| Contained aggregate | `cfg_mgr_contained_aggregate.cpp` | none: a fixed array inside its parent | evaluation, set to default, load of items at an index | index in range; only `=` creates what is missing below |
| Item identifier | `item_identifier_index.cpp`, `item_identifier_key.cpp` | none; a key is a component of its item | index or key of `add`, `del`, `=`, context | a key identifies one item |
| Command stack | `cfg_mgr_cmd_stack.cpp` | the words that are left | `pop`, `getTopOp`, `popUnsignedInt` | both walks see the same words |
| Tokenizer | `util/cfg_mgr_strtok.cpp` | its position in the line | the next word or block | the words are those the line means; it stays in the line |
| Set and print functions | `util/` | none | text to memory and back | what is printed can be typed again |
| TLV store | `src/src/store/tlv/` | file offset, a stack of composites | `startWriteComposite`…, `findType` | what is saved is loaded, also by a newer schema |
| JSON store | `src/src/store/json/` | file offset, a stack of objects and arrays | `startWriteMember`…, `findName` | the same |
| Nvram | `src/src/store/nvram.cpp` | an open file | `initForWrite`, `read`, `write`, `setOffset` | the file is open when it is used |
| Code generator | `code_gen/yaml_code_gen.py` | a file of identifiers | assigns an identifier to each component | an identifier is never used twice |
| Application | `example/test_cfg_mgr.cpp` | an index of its own; it reads and counts in the same RAM, in its own thread | `handle_command`, `stats_thread` | it counts for users that exist, and for all of them; while a command runs, nothing is promised (`src/README.md` says there is no protection) |

How they interact: the application cuts a line into words and passes them to the manager. The manager passes the
command and a raw pointer to the item of its context to that item's descriptor; a composite passes the rest of the
command to one of its aggregates, an aggregate to its component's descriptor, and so on down. This happens twice per
command, once to evaluate and once to execute it. `save` and `load` walk the whole tree the same way and call the
store for every item; the store keeps a stack of where it is in the file. The RAM is shared with the application.
The generator gives the identifiers under which the TLV store keeps components.

What is hard here: the same walk done twice over a tree that execution itself changes; raw pointers into blocks that
`realloc` moves; a counter of limited width next to a pointer; an allocator that fails in the middle of a command or a
load; limits that evaluation leaves to asserts, in a library whose documented build (`-DCMAKE_BUILD_TYPE=Release`)
has none; keys that are compared as text; stored data of another schema; a crash during a save, and the save or load
after it in a process that still has the stacks of the one before; identifiers that must outlive the schema they were
given in; a thread that reads with no lock. `PROJECT.json` lists these hazards at their lines.

## 2. The modules

| Module | What it is | Model of |
|---|---|---|
| `OwnedItems` | abstract specification: a list of at most `MaxCount` items | what an owned aggregate promises |
| `OwnedAggregate` | one array of owned items at the level of its memory; implements `OwnedItems` | `cfg_mgr_owned_aggregate.cpp`, `cfg_mgr_aggregate.cpp` |
| `ConfigManager`, `MCConfigManager` | a tree of contained and owned, simple and composite items; commands evaluated and then executed, the context, load and restart | `cfg_mgr_implement.cpp`, the descriptors, both kinds of aggregate, `cfg_mgr_cmd_ctxt.h`, `cfg_mgr_cmd_stack.cpp` |
| `KeyedItems`, `MCKeyedItems` | items that are named by key | `item_identifier_key.cpp` |
| `Recovery` | abstract specification: save, load, and a device that may stop at any moment | what a store promises |
| `StoredTree` | a configuration as a set of paths, and the walk that saves and loads it; no behaviour of its own | `save`, `load` of aggregates and descriptors |
| `JsonStore`, `MCJsonStore` | the walk over the JSON writer and loader, any number of saves and loads, crashes and a newer schema; implements `Recovery` | `store/json/`, `store/nvram.cpp` |
| `TlvStore`, `MCTlvStore` | the same over the TLV writer and loader; implements `Recovery` | `store/tlv/`, `store/nvram.cpp` |
| `StoredSchemas` | the schemas and configurations both stores are checked with | `example/tlv/my_cfg.cpp`, `example/json/my_cfg.cpp` |
| `IdAssignment`, `MCIdAssignment` | the identifiers of a schema while it is edited, generated and shipped | `code_gen/yaml_code_gen.py` |
| `Strtok` | the tokenizer, and the set and print functions of strings; no behaviour of its own | `util/cfg_mgr_strtok.cpp`, `util/cfg_mgr_set_str.cpp`, `util/cfg_mgr_prt_str.cpp` |
| `Application`, `MCApplication` | the two threads of the example over one array of users and one string | `example/test_cfg_mgr.cpp`, and the stores to pointer and counter in `cfg_mgr_owned_aggregate.cpp` |
| `OwnedAggregate_proofs`, `KeyedItems_proofs`, `IdAssignment_proofs`, `ConfigManager_proofs`, `Application_proofs`, `StoredTree_proofs`, `TlvStore_proofs`, `JsonStore_proofs` | proofs, with the lemmas on numbers and sequences they need | |

`JsonStore` and `TlvStore` are each the composition of manager, aggregates, descriptors, store and file for saves and
loads. `ConfigManager` composes the manager, the descriptors and the aggregates for commands; its `LoadContained` and
`LoadOwned` take "what the store returns" as a choice, and the two store modules say which choices a store makes.
`Application` composes the tokenizer, the steps in which an owned aggregate changes memory, and the second thread.
`OwnedAggregate` looks at one array with everything that memory and counter can do to it, `ConfigManager` at many
arrays under the assumption `BlockFitsCount` that the first one establishes: there the length of a block is the count.

**Plan.** What was planned is done except for this, in the order it would be taken up:

1. words that are keys in `ConfigManager` (now in `KeyedItems`, one array only), and several key components;
2. the set and print functions of numbers (`util/cfg_mgr_set_int.cpp`, `cfg_mgr_prt_int.cpp`), whose widths and bases
   only enter `KeyedItems` as a relation between words and keys;
3. a file that exists and cannot be opened, and a write that fails (`src/src/store/nvram.cpp`);
4. a composition of `IdAssignment` with `TlvStore`, where the identifiers of two schemas come from a history;
5. a proof that the JSON store implements `Recovery`, under a condition on the schemas that excludes `json_skipped`.

## 3. How the modules correspond to the code

**OwnedAggregate.** `heap` maps the addresses of the blocks `realloc` has returned to their contents, `ppItems` and
`counter` are the pointer and the counter that the schema places in the parent item, `status` says whether an assert
stopped the program or something undefined happened, and `loadIdx` is how far a load has come. Every command is one
action, from its evaluation to its last assignment (`AddCmd`, `SetCmd`, `ImplicitAddCmd`, `DelCmd`, `SetDefCmd`); a
load is a step per item, because memory can run out between two of them. `HasCounter` FALSE stands for an array without
a counter component, the optional single item. `Asserts` selects the build; `ShrinkFails` and `ZeroReallocFrees` what
the allocator may do: refuse to make a block smaller, and return a block for `realloc(p, 0)`. A wrong index or a null
pointer that the code uses makes `status` "undefined", never a disabled step.

**ConfigManager.** A place is a descriptor, a block, an index in it and the path to a part of that item: the model of
the raw pointer in `Cmd_context`. `Layout` says which parts an item has, so that a contained item is a part of its
parent's memory and an owned one is in a block of its own; an item in memory is the values of its simple parts and
the pointers of its owned ones. Memory that a type without a default function would leave alone keeps its value. The
evaluation and the execution of a command are separate steps per word, over the same words (`cmd`), as `evalCmd` and
`handleCmd` are two walks: the tree may be changed by the second while it is walked. `popUnsignedInt` narrows a number
to `Wrap` values. `heap` is shared by all aggregates, so that an item left in two blocks, or a block left in none, shows.
`Reachable` is the least set closed under the pointers, what the recursion of `setDefault` frees. An assert that is
reached is a phase in which nothing but `Restart` is possible. `help` and `prt` change nothing.

**KeyedItems.** A key is what the set function makes of a word (`Parse`), and what is printed of it is another word
(`Show`); the module compares what the code compares, printed words. `Matches` is `find_key`, and the rest is what
`get_indexAdd`, `get_indexEval` and `get_indexDel` do with its result.

**Recovery.** Memory holds one configuration, wholly or in part. A load that ends brings what is owed for it, or the
defaults, and the defaults only when a part was saved or memory ran out. `Owed` is computed from the schemas and not
from the file.

**StoredTree.** The recursion of `save` and `load` is a stack of tasks, `todo`: the calls that have still to be made.
A configuration is the set of the paths of its items, and the value of a simple item is its own path, so a value that
is loaded into another item shows. `Volatile` names the components that are not persistent. `Kept` and `Owed`
say what a load owes.

**JsonStore.** The file is the sequence of the tokens the writer wrote. A member's name with its colon is one token,
a value is one token, and white space is nothing. The loader's search functions (`toCloser`, `toNextName`, `findName`,
`startLoadMember`, `startLoadComposite`) are operators that return where they end, or how they fail and where that
leaves the offset; each of the walk's calls is an action. The context stack, the offset and the number of open files
outlive a command, as they do in the process. A crash is possible at any moment, and during a save it leaves some
beginning of what was written. `LoadUnopened` is a load before there was any save.

**TlvStore.** The file is what the writes made of it: a composite's header is written after its contents, at an
earlier offset, and until then there is a hole of zeros. A type and a length take one cell each, and `LenMod` is the
number of lengths there are. A crash leaves the file as some first part of the writes made it. A length that cannot
be read is any value, because the variable it is read into is not initialized. `IdZero` names the components whose
identifier is the one a hole looks like.

**IdAssignment.** `kind` and `transient` are the schema, which the developer edits an item at a time; `file` and
`listed` are the ID file, identifiers and the composites whose components it lists. `Generate` is a run of the script
up to the generated code, `SaveIds` the rest, `Crash` a run that stops between. `shipped` is what devices in the field
store. `Forget` is the developer who deletes from the ID file what is used nowhere, as `src/README.md` allows.

**Strtok.** The loop of the tokenizer as a recursive function of position and state, so that its `++` after every
character and the two places that move the position themselves are what they are in the code; `AreWordsOf` is what a line
means, written without looking at it.

**Application.** A change of the array is three steps, block, pointer and counter, in the order of the code, and the
statistics thread reads counter, counter again and pointer between any two of them. `raced` records that it did: what
it counts for is then anything, and an access to memory that is gone ends in "undefined" and a restart. The words of a
line decide how many there are in a command, and so which commands it can be.

## 4. What the runs check

| Run | Instance | What it shows |
|---|---|---|
| `owned_debug` | 3 items, a counter to 4, asserts, no shrink failure | pointer, counter and block agree; every item is initialized; no memory is lost; nothing undefined; `ImplementsItems` |
| `owned_hostile` | 3 items, a counter to 2, no asserts, every allocator behaviour | the pointer is never to freed memory; only `del` loses memory |
| `manager_tree` | two contained ports; up to two users with a name and a contained place, which may have a temperature; 4 blocks, numbers 0 to 4 of which 4 wraps to 0 | the context never points to freed memory or past an array, and is still the item that was chosen; what evaluation accepted execution finds; a tree of blocks; only an assignment creates items on its way; only `del` loses memory |
| `manager_del` (violated) | the same | `del` of an item loses what that item owns |
| `keys_string` | 3 items, 4 keys, 5 words | a word names the item it created, twice the same command creates one item, and only a rename, a set to default or a migration repeats a key |
| `keys_number` (violated) | numbers with two spellings | `add 1`, `add 0x1` gives two items with one key |
| `json_upgrade` | 20 configurations of the example's schema, any of them first and two of them over another; crash at any moment, also while idle; a newer schema; two files open at most | `Recovery`: what is loaded is what was saved, or the defaults; no wrong item at any moment of a load; the file is closed; every command ends |
| `json_skipped` (violated) | two users, an array in the middle of their components | the same software cannot load what it saved |
| `tlv_upgrade` | the same configurations and sessions, each save cut at every write | the same; the offset stays in its composite; no empty composite is written; the stacks suffice |
| `tlv_shifted` (violated) | two homes, of which any may have an address | what is saved in the second home is loaded into the first |
| `application` | every line of up to two characters, of three that begin with a quote, lines of three words, and the lines that were printed; 3 users | the words are what the line means; what was printed sets what it was printed from; the thread counts for a user that exists whenever no change races with it; when the operator stops, every user is counted for again and again |
| `ids` | 4 components in 3 levels, identifiers 0 and 1 | over every history of the schema no identifier in the field is given to another item, and none changes |

**Bounds.** Three items are enough for a first, a middle and a last one, and for the array to be full or empty between
two others; the counter is at most 4 or 2 so that it can be wider or narrower than the array. In `manager_tree` one user
in front of another and one temperature in front of another are enough for an item to be taken from its neighbour, and
four addresses are one more than the blocks two users can have, so that `realloc` can move any of them; `Wrap` is 4
so that every number below it, and one that is not, is typed. In the stores the depth of the schema is the depth of
the stacks, so that one level more would show in `TypeOK`. Any configuration may be saved first; what is saved over another
is the least or the largest (`SavedAgain`), so that a shorter file replaces a longer one and the other way round.
`MaxOpen` bounds how often one process can leave the JSON file open. In `ids` two composites in each other and
a sibling on every level are enough for an identifier to be taken by a neighbour, and two identifiers for two siblings.
In `application` three users are enough for a first, a middle and a last one; `IndexBound` cuts what races do to the
index, after which only the restart follows. The other bounds are `MaxCount`, the sets of configurations and `LenMod`: no
counter of the model is cut off.

**Schemas.** `json_upgrade` and `tlv_upgrade` use the schema of the repository's example, device, address, ports, users,
home, with arrays of two, owned temperatures as in the generator's example, and a composite that has nothing persistent
in it. The newer schema has a component less, one more in front and one more at the end. The components that follow a
user's temperatures are not persistent there: with a persistent one behind them the JSON load fails, which is
what `json_skipped` is about. Every simple component has a default, which the load restores before it reads.

**Deadlock** is checked in every run that does not say otherwise in its cfg.

**Fairness.** The stores assume weak fairness of the steps of a save and of a load together: the handler is a loop that
waits for nothing, so a command that was begun is carried on unless the device stops. With it `CommandsEnd` says
that every save and load ends, whatever the file holds after a crash. The application assumes weak fairness of
the main thread's steps once it has a line, and of the statistics thread, which the operating system both
schedules; the operator, who may never type another line, is not assumed to do anything. `EveryUserCounted` needs
both: a change that is under way must be finished, and the thread must wake up. The other modules state no fairness and
no liveness: each of their commands is bounded by the schema, and there is nothing else to wait for.

**Refinement.** `owned_debug` shows that the memory of `OwnedAggregate` implements the list of `OwnedItems`, and
`json_upgrade` and `tlv_upgrade` that either store implements `Recovery`: `whole` is that the last save ended without
a crash, and what is in memory counts only when a load has ended, because while it runs the items come one by one
(`OnlySaved` is about that time).

## 5. What the code does that its documents do not say

The runs marked *violated* are findings, each in `PROJECT.json` with the line it contradicts, and so is one property
that holds (`OnlySetsCreate`). In words:

* `json_skipped`: `toNextName` (`cfg_mgr_json_loader.cpp:222`) looks for the next comma in the file and not in the
  object. When an optional component in front of another was not stored in an element of an array, the search for it
  leaves the element, meets the `{` of the next one, and the load is abandoned and the defaults are restored. No
  change of the schema is needed. With components of the same name in an inner and an outer composite the search can
  also succeed in the wrong one.
* `tlv_shifted`: `save` writes nothing for an item that has no persistent content, also when it is one of an array
  (`cfg_mgr_composite_descriptor.cpp:224`), and a load gives the items of an array the indexes in turn. Whatever lies behind such
  an item moves to a smaller index. The example's schema has no array whose items can be empty, so `tlv_upgrade` does not
  meet this; JSON arrays are written by the same walk.
* `manager_del`: `del` never sets the deleted item to default, so what the item owns is lost.
* `keys_number`: keys are compared as words. A string longer than its item is cut, which has the same effect.
* `OnlySetsCreate`, in `manager_tree`: `src/README.md:141` says that referencing an item results in its creation. A command
  that names the next item of an owned array is refused unless it assigns a value (`cfg_mgr_owned_aggregate.cpp:168`), so `prt`,
  `setdef` and a change of context create nothing. This finding is a property that holds, and is proved
  (`OnlySetsAddItems`): it says the opposite of that sentence, and what the two sentences after it say of assignments.

Met while modelling, and not runs of their own:

* memory: `evalCmd` takes index `count` for an implicit add without comparing it with `maxCount`; the assert in `add` is
  all there is (the phase "full" of `ConfigManager`), and without it an assignment one past the end of a full array adds
  an item over the limit, which is why `NotMoreThanMax` assumes asserts; a counter too narrow for `maxCount` wraps in a build without asserts, and `del` overwrites the pointer
  with the result of a `realloc` that may fail (`owned_hostile` has both); where `realloc(p, 0)` returns a block, `del` of
  the last item forgets it (`ZeroReallocFrees` FALSE); `~Config_manager_implement` frees `m_ramBase` and nothing below it;
* commands: an index is narrowed from `unsigned long` to `unsigned`, so 4294967296 is index 0, and what follows a number in the word is ignored;
  a simple item without a default function keeps its value on `setdef` and `load`;
* keys: `setdef` of an item resets its key, a key can be assigned to like any component, and loading a store from
  before the key component gives every item the default key (`OnlyRenamesRepeat` names these as the only ways);
* tokenizer: an empty block `""` is never recognised (`cfg_mgr_strtok.cpp:86`, against the comment on the line before),
  so the line that prints an empty string cannot be typed again; the character behind a closing quote is lost; a lone quote
  leaves a string as it was; `cm_prt_int` prints an integer of 8 bits as a character; a line with 20 words or more
  writes past `param[]` (`test_cfg_mgr.cpp:62`), and `fgets` leaves the rest of a long line for the next command;
* stores: the length of a TLV composite wraps without an error and such a configuration loads as an empty one; the
  assert on the depth of the TLV writer (`cfg_mgr_tlv_writer.cpp:60`) admits one composite more than its array holds, and
  the loader has none; a JSON file that lacks its last brace is not closed after the load, and a newer schema
  that allows fewer items of an array leaves the loader inside it (`LoadCloses`); a load before the first save uses a
  null file pointer; after a crash in a save a load may report success with the defaults;
* generator: the ID file keeps no identifiers of what was below a composite that is no longer in the schema, which the
  comment at its head promises; a composite put back stops the script with a `KeyError` (line 245), which is what
  prevents their reuse. Code of a run that stopped before it saved its IDs would break the promise too; make deletes it.
  Another name for the base item gives new identifiers to everything.

## 6. What is proved

`OwnedAggregate_proofs`, for every maximum, counter, set of addresses and values, allocator and build, unless a
theorem names its assumption:

* `TypeCorrect` and `NoMemoryLost`: nothing but types, and a pointer that is null or to an allocated block; and, if
  the allocator can make a block smaller and `realloc(p, 0)` frees, no memory is lost.
* `OnlyDelLosesMemory`: without any assumption, no other command than `del` and no load loses memory.
* `PointerAndCountAgree`, `NotMoreThanMax`, `BlockAndCountAgree`, `NoItemUninitialized`, `NothingUndefined`: under
  the assumption `Guarded`, that the build has asserts or the array is a single item, and that making a block smaller succeeds.
* `MemoryImplementsItems`: under the same assumption, the memory implements `OwnedItems`.

The invariant the proof is about is the conjunction of the type, of the agreement of pointer, counter and length of
the block, and of the initialization of every item. No part of it is inductive alone: that `add` writes inside the
block needs the length, the length needs the counter, and the counter is only right because the pointer is null
exactly at 0. Each operation on a block has its lemma (`ResizedBlock`, `InsertedBlock`, `RemovedBlock`), and the proof that
a step keeps the invariant has one step per action. The refinement follows from it action by action.

`KeyedItems_proofs`, for every set of keys and words and every pair of set and print functions for which what is
printed can be typed again:

* `TypeCorrect` for all commands.
* `OrdinaryKeysDiffer`, `OnlyRenames`, `UsedWordNamesItem`, `RepeatedSetAddsNothing`, under the assumption `Canonical`
  that there is one word for a key. `keys_number` is the instance that shows that it cannot be dropped. The invariant adds that the keys in
  the store differ as well, because a load compares them with nothing. That `find_key` finds something rests on the
  order of the numbers being well-founded (`SmallestNumber`).

`IdAssignment_proofs`, for every tree of items and every history:

* `IdsTyped`, `IdsGivenOnce`, `IdsStable`: the types, `NeverGivenTwice` and `KeepsId`.
* `IdsKept`: what devices store of an item that is still in the ID file is what the file has for it.

The two properties are about the past and say nothing of the ID file, so they are far from inductive. The invariant
adds that every identifier in the field is either kept, the file has it for the same item, or lost together with
everything around it: some composite above the item is recorded and its components are not listed, and as long as that
is so the script stops before it could give the identifier to another. The composite is the topmost such (`Topmost`,
which exists because levels are numbers), and the proof that a run of the generator keeps the invariant is that a
composite listed again would have to be listed already.

`ConfigManager_proofs`, for every schema and layout in which an item has room for its parts, every set of addresses
and every sequence of commands, loads, allocation failures and restarts:

* `ConfigManagerType`, `ContextIsAnItem`, `TreeOfBlocks`, `WalkFindsItems`: the properties `TypeOK`, `ContextValid`,
  `OwnershipIsTree` and `ExecFindsItems` of `manager_tree`.
* `ContextStays`, `OnlySetsAddItems` and `OnlyDelLosesItems`: its action properties `ContextPinned`, `OnlySetsCreate` and
  `OnlyDelLeaks`.

The invariant (`Inv`) is that the heap is well-formed, that the context points to an item in the tree, and what is true
of the walk in each phase. Well-formed means that blocks hold items of the schema, pointers are to live blocks of the
right items, no two are to the same block, and that blocks have a *rank* that grows along every pointer. The rank is
what shows that the context survives: whatever a command or a load changes at an item, it leaves alone
every block whose rank is not larger than that of the item's block, and cuts nothing above it (`Keeps`), and the walk of
a command starts at the context and only goes to larger ranks. `Rehoming`, `Adding`, `Deleting`, `Writing` and `Defaulting` prove this of the
changes of memory; `KeptPoints` and `KeptInTree` say what it means for a place. While words are evaluated, either they
lead to an item (`Found`) or some word is the next index of an array and those after it are first ones (`Creates`);
execution takes the words off at the other end, and once it has created an item that item owns nothing
(`OwnsNothing`), so that the words that are left create the first item of each of its arrays. That is why no index is
beyond the count, and why only an assignment, which evaluation does not refuse for an item that is not there, adds any.
What memory is lost is the other side of what is in the tree, so that `OnlyDelLosesItems` needs both directions: a
block is in the tree exactly if every set that spans it has it (`TreeSpans`), a new array of items takes the place of the one it
replaces and has the same below it (`MovedTree`, `AddedTree`), and what a reset of an item frees is what is below
the item and nothing else (`DefaultedTree`). The walk of a command or of a load has to stay in the tree for that (`WalkInTree`).
The proof assumes of the schema that only simple items can be assigned to (`ValueAssumption`). `Inserted` and `Removed`
say what inserting and removing does to a sequence.

`Application_proofs`, for every set of lines that end with a newline, every
length of the string, number of users and set of addresses, and every sequence of commands, loads and wake-ups:

* `ApplicationTyped`, `Tokenizes`, `PrintedReplays` and `CountsForAUser`: all the invariants of the run `application`.

The tokenizer is a recursive function inside another, over a line of any length. That such functions exist is proved
from the first number for which they would not (`Rounds`, `Callable`); then `SeekInv`, the invariant of the loop, says what
is known of the characters the position has passed, and what it gives is `SeekToken`: the first token behind the position, or that
there is none. `Splitting` puts the calls together: the words are where the line is cut. `NeverBeyond` follows because a
token ends before the line does; `Replayed` because there is only one way to cut a printed line (`OneToken`). That the
words are those the line means, which is defined by the parity of the quotes before a position, needs the invariant that
every call starts outside a block, behind a separator (`AlwaysOutside`), and that the parity changes exactly at a quote
(`InsideIs`). The string's invariant, `ShortString`, says besides its length that it has no quote behind its first character: the
tokenizer cannot give such a word, and only therefore can what is printed be typed again. The invariant about the
threads (`MInv`) is that pointer and counter agree whenever no change is under way, and that as long as none was since the
statistics thread woke up, its index is below the counter once it has chosen one.

Assumed are that block delimiters are one character that is no word delimiter and that lines have no terminator in
them (`CharAssumption`, `NewlineAssumption`), as `test_cfg_mgr.cpp` calls the tokenizer, and that a printed string fits
in `cmd[]` (`SizeAssumption`).

`TlvStore_proofs`, with `StoredTree_proofs` about the walk, for every pair of schemas, every set of configurations,
lengths, and whatever a crash made of the file:

* `TlvTyped`: the type invariant of `tlv_upgrade`. Most of it is the depth of the stacks, which neither the writer nor
  the loader checks. The invariant says what the tasks of a walk have to do with the composites on the stack: they
  belong to a chain of items, each a component of the one before (`Walk`), so that the stack has a context for every item of
  the chain, and a chain is no longer than the nesting of the schema (`WalkDepth`). That the search for a type gives anything at all
  (`Searches`) is shown like the existence of the tokenizer's loops, because it looks at nothing behind the composite.
* `NothingEmpty`: the invariant `NoEmptyComposite`, if every composite component is persistent (`Lasting`; without that
  the code does write empty composites).
* `LoadsSaved` and `StaysInside`: the invariants `OnlySaved` and `InsideComposite`, of configurations in which no array has
  an item that is stored behind one that is not (`Packed`).
* `StoreKeepsPromise`: under these conditions, and if there is something to save in every configuration (`Filled`) and newer
  software that has a component has it wherever the older one did (`Keeping`), the store implements `Recovery`: initial states
  are initial states, and every step is a step of `Recovery` or changes nothing of it.

The last four are about behaviours in which the offsets of a save fit in a length (`Fitting`): behind that limit a length
wraps and the store breaks its promise (section 5). In `tlv_upgrade` no offset comes near it (they stay below 60, `LenMod`
is 256), so there the condition is always true. TLC evaluates `Lasting`, `Filled` and `Keeping` on the instances
of both TLV runs (`LayoutAssumption`) and `Packed` on the first of them (`PackedAssumption`); `tlv_shifted` is
the instance that shows that it cannot be dropped.

The inductive invariant of the last four (`StoreInv`) has a part for each phase and one for the file between them:

* `SaveInv` is what a save leaves in the file. Of the items that are stored (`Kept`), those that were saved come before the
  open ones and these before those that are pending, in the order of the schema (`Ordered`, `Queued`), whatever the
  lengths. The items of an open composite tile the space from its header to the offset, its context's length is the size of
  that space (`Levels`), every saved item's cells were written once, and nothing was written yet where the open ones' headers
  go (`Laid`).
* `FileInv`: after a save the whole configuration is laid out in the file (`Written`), and after a crash the file is
  hollow: the outermost header, which is written last, is not there or is still a hole of length zero, and a load finds
  nothing in it. That is why a crash gives the defaults and never a part of the configuration.
* `LoadInv` is where a load stands in a whole file: of the items a task is about, those it has loaded lie behind the
  offset and the others ahead of it (`Placed`), the tasks come in the order in which their items were saved (`Lined`),
  the contexts on the stack are the places of the open items (`Stacked`), memory holds only items that are stored
  and that the running schema has, each with its own value (`Loaded`), and those that it has and that are not in memory
  are still to be found by some task (`Completes`). The loader compares types only, so what the proof needs most is
  `Answer`: what the search gives in such a place is the next item of the component if one is stored, and it is
  "not found" only if none is, with the offset where it was.

The assumptions are those of `StoredTree` and `TlvStore`: the components of a descriptor differ in their names, and
a name is that of one component; newer software keeps the order of what it keeps; a configuration is a tree in which
the items of an array are its first ones; items are not empty, their lengths fit in a header, and no schema is nested deeper
than the stacks (`DepthAssumption`, a height for every descriptor).

`JsonStore_proofs`, with `StoredTree_proofs` about the walk, for every pair of schemas, every set of configurations, and
whatever a crash left of the file:

* `JsonTyped`: the type invariant of `json_upgrade`. What it says is that the offset never leaves the file, and that
  no context is pushed beyond the end of the stack, which a build without asserts does not check, and the last never popped.
* `JsonLoadsSaved`: the invariant `OnlySaved`, of configurations in which no array has an item that is stored behind one
  that is not (`Packed`).
* `JsonLoadCloses`: the action property `LoadCloses`.

All three assume that the composites around an item have none of its components, nor of those that newer
software gives it (`Apart`). A search goes on behind the end of the object it began in, because `toNextName` takes the first
comma it meets, and a component of the same name out there would be taken for the one that is looked for: with `Apart`
it can only be missed. TLC evaluates `Apart` and `Packed` on the instances of both JSON runs.

A JSON file has no lengths: where a token belongs follows from all that is before it. So the invariant (`StoreInv`)
gives every position of the file a place (`Text`): the frame it is in, which is the file, an item or an array, the
next index there, and whether a member begins, goes on or has ended; each token leads from one place to the next (`Follows`),
and each closing bracket is matched with the one it closes (`Matched`).

* `SaveInv`: what was written so far is such a text, the brackets that are open are those of the frames on the writer's
  stack, and every task that is left belongs to one of these frames, from the innermost out (`Tracked`). A crash cuts the text
  anywhere, and what is left is a text too (`TextCut`).
* `FileInv`: between saves the file is a text, and a whole one ends where the file ends.
* `LoadInv`: the loader's offset is at a place of the text, its contexts are those of the frames around that place,
  and the tasks belong to these frames (`Live`). Only a load of a file that was cut may be elsewhere, at the end of the file or
  with an empty one (`Stuck`, `Bare`), and it stays there until it fails or ends. What the proof needs most is `FindIs`:
  `toCloser`, which counts the brackets of one kind only, ends behind the matching one (`ClosedIs`), so a search
  visits only names in the frame it began in or in frames around that one, and by `Apart` a name that is found is the right one.
* `RamInv`: memory holds only items that are stored and that the running schema has, each with its own value (`Loaded`).

The assumptions are those of `StoredTree` and that the stack has room for a context for the file, the base item, and
every array and composite in it (`DepthAssumption`). That the JSON store implements `Recovery` is only model-checked: it
is not true of every schema (`json_skipped`), and the invariant does not say that the members of an object are there in the
order of the schema, which it would have to.

Only model-checked: that the JSON store implements `Recovery` (`KeepsPromise` of `json_upgrade`). Out of the prover's reach
altogether: liveness under fairness (`CommandsEnd`, `EveryUserCounted`) and ENABLED.

## 7. What is not modelled

* Help, and the texts that are printed: no state.
* The set and print functions of numbers, except for what a key needs of them: which words mean the same.
* The templates of the code generator, which print C++, and its validation of a schema: the schemas of the model are valid.
* A file that exists and cannot be opened, and a write to it that fails: none of the callers looks at the result.
* Lines of 20 words and more, of the application: what a write past `param[]` does is not defined (`LineAssumption`).
* Values in a JSON file are whole tokens, so a value that is cut in two, or contains quotes, is not there; a cut file is
  never loaded, which is what `KeepsPromise` says for cuts between tokens.
* Arrays with a key, and arrays named by index, are in different modules; an item has one key component.
* A file system that loses what was written before `fclose`: nothing in the code flushes or syncs, and both store models take a
  save that has ended to be in the file whatever happens next, a crash included; a crash during a save leaves a first
  part of its writes, in their order.
* An inner search of a load (`findName`, `findType`) as steps of its own: it is one operator, so a search that did
  not end would be an error of TLC's evaluation and not a violation of `CommandsEnd`, which is about the steps of a
  load that repeat it. That the TLV search ends is proved (`Searches`).
* Schemas and configurations behind the limits that assumptions name: composites nested deeper than the stacks
  (`DepthAssumption`), TLV lengths that wrap (`Fitting`), newer schemas in another order or with a smaller maximum
  (`OrderAssumption`, `NamesAssumption`), and in the instances a composite that is not persistent and has persistent components.
  The hazards at these limits are in `PROJECT.json` with no property and a note.
* The tests and the stubs were read for the behaviour they expect.
