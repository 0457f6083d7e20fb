---------------------------- MODULE ConfigManager ----------------------------
(***************************************************************************)
(* The command line over a whole tree of items: a command is evaluated     *)
(* word by word, and if every word is valid it is executed by a second     *)
(* walk over the same words, starting from the same context.  The context  *)
(* is a raw pointer to an item that outlives the command; owned items are  *)
(* in blocks that realloc moves and free gives back, contained items are   *)
(* a part of the item they belong to.                                      *)
(*                                                                         *)
(* A word is the pair of a component's name and an index.  The length of a *)
(* block is the count: module OwnedAggregate is about the two agreeing.    *)
(***************************************************************************)
EXTENDS Integers, Sequences, FiniteSets, SequencesExt

CONSTANTS
  Root,       \* the descriptor of the whole configuration
  Simple,     \* the descriptors of simple items
  Components, \* the components (aggregates) of each composite descriptor
  Component,  \* the descriptor of each component's items
  Owned,      \* the owned components; the others are contained
  MaxCount,   \* how many items a component has, or may have when owned
  Layout,     \* the items inside an item, by the path that leads to them
  Settable, HasDefault, Persistent,   \* what a descriptor provides
  Value, Default,
  Zero,       \* what memory holds before it is set to default
  Number,     \* the numbers that are typed as an index
  Wrap,       \* one more than the largest unsigned int
  Addr,       \* addresses of blocks
  Base,       \* the block of the configuration itself, m_ramBase
  NULL

Aggr == DOMAIN Component
Desc == Simple \cup DOMAIN Components
ComponentsOf(d) == IF d \in Simple THEN {} ELSE Components[d]

ASSUME SchemaAssumption ==
  /\ Root \in DOMAIN Components /\ Simple \cap DOMAIN Components = {}
  /\ \A a \in Aggr : Component[a] \in Desc /\ MaxCount[a] \in Nat \ {0}
  /\ Owned \subseteq Aggr
  /\ \A d \in DOMAIN Components : Components[d] \subseteq Aggr
\* An item starts with itself, and has room for what its parts contain.
ASSUME LayoutAssumption ==
  \A d \in Desc :
    /\ <<>> \in DOMAIN Layout[d] /\ Layout[d][<<>>] = d
    /\ \A p \in DOMAIN Layout[d] :
         /\ Layout[d][p] \in Desc
         /\ \A a \in ComponentsOf(Layout[d][p]) \ Owned : \A i \in 0 .. MaxCount[a] - 1 :
              /\ Append(p, <<a, i>>) \in DOMAIN Layout[d]
              /\ Layout[d][Append(p, <<a, i>>)] = Component[a]
ASSUME ValueAssumption == {Default, Zero} \subseteq Value /\ Settable \subseteq Simple
ASSUME NumberAssumption == Number \subseteq Nat /\ Wrap \in Nat \ {0}
ASSUME AddrAssumption == Base \notin Addr /\ NULL \notin Addr \cup {Base}

VARIABLES
  heap,   \* the live blocks, each a sequence of items
  ctxt,   \* m_currCtxt: the descriptor and the address of an item
  phase,  \* what the manager is doing, or the assert it stopped at
  cmd,    \* the words read (evaluation) or left (execution)
  op,     \* the action of the command being executed
  at      \* where the walk is: an item, or none if it is not in memory

vars == <<heap, ctxt, phase, cmd, op, at>>

-----------------------------------------------------------------------------
(* Items and where they are.  An item in memory is the values of the       *)
(* simple items inside it and the pointers of the owned components inside. *)

Values(d) == {p \in DOMAIN Layout[d] : Layout[d][p] \in Simple}
Slots(d)  == {s \in (DOMAIN Layout[d]) \X Owned : s[2] \in ComponentsOf(Layout[d][s[1]])}

FirstValue(d) == IF d \in HasDefault THEN Default ELSE Zero

(* Mutant: the memory of a new item is not zeroed. *)
NewItemNoMemset(d) ==
  [desc |-> d,
   val |-> [p \in Values(d) |-> FirstValue(Layout[d][p])],
   own |-> [s \in Slots(d) |-> Base]]

NewItem(d) ==
  [desc |-> d,
   val |-> [p \in Values(d) |-> FirstValue(Layout[d][p])],
   own |-> [s \in Slots(d) |-> NULL]]

Place(d, b, i, p) == [desc |-> d, blk |-> b, idx |-> i, path |-> p]
BasePlace  == Place(Root, Base, 0, <<>>)
Nowhere(d) == Place(d, NULL, 0, <<>>)
Present(l) == l.blk # NULL

ItemAt(l) == heap[l.blk][l.idx + 1]

(* The items of component a of the item at l (getFirstItem, getCount). *)
BlockOf(l, a) == IF Present(l) THEN ItemAt(l).own[<<l.path, a>>] ELSE NULL
ItemsOf(l, a) == IF BlockOf(l, a) = NULL THEN <<>> ELSE heap[BlockOf(l, a)]
CountOf(l, a) == IF a \in Owned THEN Len(ItemsOf(l, a)) ELSE MaxCount[a]

(* The item with index i of component a (getItemAtIndex). *)
Below(l, a, i) ==
  IF ~Present(l) \/ i >= CountOf(l, a) THEN Nowhere(Component[a])
  ELSE IF a \in Owned THEN Place(Component[a], BlockOf(l, a), i, <<>>)
  ELSE Place(Component[a], l.blk, l.idx, Append(l.path, <<a, i>>))

Pointers(item) == {item.own[s] : s \in DOMAIN item.own} \ {NULL}

(* Every block that can be reached from those in B. *)
Closed(S) == \A b \in S \cap DOMAIN heap : \A i \in DOMAIN heap[b] : Pointers(heap[b][i]) \subseteq S
Reachable(B) == {b \in Addr : \A S \in SUBSET Addr : B \subseteq S /\ Closed(S) => b \in S}

-----------------------------------------------------------------------------
(* Changes of memory, each the whole heap after it. *)

(* The heap when component a of the item at l is now in block b. *)
Rehomed(l, a, b, items) ==
  LET owner == [heap[l.blk] EXCEPT ![l.idx + 1].own[<<l.path, a>>] = b]
  IN  [x \in (DOMAIN heap \ {BlockOf(l, a)}) \cup ({b} \ {NULL}) |->
         IF x = b THEN items ELSE IF x = l.blk THEN owner ELSE heap[x]]

(* Where realloc may put the block of component a. *)
Targets(l, a) == (Addr \ DOMAIN heap) \cup ({BlockOf(l, a)} \ {NULL})

(* Mutant: the item displaced by an insertion is left where it was. *)
AddedNoReset(l, a, i, b) ==
  LET items == ItemsOf(l, a)
  IN  Rehomed(l, a, b,
        InsertAt(items, i + 1, IF i < Len(items) THEN items[i+1] ELSE NewItem(Component[a])))

(* Owned_aggregate::add. *)
Added(l, a, i, b) ==
  Rehomed(l, a, b, InsertAt(ItemsOf(l, a), i + 1, NewItem(Component[a])))

CanAdd(l, a) == a \in Owned /\ CountOf(l, a) < MaxCount[a]

(* Owned_aggregate::del: what the item owned is not freed. *)
Deleted(l, a, i, b) == Rehomed(l, a, b, RemoveAt(ItemsOf(l, a), i + 1))

Written(h, l, v) == [h EXCEPT ![l.blk][l.idx + 1].val[l.path] = v]

(* What is inside the item at l, by its path in the whole item. *)
Inside(l, p) == IsPrefix(l.path, p)

Reset(l) ==
  LET item == ItemAt(l)
  IN  [item EXCEPT
         !.val = [p \in DOMAIN @ |-> IF Inside(l, p) /\ Layout[item.desc][p] \in HasDefault
                                    THEN Default ELSE @[p]],
         !.own = [s \in DOMAIN @ |-> IF Inside(l, s[1]) THEN NULL ELSE @[s]]]

PointersAt(l) ==
  {ItemAt(l).own[s] : s \in {x \in DOMAIN ItemAt(l).own : Inside(l, x[1])}} \ {NULL}

(* Mutant: the items are freed without setting them to default first. *)
DefaultedShallow(l) ==
  [x \in DOMAIN heap \ PointersAt(l) |->
     IF x = l.blk THEN [heap[x] EXCEPT ![l.idx + 1] = Reset(l)] ELSE heap[x]]

(* setDefault: every block below the item is freed; a simple item without  *)
(* a default keeps its value.                                              *)
Defaulted(l) ==
  [x \in DOMAIN heap \ Reachable(PointersAt(l)) |->
     IF x = l.blk THEN [heap[x] EXCEPT ![l.idx + 1] = Reset(l)] ELSE heap[x]]

-----------------------------------------------------------------------------
Nothing == [kind |-> "none"]

AtPrompt == phase' = "prompt" /\ cmd' = <<>> /\ op' = Nothing /\ at' = ctxt'

Init ==
  /\ heap = [b \in {Base} |-> <<NewItem(Root)>>]
  /\ ctxt = BasePlace /\ at = BasePlace
  /\ phase = "prompt" /\ cmd = <<>> /\ op = Nothing

(* delegate: a command goes to the item of the current context. *)
StartCmd ==
  /\ phase = "prompt"
  /\ phase' = "eval"
  /\ UNCHANGED <<heap, ctxt, cmd, op, at>>

(* The index that is typed: strtoul, stored in an unsigned int. *)
popUnsignedInt(n) == n % Wrap
IndexOf(a, n) == IF MaxCount[a] = 1 THEN 0 ELSE popUnsignedInt(n)

(* The next word names a component of the item, if it is a composite.      *)
Names(a) == phase = "eval" /\ a \in ComponentsOf(at.desc)

EvalWord(a, i) ==
  /\ at' = Below(at, a, i)
  /\ cmd' = Append(cmd, [aggr |-> a, idx |-> i])
  /\ UNCHANGED <<heap, ctxt, phase, op>>

(* Contained_aggregate::evalCmd *)
EvalContained(a, n) ==
  /\ Names(a) /\ a \notin Owned
  /\ IndexOf(a, n) < MaxCount[a]
  /\ EvalWord(a, IndexOf(a, n))

(* Mutant: the index may be one more than the count. *)
EvalOwnedBeyond(a, n) ==
  /\ Names(a) /\ a \in Owned
  /\ IndexOf(a, n) <= CountOf(at, a) + 1
  /\ EvalWord(a, IndexOf(a, n))

(* Owned_aggregate::evalCmd: an index may be at most the count, which is 0 *)
(* in an item that is not there.                                           *)
EvalOwned(a, n) ==
  /\ Names(a) /\ a \in Owned
  /\ IndexOf(a, n) <= CountOf(at, a)
  /\ EvalWord(a, IndexOf(a, n))

(* A word that is not valid: nothing is executed. *)
EvalReject ==
  /\ phase = "eval"
  /\ UNCHANGED <<heap, ctxt>> /\ AtPrompt

Accept(o) ==
  /\ phase = "eval"
  /\ phase' = "exec" /\ op' = o /\ at' = ctxt
  /\ UNCHANGED <<heap, ctxt, cmd>>

(* '=': also for an item that is not there, which is then added. *)
EvalSet(v) == at.desc \in Settable /\ Accept([kind |-> "set", val |-> v])

(* Mutant: other commands are not refused for an item that is not there.   *)
EvalSetDefAnywhere == Accept([kind |-> "setdef"])

(* 'setdef', 'prt', and a command without an action: a change of context.  *)
EvalSetDef == Present(at) /\ Accept([kind |-> "setdef"])
EvalPrt    == Present(at) /\ Accept([kind |-> "prt"])
EvalEmpty  == Present(at) /\ cmd # <<>> /\ Accept([kind |-> "empty"])

(* evalAdd *)
EvalAdd(a, n) ==
  /\ Names(a) /\ Present(at)
  /\ CanAdd(at, a)
  /\ popUnsignedInt(n) <= CountOf(at, a)
  /\ Accept([kind |-> "add", aggr |-> a, idx |-> popUnsignedInt(n)])

(* evalDel *)
EvalDel(a, n) ==
  /\ Names(a) /\ Present(at) /\ a \in Owned
  /\ IndexOf(a, n) < CountOf(at, a)
  /\ Accept([kind |-> "del", aggr |-> a, idx |-> IndexOf(a, n)])

-----------------------------------------------------------------------------
Stop(why) == phase' = why /\ UNCHANGED <<heap, ctxt, cmd, op, at>>

(* handleIdWord, Aggregate::getComponentItem: the item is found, or added  *)
(* if the index is the count; it asserts that there is an item then.       *)
ExecIdWord ==
  /\ phase = "exec" /\ cmd # <<>>
  /\ LET a == Head(cmd).aggr
         i == Head(cmd).idx
     IN  \/ /\ i < CountOf(at, a)
            /\ at' = Below(at, a, i) /\ cmd' = Tail(cmd)
            /\ UNCHANGED <<heap, ctxt, phase, op>>
         \/ /\ i = CountOf(at, a) /\ CanAdd(at, a)
            /\ \E b \in Targets(at, a) :
                 /\ heap' = Added(at, a, i, b)
                 /\ at' = Place(Component[a], b, i, <<>>)
            /\ cmd' = Tail(cmd)
            /\ UNCHANGED <<ctxt, phase, op>>
         \/ i = CountOf(at, a) /\ CanAdd(at, a) /\ Stop("starved")
         \/ i = CountOf(at, a) /\ ~CanAdd(at, a) /\ Stop("full")
         \/ i > CountOf(at, a) /\ Stop("missing")

ExecOp(kind) == phase = "exec" /\ cmd = <<>> /\ op.kind = kind

(* Simple_descriptor::set *)
ExecSet ==
  /\ ExecOp("set")
  /\ heap' = Written(heap, at, op.val)
  /\ UNCHANGED ctxt /\ AtPrompt

(* Mutant: the whole configuration is set to default. *)
ExecSetDefAll ==
  ExecOp("setdef") /\ heap' = Defaulted(BasePlace) /\ UNCHANGED ctxt /\ AtPrompt

ExecSetDef ==
  /\ ExecOp("setdef")
  /\ heap' = Defaulted(at)
  /\ UNCHANGED ctxt /\ AtPrompt

ExecPrt == ExecOp("prt") /\ UNCHANGED <<heap, ctxt>> /\ AtPrompt

(* The item becomes the context. *)
ExecEmpty ==
  /\ ExecOp("empty")
  /\ ctxt' = at
  /\ UNCHANGED heap /\ AtPrompt

(* handleAdd; without memory nothing changes. *)
ExecAdd ==
  /\ ExecOp("add")
  /\ \/ \E b \in Targets(at, op.aggr) : heap' = Added(at, op.aggr, op.idx, b)
     \/ UNCHANGED heap
  /\ UNCHANGED ctxt /\ AtPrompt

(* handleDel *)
ExecDel ==
  /\ ExecOp("del")
  /\ IF CountOf(at, op.aggr) = 1
     THEN heap' = Deleted(at, op.aggr, op.idx, NULL)
     ELSE \E b \in Targets(at, op.aggr) : heap' = Deleted(at, op.aggr, op.idx, b)
  /\ UNCHANGED ctxt /\ AtPrompt

(* '<' *)
ResetCtxt ==
  /\ phase = "prompt"
  /\ ctxt' = BasePlace
  /\ UNCHANGED heap /\ AtPrompt

-----------------------------------------------------------------------------
(* 'load': everything is set to default, then items are added as they are  *)
(* found in the store, each after the one before it.  The context is only  *)
(* reset at the end.                                                       *)
LoadStart ==
  /\ phase = "prompt"
  /\ heap' = Defaulted(BasePlace)
  /\ phase' = "load" /\ at' = BasePlace
  /\ UNCHANGED <<ctxt, cmd, op>>

(* A simple item gets its value; the components of a composite are next.   *)
Loads(h, l, v) ==
  /\ IF l.desc \in Simple
     THEN heap' = Written(h, l, v) /\ UNCHANGED <<at, cmd>>
     ELSE heap' = h /\ at' = l /\ cmd' = Append(cmd, at)
  /\ UNCHANGED <<ctxt, phase, op>>

Loading(a) ==
  phase = "load" /\ a \in ComponentsOf(at.desc) /\ Component[a] \in Persistent

(* loadItem: a contained item, or an owned item that is added for it. *)
LoadContained(a, i, v) ==
  /\ Loading(a) /\ a \notin Owned /\ i < MaxCount[a]
  /\ Loads(heap, Below(at, a, i), v)

LoadOwned(a, v) ==
  /\ Loading(a) /\ CanAdd(at, a)
  /\ LET i == CountOf(at, a)
     IN  \E b \in Targets(at, a) :
           Loads(Added(at, a, i, b), Place(Component[a], b, i, <<>>), v)

(* endLoadComposite: back to the item that owns this one. *)
LoadUp ==
  /\ phase = "load" /\ cmd # <<>>
  /\ at' = Last(cmd) /\ cmd' = Front(cmd)
  /\ UNCHANGED <<heap, ctxt, phase, op>>

(* Mutant: the context is not reset. *)
LoadEndKeepsCtxt ==
  phase = "load" /\ cmd = <<>> /\ UNCHANGED <<heap, ctxt>> /\ AtPrompt

LoadEnd ==
  /\ phase = "load" /\ cmd = <<>>
  /\ ctxt' = BasePlace
  /\ UNCHANGED heap /\ AtPrompt

(* 'Load failed': defaults. *)
LoadFail ==
  /\ phase = "load"
  /\ heap' = Defaulted(BasePlace)
  /\ ctxt' = BasePlace /\ AtPrompt

(* The process stopped at an assert and is started again. *)
Stopped == phase \in {"starved", "full", "missing"}

Restart ==
  /\ Stopped
  /\ heap' = [b \in {Base} |-> <<NewItem(Root)>>]
  /\ ctxt' = BasePlace /\ AtPrompt

Indices == 0 .. Max({MaxCount[a] : a \in Aggr})

Next ==
  \/ StartCmd \/ EvalReject \/ EvalSetDef \/ EvalPrt \/ EvalEmpty
  \/ \E v \in Value : EvalSet(v)
  \/ \E a \in Aggr, n \in Number :
       EvalContained(a, n) \/ EvalOwned(a, n) \/ EvalAdd(a, n) \/ EvalDel(a, n)
  \/ ExecIdWord \/ ExecSet \/ ExecSetDef \/ ExecPrt \/ ExecEmpty \/ ExecAdd \/ ExecDel
  \/ ResetCtxt
  \/ LoadStart \/ LoadUp \/ LoadEnd \/ LoadFail
  \/ \E a \in Aggr, v \in Value : LoadOwned(a, v) \/ \E i \in Indices : LoadContained(a, i, v)
  \/ Restart

Spec == Init /\ [][Next]_vars

-----------------------------------------------------------------------------
(* The blocks that belong to the configuration. *)
Tree == {Base} \cup Reachable(Pointers(heap[Base][1]))

Items == UNION {[desc : {d}, val : [Values(d) -> Value], own : [Slots(d) -> Addr \cup {NULL}]]
                  : d \in Desc}

TypeOK ==
  /\ DOMAIN heap \subseteq Addr \cup {Base}
  /\ \A b \in DOMAIN heap : heap[b] # <<>> /\ \A i \in DOMAIN heap[b] : heap[b][i] \in Items
  /\ phase \in {"prompt", "eval", "exec", "load", "starved", "full", "missing"}
  /\ at.desc \in Desc

(* There is an item of the place's descriptor at the place. *)
Points(l) ==
  /\ l.blk \in DOMAIN heap /\ l.idx + 1 \in DOMAIN heap[l.blk]
  /\ l.path \in DOMAIN Layout[ItemAt(l).desc]
  /\ Layout[ItemAt(l).desc][l.path] = l.desc

(* Between commands and while one runs, the context points to an item that *)
(* is in the configuration and is of the context's descriptor.  It is a    *)
(* raw pointer kept across commands: nothing updates it when a block moves.*)
ContextValid == phase # "load" => Points(ctxt) /\ ctxt.blk \in Tree

(* A command that does not change the context leaves the block the context *)
(* is in where it is and as long as it is, so the context stays the item   *)
(* the operator chose and not another one moved into its place.            *)
ContextPinned ==
  [][ctxt' = ctxt /\ phase # "load" /\ phase' # "load"
       => ctxt.blk \in DOMAIN heap' /\ Len(heap'[ctxt.blk]) = Len(heap[ctxt.blk])]_vars

(* Every pointer is to a live block and no two items own the same block,   *)
(* though add and del copy items with their pointers: nothing is freed     *)
(* twice or used after it was freed.                                       *)
Slot == UNION {UNION {{<<b, i, s>> : s \in DOMAIN heap[b][i].own}
                        : i \in DOMAIN heap[b]} : b \in DOMAIN heap}
Target(t) == heap[t[1]][t[2]].own[t[3]]

OwnershipIsTree ==
  \A t \in Slot : Target(t) # NULL =>
    /\ Target(t) \in DOMAIN heap
    /\ \A u \in Slot : Target(u) = Target(t) => u = t

(* Only an assignment adds items on its way to the item it is about: the   *)
(* other commands were refused if anything they name is missing            *)
(* (Owned_aggregate::evalCmd), though src/README.md says of every command  *)
(* that it creates the item it references.                                 *)
OnlySetsCreate ==
  [][phase = "exec" /\ cmd # <<>> /\ op.kind # "set" => heap' = heap]_vars

(* What evaluation accepts, execution finds: the second walk, which adds   *)
(* items on its way, never meets an index beyond the count.                *)
ExecFindsItems == phase # "missing"

(* Only 'del' can lose memory: set to default, load and a failed load free *)
(* whatever the items they remove own.                                     *)
OnlyDelLeaks ==
  [][phase # "exec" \/ op.kind # "del"
       => (DOMAIN heap \ Tree) = (DOMAIN heap' \ Tree') \/ Stopped]_vars

(* All memory allocated is part of the configuration.                      *)
NoLeak == DOMAIN heap = Tree
=============================================================================
