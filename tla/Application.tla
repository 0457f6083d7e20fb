---------------------------- MODULE Application ----------------------------
(***************************************************************************)
(* The example application: one thread reads a line, cuts it into words    *)
(* and passes them to the manager; another wakes up now and then and       *)
(* counts for one user after the other.  Both use the configuration        *)
(* through pCfg, with nothing to keep them apart.                          *)
(*                                                                         *)
(* Of the configuration there are the array of users, changed as           *)
(* Owned_aggregate changes it, first the block, then the pointer, then the *)
(* counter, and one string.  The words decide how many there are in a      *)
(* command, not which command it is.                                       *)
(***************************************************************************)
EXTENDS Strtok

CONSTANTS
  Lines,      \* what the operator types: lines with their newline
  Chars,      \* the characters of a line
  Letter, Space, Newline,   \* three of them
  NameLen,    \* the bytes of the string, its terminator included
  MaxUsers,
  Addr, NULL,
  IndexBound  \* how far races may drive userIdx (a bound of the model)

CmdSize   == 120   \* cmd[], with the terminator
ParamSize == 20    \* param[], with the null pointer at the end

ASSUME LineAssumption ==
  \A l \in Lines : Len(l) < CmdSize /\ Len(Split(l \o <<NUL>>)) < ParamSize
(* fgets gives whole lines, and a string that is printed fits in one. *)
ASSUME NewlineAssumption ==
  /\ Lines \subseteq Seq(Chars)
  /\ \A l \in Lines : l # <<>> /\ Last(l) = Newline
ASSUME SizeAssumption ==
  /\ MaxUsers \in Nat \ {0} /\ NameLen \in Nat \ {0}
  /\ NameLen + 6 < CmdSize

ASSUME BoundAssumption == IndexBound \in Nat

(* WORD_DELIMITERS and BLOCK_DELIMITER, which is one character. *)
ASSUME CharAssumption ==
  /\ {Letter, Space, Newline} \subseteq Chars /\ NUL \notin Chars
  /\ Delimiters = {Space, Newline} /\ Letter \notin Delimiters
  /\ \E quote \in Chars \ {Letter, Space, Newline} :
       BlockStart = <<quote>> /\ BlockEnd = <<quote>>

VARIABLES
  pc,         \* where the main thread is
  typed,      \* the line it has read
  name,       \* the string
  printed,    \* what "prtc" printed it as, last time
  users, userCount,   \* pCfg->users, pCfg->userCount
  heap,       \* the length of each block
  ppNew, newCount,    \* what a change of the array is about to store
  loading,    \* the array is being loaded
  tpc,        \* where stats_thread is
  userIdx,    \* its static index
  seen,       \* userCount as it read it first
  raced       \* the main thread changed the array since it woke up

conf   == <<users, userCount, heap, ppNew, newCount, loading>>
thread == <<tpc, userIdx, seen>>
vars   == <<pc, typed, name, printed, conf, thread, raced>>

NoBlock == [a \in {} |-> 0]

Init ==
  /\ pc = "prompt" /\ typed = <<>>
  /\ name = <<>> /\ printed = <<>>
  /\ users = NULL /\ userCount = 0 /\ heap = NoBlock
  /\ ppNew = NULL /\ newCount = 0 /\ loading = FALSE
  /\ tpc = "asleep" /\ userIdx = 0 /\ seen = 0
  /\ raced = FALSE

-----------------------------------------------------------------------------
(* The main thread. *)

Words == Split(typed \o <<NUL>>)

(* What a store may hold for the string. *)
Names == UNION {[1 .. n -> {Letter, Space}] : n \in 0 .. NameLen - 1}

(* A line of "prtc". *)
Printed == <<Letter, Space, Letter, Space>> \o prt_str(printed) \o <<Newline>>

(* handle_command reads a line: typed, or one printed before. *)
ReadLine ==
  /\ pc = "prompt"
  /\ typed' \in Lines \cup {Printed}
  /\ pc' = "command"
  /\ UNCHANGED <<name, printed, conf, thread, raced>>

Done == pc' = "prompt" /\ typed' = <<>>

(* A line with no words, an invalid command, or one that changes nothing.  *)
NoChange == pc = "command" /\ Done /\ UNCHANGED <<name, printed, conf, thread, raced>>

PrintConfig ==
  /\ pc = "command" /\ Len(Words) = 1
  /\ printed' = name
  /\ Done /\ UNCHANGED <<name, conf, thread, raced>>

(* name = "...", which is what a printed line is. *)
SetName ==
  /\ pc = "command" /\ Len(Words) = 3
  /\ set_str_valid(Words[3])
  /\ name' = set_str(name, Words[3], NameLen)
  /\ Done /\ UNCHANGED <<printed, conf, thread, raced>>

(* "name setdef", or "setdef" when there are no users.                     *)
DefaultName ==
  /\ pc = "command"
  /\ Len(Words) = 2 \/ (Len(Words) = 1 /\ users = NULL)
  /\ name' = <<>>
  /\ Done /\ UNCHANGED <<printed, conf, thread, raced>>

(* What the other thread is doing races with a change of the array. *)
Racing == raced' = (raced \/ tpc # "asleep")

(* realloc, or free when no users are left. *)
Resize(n) ==
  /\ newCount' = n
  /\ \/ /\ n = 0
        /\ ppNew' = NULL
        /\ heap' = [a \in DOMAIN heap \ {users} |-> heap[a]]
     \/ /\ n > 0
        /\ ppNew' \in (Addr \ DOMAIN heap) \cup ({users} \ {NULL})
        /\ heap' = [a \in (DOMAIN heap \ {users}) \cup {ppNew'} |->
                      IF a = ppNew' THEN n ELSE heap[a]]
  /\ pc' = "resized"
  /\ Racing
  /\ UNCHANGED <<printed, users, userCount, thread>>

(* Mutant: one user too many is accepted. *)
AddLate ==
  /\ pc = "command" /\ Len(Words) \in {2, 3}
  /\ userCount <= MaxUsers
  /\ Resize(userCount + 1) /\ UNCHANGED <<typed, name, loading>>

(* evalAdd, Owned_aggregate::add up to realloc. *)
Add ==
  /\ pc = "command" /\ Len(Words) \in {2, 3}
  /\ userCount < MaxUsers
  /\ Resize(userCount + 1) /\ UNCHANGED <<typed, name, loading>>

(* evalDel, Owned_aggregate::del up to realloc. *)
Del ==
  /\ pc = "command" /\ Len(Words) = 3
  /\ userCount > 0
  /\ Resize(userCount - 1) /\ UNCHANGED <<typed, name, loading>>

(* "setdef", and the start of "load": every item is set to default, which  *)
(* for the array is freeItems.                                             *)
Clear ==
  /\ pc = "command" /\ Len(Words) = 1
  /\ users # NULL
  /\ Resize(0) /\ name' = <<>> /\ loading' \in BOOLEAN /\ UNCHANGED typed

(* "load" when there were no users. *)
LoadFirst ==
  /\ pc = "command" /\ Len(Words) = 1
  /\ users = NULL
  /\ pc' = "loading" /\ loading' = TRUE /\ name' = <<>>
  /\ UNCHANGED <<typed, printed, users, userCount, heap, ppNew, newCount, thread, raced>>

LoadUser ==
  /\ pc = "loading" /\ userCount < MaxUsers
  /\ Resize(userCount + 1) /\ UNCHANGED <<typed, name, loading>>

LoadEnd ==
  /\ pc = "loading" /\ loading' = FALSE
  /\ name' \in Names
  /\ Done
  /\ UNCHANGED <<printed, users, userCount, heap, ppNew, newCount, thread, raced>>

(* The load failed: everything is set to default again.                    *)
LoadFail ==
  /\ pc = "loading" /\ users # NULL
  /\ Resize(0) /\ name' = <<>> /\ loading' = FALSE /\ UNCHANGED typed

(* *ppItems = ... *)
Publish ==
  /\ pc = "resized"
  /\ users' = ppNew /\ pc' = "published"
  /\ Racing
  /\ UNCHANGED <<typed, name, printed, userCount, heap, ppNew, newCount, loading, thread>>

(* setCount *)
SetCount ==
  /\ pc = "published"
  /\ userCount' = newCount
  /\ ppNew' = NULL /\ newCount' = 0
  /\ IF loading THEN pc' = "loading" /\ UNCHANGED typed ELSE Done
  /\ Racing
  /\ UNCHANGED <<name, printed, users, heap, loading, thread>>

Change == LoadUser \/ LoadEnd \/ LoadFail \/ Publish \/ SetCount

Command == NoChange \/ PrintConfig \/ SetName \/ DefaultName \/ Add \/ Del \/ Clear \/ LoadFirst

-----------------------------------------------------------------------------
(* stats_thread. *)
main == <<pc, typed, name, printed, conf>>

(* sleep(5) is over; is there a user? *)
Wake ==
  /\ pc # "undefined" /\ tpc = "asleep" /\ userCount > 0
  /\ tpc' = "awake" /\ seen' = userCount
  /\ raced' = (pc \in {"resized", "published"})
  /\ UNCHANGED <<main, userIdx>>

(* Mutant: the last index is not compared, but only equalled. *)
NextUserIdxEqual(count) == IF userIdx = count - 1 THEN 0 ELSE userIdx + 1

(* Mutant: the next index is looked at, and the last user never reached.   *)
NextUserIdxSkips(count) ==
  IF count > 0 /\ userIdx + 2 >= count THEN 0 ELSE userIdx + 1

(* userIdx >= userCount - 1 ? 0 : userIdx + 1, unsigned: 0 - 1 is the      *)
(* largest number.                                                         *)
NextUserIdx(count) ==
  IF count > 0 /\ userIdx >= count - 1 THEN 0 ELSE userIdx + 1

(* The counter is read again, or what was read is used.                    *)
Choose ==
  /\ pc # "undefined" /\ tpc = "awake"
  /\ \E count \in {seen, userCount} : userIdx' = NextUserIdx(count)
  /\ userIdx' <= IndexBound
  /\ tpc' = "chosen"
  /\ UNCHANGED <<main, seen, raced>>

(* pCfg->users[userIdx] is a user. *)
Live == users \in DOMAIN heap /\ userIdx < heap[users]

Count ==
  /\ pc # "undefined" /\ tpc = "chosen"
  /\ tpc' = "asleep" /\ seen' = 0 /\ raced' = FALSE
  /\ IF Live THEN UNCHANGED main
     ELSE pc' = "undefined" /\ UNCHANGED <<typed, name, printed, conf>>
  /\ UNCHANGED userIdx

(* The program is started again. *)
Restart ==
  /\ pc = "undefined"
  /\ pc' = "prompt" /\ typed' = <<>> /\ name' = <<>>
  /\ users' = NULL /\ userCount' = 0 /\ heap' = NoBlock
  /\ ppNew' = NULL /\ newCount' = 0 /\ loading' = FALSE
  /\ tpc' = "asleep" /\ userIdx' = 0 /\ seen' = 0 /\ raced' = FALSE
  /\ UNCHANGED printed

Stats == Wake \/ Choose \/ Count

Next == ReadLine \/ Command \/ Change \/ Stats \/ Restart

(* Both threads run; the operator need not type anything.                  *)
Spec == Init /\ [][Next]_vars /\ WF_vars(Command \/ Change) /\ WF_vars(Stats)

-----------------------------------------------------------------------------
TypeOK ==
  /\ pc \in {"prompt", "command", "resized", "published", "loading", "undefined"}
  /\ users \in Addr \cup {NULL} /\ ppNew \in Addr \cup {NULL}
  /\ userCount \in 0 .. MaxUsers /\ newCount \in 0 .. MaxUsers
  /\ DOMAIN heap \subseteq Addr /\ \A a \in DOMAIN heap : heap[a] \in 1 .. MaxUsers
  /\ tpc \in {"asleep", "awake", "chosen"}
  /\ userIdx \in 0 .. IndexBound /\ seen \in 0 .. MaxUsers
  /\ Len(name) < NameLen /\ Len(printed) < NameLen
  /\ loading \in BOOLEAN /\ raced \in BOOLEAN

(* The tokenizer never reads behind a line that ends with a newline, and   *)
(* it gives the words the line means when its blocks are not empty, closed *)
(* and set apart.                                                          *)
WordsRight ==
  pc = "command" =>
    /\ Beyond \notin ToSet(Words)
    /\ WellFormed(typed) => AreWordsOf(Words, typed)

(* A printed configuration can be typed again: the line a string that is   *)
(* not empty was printed as is the command that sets it to what it was.    *)
Replays ==
  pc = "command" /\ typed = Printed /\ printed # <<>> =>
    /\ Len(Words) = 3 /\ set_str_valid(Words[3])
    /\ set_str(name, Words[3], NameLen) = printed

(* As long as the array does not change between waking up and counting,    *)
(* stats_thread counts for a user that exists, though its index is from    *)
(* before any number of commands.                                          *)
StatsSafe == tpc = "chosen" /\ ~raced => Live

(* When the operator stops typing, every user is counted for, again and    *)
(* again.                                                                  *)
EveryUserCounted ==
  \A i \in 0 .. MaxUsers - 1 :
    (<>[](pc = "prompt" /\ userCount > i)) => []<>(tpc = "chosen" /\ userIdx = i)
=============================================================================
