------------------------------- MODULE Recovery -------------------------------
(***************************************************************************)
(* What a store promises: save, load and a device that may stop at any     *)
(* moment.  Non-volatile memory holds one configuration, wholly or in      *)
(* part; the software that loads it may be newer than the one that saved   *)
(* it.  A load ends, with what a load of that configuration owes, with the *)
(* defaults when only a part was saved, or for lack of memory.             *)
(***************************************************************************)
CONSTANTS
  Nothing,   \* no configuration was ever saved
  Defaults,  \* what is in memory before anything is loaded
  Owed       \* for each configuration, and for newer software or not,
             \* what is in memory after it was loaded

VARIABLES
  saved,     \* the configuration that was saved last
  whole,     \* it was saved to the end
  device,    \* what the device is doing
  upgraded,  \* its software is the newer one
  loaded     \* what the last load brought into memory

vars == <<saved, whole, device, upgraded, loaded>>

Idle == {"started", "saved", "loaded", "failed", "starved"}

Init ==
  /\ saved = Nothing
  /\ ~whole
  /\ device = "started"
  /\ ~upgraded
  /\ loaded = Defaults

(* The operator saves a configuration over the one that is there. *)
Save ==
  /\ device \in Idle /\ device' = "save"
  /\ saved' \in DOMAIN Owed
  /\ whole' = FALSE
  /\ loaded' = Defaults
  /\ UNCHANGED upgraded

EndSave ==
  /\ device = "save" /\ device' = "saved"
  /\ whole' = TRUE
  /\ UNCHANGED <<saved, upgraded, loaded>>

(* The device stops, and starts again, perhaps with newer software. *)
Restart ==
  /\ device' = "started"
  /\ upgraded => upgraded'
  /\ loaded' = Defaults
  /\ UNCHANGED <<saved, whole>>

(* Nothing is promised of a load before there was any save. *)
Load ==
  /\ device \in Idle
  /\ device' = IF saved = Nothing THEN "undefined" ELSE "load"
  /\ loaded' = Defaults
  /\ UNCHANGED <<saved, whole, upgraded>>

EndLoad ==
  /\ device = "load"
  /\ \/ device' = "loaded" /\ loaded' = Owed[saved][upgraded]
     \/ device' \in {"loaded", "failed"} /\ loaded' = Defaults /\ ~whole
     \/ device' = "starved" /\ loaded' = Defaults
  /\ UNCHANGED <<saved, whole, upgraded>>

Next == Save \/ EndSave \/ Restart \/ Load \/ EndLoad

Spec == Init /\ [][Next]_vars

(* A save or a load that was begun ends; nobody has to begin one. *)
CommandsEnd == device \in {"save", "load"} ~> device \notin {"save", "load"}
=============================================================================
