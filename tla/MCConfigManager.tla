-------------------------- MODULE MCConfigManager --------------------------
(***************************************************************************)
(* A configuration with two ports and an array of users.  A user has a     *)
(* name and contains a place, which may have a temperature.                *)
(***************************************************************************)
EXTENDS ConfigManager, TLC

MCComponents == [cfg |-> {"port", "user"}, User |-> {"name", "loc"}, Loc |-> {"temp"}]
MCComponent ==
  [port |-> "Port", user |-> "User", name |-> "Name", loc |-> "Loc", temp |-> "Temp"]
MCMaxCount == [port |-> 2, user |-> 2, name |-> 1, loc |-> 1, temp |-> 1]

MCLayout ==
  [d \in Desc |->
     CASE d = "cfg"  -> (<<>> :> d) @@ (<< <<"port", 0>> >> :> "Port") @@ (<< <<"port", 1>> >> :> "Port")
       [] d = "User" -> (<<>> :> d) @@ (<< <<"name", 0>> >> :> "Name") @@ (<< <<"loc", 0>> >> :> "Loc")
       [] OTHER      -> <<>> :> d]

(* Addresses are only compared. *)
Symmetry == Permutations(Addr)
=============================================================================
