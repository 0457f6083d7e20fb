--------------------------- MODULE MCIdAssignment ---------------------------
(***************************************************************************)
(* A device with a user that has a name and a location, which has a name.  *)
(***************************************************************************)
EXTENDS IdAssignment, FiniteSets, TLC

MCItem == {"device", "user", "user.name", "user.loc", "user.loc.name"}

MCParent ==
  "user" :> "device" @@ "user.name" :> "user" @@ "user.loc" :> "user"
    @@ "user.loc.name" :> "user.loc"

MCAbove ==
  [x \in MCItem |->
     CASE x = "device" -> {}
       [] x = "user" -> {"device"}
       [] x = "user.loc.name" -> {"device", "user", "user.loc"}
       [] OTHER -> {"device", "user"}]

MCLevel == [x \in MCItem |-> Cardinality(MCAbove[x])]
=============================================================================
