----------------------------- MODULE StoredSchemas ----------------------------
(***************************************************************************)
(* The schema of the example application: a device with an address, ports, *)
(* users and a home, the arrays shorter.  A user's temperatures are owned, *)
(* as in the schema of the code generator's example.  The device has one   *)
(* component more, diag, with nothing persistent in it.  Then the schema   *)
(* of newer software, one that puts an array in the middle, and one of two *)
(* homes.                                                                  *)
(***************************************************************************)
EXTENDS StoredTree

LOCAL One(name, desc)      == Component(name, desc, 1, FALSE)
LOCAL Optional(name, desc) == Component(name, desc, 1, TRUE)

IpAddress   == One("ipaddr", Simple)
Port        == Component("port", Simple, 2, FALSE)
UserCnt     == One("usercnt", Simple)

UserName    == One("name", Simple)
UserId      == One("id", Simple)
TempCnt     == One("tempcnt", Simple)
Temp        == Component("temp", Simple, 2, TRUE)
Elapsed     == One("elapsed", Simple)
UserFields  == <<UserName, UserId, TempCnt, Temp, Elapsed>>
User        == Component("user", "User", 2, TRUE)

Addr        == Optional("addr", Simple)
LocName     == One("name", Simple)
LocFields   == <<LocName>>
Location    == Optional("loc", "Loc")
HomeFields  == <<Addr, Location>>
Home        == One("home", "Home")

Diag        == One("diag", "Diag")
DiagFields  == <<One("stat", Simple)>>

DeviceFields == <<IpAddress, Port, UserCnt, User, Diag, Home>>

OldSchema ==
  [Root |-> DeviceFields, User |-> UserFields, Home |-> HomeFields,
   Loc |-> LocFields, Diag |-> DiagFields]

(* ipaddr is gone, extra is new in front, note is new at the end. *)
LaterSchema ==
  [OldSchema EXCEPT !.Root = <<One("extra", Simple)>> \o Tail(@),
                    !.User = Append(@, One("note", Simple))]

(* The user's temperatures come before a simple component. *)
MiddleSchema ==
  [OldSchema EXCEPT !.Root = <<IpAddress, User>>,
                    !.User = <<UserName, TempCnt, Temp, UserId>>]

(* An array of composites that may have nothing in them. *)
ShiftSchema ==
  [Root |-> <<IpAddress, Component("home", "Home", 2, FALSE)>>, Home |-> <<Addr>>]

(* The components that are not persistent. *)
NotPersistent == {"usercnt", "tempcnt", "elapsed", "stat"}

-----------------------------------------------------------------------------
(* The configurations of a schema: contained components are there for      *)
(* every item, owned ones in the number given for their name.              *)
Items(fields, path, number) ==
  UNION {{Below(path, c, k) :
            k \in 0 .. (IF c.owned THEN number[c.name] ELSE c.max) - 1} : c \in ToSet(fields)}

Config(schema, users, temps, addrs, locs) ==
  LET home    == <<<<"home", 0>>>>
      loc     == Append(home, <<"loc", 0>>)
      user(k) == <<<<"user", k>>>>
      has(name) == \E c \in ToSet(schema.Root) : c.name = name
  IN  {<<>>} \cup Items(schema.Root, <<>>, [user |-> users])
        \cup UNION {Items(schema.User, user(k), [temp |-> temps[k]]) : k \in 0 .. users - 1}
        \cup (IF has("home") THEN Items(schema.Home, home, [addr |-> addrs, loc |-> locs])
              ELSE {})
        \cup (IF has("home") /\ locs = 1 THEN Items(schema.Loc, loc, <<>>) ELSE {})
        \cup (IF has("diag") THEN Items(schema.Diag, <<<<"diag", 0>>>>, <<>>) ELSE {})

Temps(n) == [0 .. n - 1 -> 0 .. 2]

(* Every home with up to one user, and two users with one kind of home.    *)
OldConfigs ==
  UNION {{Config(OldSchema, n, temps, addrs, locs) :
            temps \in Temps(n), addrs \in 0 .. 1, locs \in 0 .. 1} : n \in 0 .. 1}
  \cup {Config(OldSchema, 2, temps, 0, 1) : temps \in [0 .. 1 -> {0, 2}]}

(* The least and the most that is saved over another configuration. *)
Again == {Config(OldSchema, 0, <<>>, 0, 0), Config(OldSchema, 2, [k \in 0 .. 1 |-> 2], 0, 1)}

MiddleConfigs ==
  UNION {{Config(MiddleSchema, n, temps, 0, 0) : temps \in Temps(n)} : n \in 0 .. 2}

(* Two homes, of which any may have an address. *)
ShiftConfigs ==
  {{<<>>} \cup Items(ShiftSchema.Root, <<>>, <<>>)
     \cup UNION {Items(ShiftSchema.Home, <<<<"home", k>>>>, [addr |-> addrs[k]]) : k \in 0 .. 1} :
     addrs \in [0 .. 1 -> 0 .. 1]}
=============================================================================
