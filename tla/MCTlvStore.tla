----------------------------- MODULE MCTlvStore ---------------------------
(* The TLV store with the schemas of StoredSchemas. *)
EXTENDS TlvStore, StoredSchemas

(* A name is longer than the other values. *)
Lengths == [n \in SimpleNames |-> IF n = "name" THEN 2 ELSE 1]

(* What the store needs of the schemas and of the configurations.  In the  *)
(* array of ShiftSchema there may be a home behind one with no address.    *)
ASSUME LayoutAssumption == Lasting /\ Filled /\ Keeping
ASSUME PackedAssumption == Packed <=> Schema # ShiftSchema
=============================================================================
