----------------------------- MODULE MCJsonStore ---------------------------
(* The JSON store with the schemas of StoredSchemas. *)
EXTENDS JsonStore, StoredSchemas

(* What the proofs about the store need of the schemas and of the          *)
(* configurations.                                                         *)
ASSUME ApartAssumption == Apart
ASSUME PackedAssumption == Packed
=============================================================================
