------------------------------ MODULE MCRegistry -----------------------------
(* Finite constants for Registry. *)
EXTENDS Registry

Stock == INSTANCE MCInventory

Inventories == Stock!Inventories
Bases == Stock!Bases
Reviewed == Stock!Reviewed
==============================================================================
