----------------------------- MODULE MCDeployment ----------------------------
(* Finite constants for Deployment: the inventory, and a draft. *)
EXTENDS Deployment, TLC

CONSTANTS v1, c1

Stock == INSTANCE MCInventory

Inventories == Stock!Inventories
Bases == Stock!Bases
Reviewed == Stock!Reviewed
OneDraft == v1 :> c1
==============================================================================
