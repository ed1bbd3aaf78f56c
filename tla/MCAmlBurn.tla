----------------------------- MODULE MCAmlBurn ------------------------------
(***************************************************************************)
(* Boxes with the eMMC on the default port or another, and none, a smaller, *)
(* a like or a larger disk on the other.                                   *)
(***************************************************************************)
EXTENDS AmlBurn

Boxes ==
  {[emmc |-> e, sectors |-> [d \in Port |-> IF d = e THEN 3 ELSE card]] :
     e \in Port, card \in {0, 2, 3, 4}}
=============================================================================
