----------------------------- MODULE MCInstall ------------------------------
(***************************************************************************)
(* Every list of up to two ranges, apart or touching, over a few sectors   *)
(* between the table and the rootfs.                                       *)
(***************************************************************************)
EXTENDS Install

Range == {r \in [first : Sector, last : Sector] : r.first <= r.last}
SmallLists ==
  {list \in {<<>>} \cup {<<r>> : r \in Range} \cup {<<r, s>> : r, s \in Range} :
     Ascending(list)}
=============================================================================
