----------------------------- MODULE MCPublish ------------------------------
(***************************************************************************)
(* Small instances of Publish. Two workflow runs and one of a Mac's, over  *)
(* one or two packages, one version published when they begin. Every deb   *)
(* has the same size, so that verify.py tells no two builds apart.         *)
(***************************************************************************)
EXTENDS Publish

CONSTANTS c1, c2, m1, before, base_pkg, board_pkg

OnePackage == {base_pkg}
TwoPackages == {base_pkg, board_pkg}
FirstOf(packages) == {[pkg |-> p, ver |-> 1, build |-> before] : p \in packages}

SeedOne == FirstOf(OnePackage)
OneSize == [b \in Build |-> 1]
=============================================================================
