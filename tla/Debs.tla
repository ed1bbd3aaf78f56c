-------------------------------- MODULE Debs --------------------------------
(***************************************************************************)
(* The vocabulary of the apt repository: a deb is a file named by package  *)
(* and version, whose bytes are told apart by the run that built them.     *)
(* A set of debs stands both for the assets of the `apt` release and for   *)
(* an index file, the list of debs `Packages` names with their hashes.     *)
(***************************************************************************)
EXTENDS Naturals

CONSTANTS
  Package,   \* the package groups a plan decides about
  Build,     \* who built a deb: two builds of one name differ in bytes
  Seed       \* the debs indexed and hosted when the first run begins

\* Revisions count from 1.
Deb == [pkg: Package, ver: Nat \ {0}, build: Build]

\* One file name, <package>_<version>_<arch>.deb, whatever its bytes.
SameName(d, e) == d.pkg = e.pkg /\ d.ver = e.ver

\* A release holds one asset of a name, an index one stanza of a version.
UniqueNames(debs) == \A d, e \in debs : SameName(d, e) => d = e

Of(debs, p) == {d \in debs : d.pkg = p}

ASSUME SeedSound == Seed \subseteq Deb /\ UniqueNames(Seed)

\* The assets `prune` deletes: those whose name the index leaves out.
Unnamed(assets, index) ==
  {d \in assets : \A e \in index : ~ SameName(d, e)}

\* Every deb is still there, or one of the package at least as new is.
NewestKept(old, new) ==
  \A d \in old : \E e \in new : e.pkg = d.pkg /\ e.ver >= d.ver
=============================================================================
