------------------------------ MODULE AptRepo -------------------------------
(***************************************************************************)
(* What a box on the apt repository relies on, whoever publishes to it and *)
(* whatever breaks: the debs an index names are there, a name once indexed *)
(* never comes back with other bytes, and no package's newest version is   *)
(* taken away, so every box can reach the newest.                          *)
(***************************************************************************)
EXTENDS Debs

VARIABLES
  index,   \* the debs the last index names
  pool,    \* the debs hosted
  past     \* every deb an index ever named

vars == <<index, pool, past>>

Init == index = Seed /\ pool = Seed /\ past = Seed

\* A deb arrives under a free name, not yet indexed.
Store ==
  \E d \in pool' :
    /\ d \in Deb
    /\ \A e \in pool : ~ SameName(d, e)
    /\ pool' = pool \cup {d}
    /\ UNCHANGED <<index, past>>

\* A deb no index names goes.
Drop ==
  \E d \in pool \ index :
    /\ pool' = pool \ {d}
    /\ UNCHANGED <<index, past>>

\* The index moves on, over hosted debs only: what it adds is newer than
\* anything the package ever had, and what it drops has something newer.
Switch ==
  /\ index' \subseteq pool
  /\ NewestKept(index, index')
  /\ \A d \in index' \ index, e \in past : e.pkg = d.pkg => e.ver < d.ver
  /\ past' = past \cup index'
  /\ UNCHANGED pool

Next == Store \/ Drop \/ Switch

Spec == Init /\ [][Next]_vars

-----------------------------------------------------------------------------
TypeOK == index \subseteq Deb /\ pool \subseteq Deb /\ past \subseteq Deb

\* Every deb the index names can be downloaded, with the bytes it names.
Installable == index \subseteq pool

\* A deb once indexed keeps its bytes for as long as its name is indexed again.
NamesKeepBytes == UniqueNames(past)

\* No box runs a version of a package newer than the newest one indexed.
NoBoxAhead == NewestKept(past, index)
=============================================================================
