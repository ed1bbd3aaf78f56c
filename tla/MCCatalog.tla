----------------------------- MODULE MCCatalog ------------------------------
(***************************************************************************)
(* Two families of kernels, one with two builds of the second of the two   *)
(* upstream versions they share; a base and two boards, each with an image *)
(* of its own and both with a file of one name. Either the kernels move    *)
(* while the others stay, or a path moves between the base and a board,    *)
(* with and without a notice, while the kernels and the other board stay.  *)
(***************************************************************************)
EXTENDS Catalog, TLC

CONSTANTS k1, k2, base, board, other, path, dtb, module, dropped,
          a1, a2, a3, b1, b2, o0, o1, o2, o3, n0, n1, n2, p0

Kernels == {k1, k2}
Boards == {board, other}
Plains == {base} \cup Boards
Hashes == {a1, a2, a3, b1, b2, o0, o1, o2, o3, n0, n1, n2, p0}
HashesOf == k1 :> {a1, a2, a3} @@ k2 :> {b1, b2}
  @@ base :> {o0, o1, o2, o3} @@ board :> {n0, n1, n2} @@ other :> {p0}
Upstreams == a1 :> 1 @@ a2 :> 2 @@ a3 :> 2 @@ b1 :> 1 @@ b2 :> 2
Dependencies == base :> {} @@ board :> {base, k1} @@ other :> {base, k2}
Images == board :> {board, base, k1} @@ other :> {other, base, k2}

\* A kernel's second build of a version has no longer all the first one had.
KernelWith(paths) == [main |-> {}, image |-> paths, headers |-> {}]
PlainWith(paths) == [main |-> paths]

\* The board ships the path, or no longer; base does not, or takes it, or takes
\* it with a notice.
Shipped ==
  a1 :> KernelWith({}) @@ a2 :> KernelWith({module, dropped}) @@ a3 :> KernelWith({module})
  @@ b1 :> KernelWith({}) @@ b2 :> KernelWith({})
  @@ o0 :> PlainWith({}) @@ o1 :> PlainWith({}) @@ o2 :> PlainWith({path}) @@ o3 :> PlainWith({path})
  @@ n0 :> PlainWith({dtb}) @@ n1 :> PlainWith({dtb, path}) @@ n2 :> PlainWith({dtb})
  @@ p0 :> PlainWith({dtb})
Notices == [i \in Hashes |-> IF i = o3 THEN {Main(board)} ELSE {}]

Of(ks1, ks2, os, ns) ==
  {k1 :> x1 @@ k2 :> x2 @@ base :> x3 @@ board :> x4 @@ other :> p0 :
     x1 \in ks1, x2 \in ks2, x3 \in os, x4 \in ns}
KernelsMove == Of({a1, a2, a3}, {b1, b2}, {o0}, {n0})
PathMoves == Of({a1}, {b1}, {o1, o2, o3}, {n1, n2})

BothMove == {KernelsMove, PathMoves}
OnlyPathMoves == {PathMoves}
=============================================================================
