------------------------------ MODULE MCExpire ------------------------------
(***************************************************************************)
(* Two kernels of one family with headers, a metapackage pinning them, and *)
(* a board package of three versions, depending on the metapackage; any of  *)
(* them missing, each published on one of two days.                        *)
(***************************************************************************)
EXTENDS Expire

CONSTANTS image, headers, meta, board, fam

Pkg(kind, rel) == [kind |-> kind, of |-> fam, rel |-> rel]
Ver(up, rev) == [up |-> up, rev |-> rev]
Pin(kind, up) == [pkg |-> Pkg(kind, up), pin |-> Ver(up, 1)]

Kernel(u, day) ==
  {[pkg |-> Pkg(kind, u), ver |-> Ver(u, 1), deps |-> {}, day |-> day]
     : kind \in {image, headers}}
Meta(u, day) ==
  [pkg |-> Pkg(meta, 0), ver |-> Ver(u, 1), deps |-> {Pin(image, u)}, day |-> day]

\* A kernel of one day: whole, without its metapackage, or not there.
Kernels(u) ==
  {{}} \cup {Kernel(u, day) : day \in {1, 3}}
       \cup {Kernel(u, day) \cup {Meta(u, day)} : day \in {1, 3}}

\* The board package depends on the metapackage loosely, on a version that is
\* nowhere, or on the older one.
Needs(rev) ==
  [pkg |-> Pkg(meta, 0),
   pin |-> CASE rev = 1 -> AnyVersion [] rev = 2 -> Ver(0, 1) [] rev = 3 -> Ver(1, 1)]
Board(rev, day) ==
  [pkg |-> Pkg(board, 0), ver |-> Ver(0, rev), deps |-> {Needs(rev)}, day |-> day]
Boards(rev) == {{}} \cup {{Board(rev, day)} : day \in {1, 3}}

SmallIndexes ==
  {k1 \cup k2 \cup b1 \cup b2 \cup b3 :
     k1 \in Kernels(1), k2 \in Kernels(2),
     b1 \in Boards(1), b2 \in Boards(2), b3 \in Boards(3)}

\* Nothing, a kernel or a board package.
OneShipped == {{}, Kernel(1, 1), {Board(1, 1)}, {Board(2, 3)}}
=============================================================================
