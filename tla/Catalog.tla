------------------------------ MODULE Catalog -------------------------------
(***************************************************************************)
(* The apt repository over the weeks: each publishing release plans every  *)
(* package group against the published index (release/plan.sh), builds     *)
(* what is new (kernel/build.sh, package/*.sh), stops at a path that moves *)
(* unannounced (release/guard.sh), makes an image of each board, and       *)
(* merges and expires the index (release/repo.sh, release/expire.py). One  *)
(* release at a time, each published whole: Publish is about the rest.     *)
(*                                                                         *)
(* A kernel's group is its image, its headers and a metapackage pinning    *)
(* the image; the metapackage carries the group's inputs. Its version has  *)
(* the kernel's as upstream. The image stands for the drivers built with   *)
(* it, too (modules/build.sh): named for the kernel release, at its        *)
(* version, pinned by the metapackage, in every image. Any other group is  *)
(* one package, upstream 0.                                                *)
(***************************************************************************)
EXTENDS Stanzas, FiniteSets

CONSTANTS
  Kernel,      \* kernel groups
  Plain,       \* board, firmware, base and keyring groups
  Board,       \* of them, the boards': each Provides and Conflicts tvb-board
  Inputs,      \* the hashes release/inputs.sh may give
  InputsOf,    \* InputsOf[g]: those of a group
  Upstream,    \* Upstream[i]: the kernel version i builds
  DependsOn,   \* DependsOn[g]: the groups whose package a plain one depends on
  MadeOf,      \* MadeOf[b]: the groups whose debs a board's image is made of
  Path,
  Ships,       \* Ships[i][kind]: the paths of each deb built from i
  Announces,   \* Announces[i]: the packages a plain one Replaces and Breaks
  Histories,   \* sets of trees: the sources move within one of them
  Keep,        \* TVB_APT_KEEP_DAYS
  LastDay,     \* bound: the last day of the model
  Forward,     \* a kernel's upstream never goes back
  Guarded      \* no release skips the guard (TVB_RELEASE_GUARD=0, `unguarded`)

Group == Kernel \cup Plain
Tree == {i \in [Group -> Inputs] : \A g \in Group : i[g] \in InputsOf[g]}

ASSUME GroupsApart == Kernel \cap Plain = {}
ASSUME BoundsAreDays == Keep \in Nat /\ LastDay \in Nat \ {0}
ASSUME InputsAreHashes == \A g \in Group : InputsOf[g] \subseteq Inputs
ASSUME KernelsAreVersioned ==
  \A g \in Kernel : \A i \in InputsOf[g] : Upstream[i] \in Nat \ {0}
ASSUME PlainDependOnGroups == \A g \in Plain : DependsOn[g] \subseteq Group
ASSUME BoardsArePlain == Board \subseteq Plain
ASSUME HistoriesAreOfTrees == Histories \subseteq SUBSET Tree

Main(g) == [kind |-> "main", of |-> g, rel |-> 0]
Image(g, up) == [kind |-> "image", of |-> g, rel |-> up]
Headers(g, up) == [kind |-> "headers", of |-> g, rel |-> up]

Package == [kind : {"main", "image", "headers"}, of : Group, rel : Nat]
Version == [up : Nat, rev : Nat]
Depends == [pkg : Package, pin : Version]
Stanza == [pkg : Package, ver : Version, deps : SUBSET Depends, inputs : Inputs,
           day : Nat]

VARIABLES
  day,        \* today, from 1
  index,      \* the published Packages: stanzas, each with its inputs
  contents,   \* the published Contents: who owns which path
  shipped,    \* the debs the last release's images were made of
  tree,       \* the inputs of the last plan
  stage,      \* "idle", or "expire" while a release merges its index
  debs,       \* build/out/debs: what it built or reused
  new,        \* the debs its build/out/repo holds
  merged,     \* both indexes, stamped
  kept,       \* of those, what it keeps so far
  past,       \* auxiliary: the name and inputs of every deb ever indexed
  newestTill  \* auxiliary: every version that was a package's newest, and the
              \* first day something newer was published, 0 for not yet

repo == <<index, contents, shipped, past, newestTill>>
out == <<debs, new, merged, kept>>
vars == <<day, index, contents, shipped, tree, stage, debs, new, merged, kept,
          past, newestTill>>

Init ==
  /\ day = 1
  /\ index = {}
  /\ contents = {}
  /\ shipped = {}
  /\ tree \in UNION Histories
  /\ stage = "idle"
  /\ debs = {}
  /\ new = {}
  /\ merged = {}
  /\ kept = {}
  /\ past = {}
  /\ newestTill = {}

-----------------------------------------------------------------------------
(* The plan of one group.                                                  *)

\* The published versions with these inputs; the newest of them is reused.
Had(g, i) == {s \in index : s.pkg = Main(g) /\ s.inputs = i}
Reused(g, i) == {s \in Had(g, i) : \A t \in Had(g, i) : ~ Older(s.ver, t.ver)}

\* What is fetched with it: a kernel's image and headers of that version.
Fetched(g, i) ==
  UNION {{t \in index : t.pkg.of = g /\ t.ver = s.ver} : s \in Reused(g, i)}

UpstreamOf(g, i) == IF g \in Kernel THEN Upstream[i] ELSE 0

\* Mutant: the next revision is one more than how many are published.
NextVersionCounting(g, i) ==
  [up |-> UpstreamOf(g, i),
   rev |-> 1 + Cardinality({t \in index : /\ t.pkg = Main(g)
                                         /\ t.ver.up = UpstreamOf(g, i)})]

\* The next revision of the upstream, counted from those still published.
NextVersion(g, i) ==
  LET revs == {0} \cup {s.ver.rev : s \in {t \in index : /\ t.pkg = Main(g)
                                                        /\ t.ver.up = UpstreamOf(g, i)}}
  IN  [up |-> UpstreamOf(g, i),
       rev |-> 1 + CHOOSE r \in revs : \A q \in revs : q <= r]

Deb(pkg, ver, deps, i) ==
  [pkg |-> pkg, ver |-> ver, deps |-> deps, inputs |-> i, day |-> Unstamped]

\* kernel/build.sh, or package/*.sh.
Built(g, i) ==
  LET v == NextVersion(g, i)
      any(h) == [pkg |-> Main(h), pin |-> AnyVersion]
      image == [pkg |-> Image(g, v.up), pin |-> v]
  IN  IF g \in Kernel
      THEN {Deb(Image(g, v.up), v, {}, i), Deb(Headers(g, v.up), v, {}, i),
            Deb(Main(g), v, {image}, i)}
      ELSE {Deb(Main(g), v, {any(h) : h \in DependsOn[g]}, i)}

-----------------------------------------------------------------------------
(* Who owns a path.                                                        *)

Paths(s) == Ships[s.inputs][s.pkg.kind]
Owned(some) == UNION {{<<path, s.pkg>> : path \in Paths(s)} : s \in some}

\* What a deb Replaces and Breaks; a kernel's nothing.
Announced(s) == IF s.pkg.of \in Plain THEN Announces[s.inputs] ELSE {}

\* Two boards' packages Conflict: they never share a box.
Apart(p, q) == p # q /\ {p.of, q.of} \subseteq Board

\* Mutant: Replaces and Breaks are not asked for.
MovesUnannounced(built) == built # {}

\* guard.sh: each new deb announces the published owners of its paths, but for
\* those it Conflicts with.
MovesAnnounced(built) ==
  \A s \in built, c \in contents :
    /\ c[1] \in Paths(s)
    /\ c[2] # s.pkg
    /\ ~ Apart(s.pkg, c[2])
    => c[2] \in Announced(s)

\* dpkg unpacks one deb over another's path only if one of them Replaces the other.
Clash(s, t) ==
  /\ s.pkg # t.pkg
  /\ Paths(s) \cap Paths(t) # {}
  /\ t.pkg \notin Announced(s)
  /\ s.pkg \notin Announced(t)

\* image/build.sh installs a board's debs; nobody's headers.
Installs(some) ==
  \A b \in Board :
    \A s, t \in {d \in some : d.pkg.of \in MadeOf[b] /\ d.pkg.kind # "headers"} :
      ~ Clash(s, t)

\* Mutant: a rebuilt package keeps the paths it had.
ContentsGrown(indexed) ==
  {c \in contents : \E s \in indexed : s.pkg = c[2]} \cup Owned(new)

\* The published owners still indexed and not among the new debs, and the new debs'.
Contents(indexed) ==
  {c \in contents : /\ \E s \in indexed : s.pkg = c[2]
                    /\ \A s \in new : s.pkg # c[2]}
    \cup Owned(new)

-----------------------------------------------------------------------------
(* A release.                                                              *)

\* repo.sh: a new kernel's debs are found by their version, and so are copied
\* with any fetched for another kernel at the same one.
CopiedIn(built, reused) ==
  {[s EXCEPT !.day = Unstamped] :
     s \in {t \in reused : t.pkg.of \in Kernel /\ \E d \in built : d.ver = t.ver}}

Newest(some) == {s \in some : ~ Released(s) /\ Newer(some, s) = {}}

\* A version stops being the newest on the day one is published that is newer.
NewestTill(indexed) ==
  LET known == {[pkg |-> s.pkg, ver |-> s.ver, till |-> 0] : s \in Newest(indexed)}
      aged == {IF n.till = 0 /\ Newer(indexed, n) # {}
               THEN [n EXCEPT !.till = day] ELSE n : n \in newestTill}
  IN  aged \cup {k \in known : \A n \in newestTill : ~ Same(n, k)}

\* The tree moves as its sources do.
Moves(wanted) ==
  /\ \E history \in Histories : {tree, wanted} \subseteq history
  /\ Forward => \A g \in Kernel : Upstream[tree[g]] <= Upstream[wanted[g]]
  /\ tree' = wanted

\* Plan, build, guard, images; then the merge of both indexes, and what of it is
\* kept at once.
Assemble(wanted) ==
  LET reused == UNION {Fetched(g, wanted[g]) : g \in Group}
      built == UNION {Built(g, wanted[g]) : g \in {h \in Group : Had(h, wanted[h]) = {}}}
  IN  /\ stage = "idle"
      /\ built # {}
      /\ Moves(wanted)
      /\ Guarded => MovesAnnounced(built)
      /\ Installs(reused \cup built)
      /\ debs' = reused \cup built
      /\ new' = built \cup CopiedIn(built, reused)
      /\ merged' = Stamp(Merge(index, new'), day)
      /\ kept' = Roots(merged', day - Keep, debs')
      /\ stage' = "expire"
      /\ UNCHANGED <<day, repo>>

Grow ==
  /\ stage = "expire"
  /\ ~ Wanted(merged, kept) \subseteq kept
  /\ kept' = kept \cup Wanted(merged, kept)
  /\ UNCHANGED <<day, repo, tree, stage, debs, new, merged>>

\* The loop added nothing: the index is written and published, and the images.
Publish ==
  /\ stage = "expire"
  /\ Wanted(merged, kept) \subseteq kept
  /\ index' = kept
  /\ contents' = Contents(kept)
  /\ shipped' = debs
  /\ past' = past \cup {[pkg |-> s.pkg, ver |-> s.ver, inputs |-> s.inputs] : s \in kept}
  /\ newestTill' = NewestTill(kept)
  /\ stage' = "idle"
  /\ debs' = {} /\ new' = {} /\ merged' = {} /\ kept' = {}
  /\ UNCHANGED <<day, tree>>

\* Nothing new: the repository stays as it is; the images go out.
Reissue(wanted) ==
  /\ stage = "idle"
  /\ \A g \in Group : Had(g, wanted[g]) # {}
  /\ Moves(wanted)
  /\ LET reused == UNION {Fetched(g, wanted[g]) : g \in Group}
     IN  Installs(reused) /\ shipped' = reused
  /\ UNCHANGED <<day, index, contents, past, newestTill, stage, out>>

Pass ==
  /\ stage = "idle"
  /\ day < LastDay
  /\ day' = day + 1
  /\ UNCHANGED <<repo, tree, stage, out>>

Next ==
  \/ Pass \/ Grow \/ Publish
  \/ \E wanted \in UNION Histories : Assemble(wanted) \/ Reissue(wanted)

Spec == Init /\ [][Next]_vars

-----------------------------------------------------------------------------
\* Every Depends of an indexed deb finds a deb in the index, as verify.py checks
\* of a published repository.
DependsResolve ==
  \A s \in index : \A dep \in s.deps : Satisfying(index, dep) # {}

\* Going back to what was a package's newest stays possible for the window after
\* something newer was published: a kernel with its image and its headers.
GoBack ==
  \A n \in newestTill : n.till = 0 \/ day <= n.till + Keep =>
    /\ \E s \in index : Same(s, n)
    /\ n.pkg.of \in Kernel =>
         \A pkg \in {Image(n.pkg.of, n.ver.up), Headers(n.pkg.of, n.ver.up)} :
           \E s \in index : s.pkg = pkg /\ s.ver = n.ver

\* After a release, nothing replaced before the window is left but what the
\* images are made of: the assets of the apt release stay few.
OldOnesGo ==
  [][index' # index =>
       \A n \in newestTill' : n.till # 0 /\ n.till < day - Keep =>
         \A s \in index' : Same(s, n) => \E d \in shipped' : Same(d, s)]_vars

\* No kernel or headers outlive the metapackage they were published with: no
\* window is theirs, and an image made of them is made of it.
NoOrphans ==
  \A s \in index : Released(s) =>
    \E t \in index : t.pkg = Main(s.pkg.of) /\ t.ver = s.ver

\* A deb's publication day never moves, or its replacement's window would.
StampsStay ==
  [][\A s \in index, t \in index' : Same(s, t) => s.day = t.day]_vars

\* A name once indexed never stands for a build of other inputs: a box that has
\* it installed would never fetch the new one.
NamesKeepInputs == \A a, b \in past : Same(a, b) => a.inputs = b.inputs

Listed(pkg) == {c \in contents : c[2] = pkg}

\* What the guard takes for the owners of paths: a plain package's are its newest
\* deb's, whatever was merged, copied in again or expired since that was published;
\* any other's are those of one deb of it, whole, if an older one copied in again
\* for another kernel; and nobody has any who is not indexed.
ContentsOfNewest ==
  /\ \A s \in Newest(index) : s.pkg.of \in Plain => Listed(s.pkg) = Owned({s})
  /\ \A s \in index : \E t \in past : t.pkg = s.pkg /\ Listed(s.pkg) = Owned({t})
  /\ \A c \in contents : \E s \in index : s.pkg = c[2]

\* A box that takes every release is never stopped at an overwrite: what it
\* unpacks, a kernel too, announced the plain package whose path it takes, unless
\* they are two boards'. Whichever of the two goes first.
UpgradesUnpack ==
  [][\A s \in Newest(index), t \in index' \ index :
       /\ s.pkg.of \in Plain
       /\ s.pkg # t.pkg /\ ~ Apart(s.pkg, t.pkg)
       /\ Paths(s) \cap Paths(t) # {}
       => s.pkg \in Announced(t)]_vars

\* Nor is one that skipped releases, or went back (guard.sh:2, "Fail the release
\* when a path changes package unannounced").
MovesAlwaysAnnounced == \A s, t \in index : Clash(s, t) => Apart(s.pkg, t.pkg)
=============================================================================
