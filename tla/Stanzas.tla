------------------------------ MODULE Stanzas -------------------------------
(***************************************************************************)
(* release/expire.py: the stanzas of a Packages file, and which of them an *)
(* expiry keeps. A package is a record; `rel` is the kernel release it is  *)
(* named for, 0 for none. A version is an upstream and a revision, in dpkg *)
(* order. A Depends entry asks for a package, at a version or at any.      *)
(***************************************************************************)
EXTENDS Integers

AnyVersion == [up |-> 0, rev |-> 0]
Unstamped == 0

Older(v, w) == v.up < w.up \/ (v.up = w.up /\ v.rev < w.rev)

\* A deb's file name: the package and the version.
Same(s, t) == s.pkg = t.pkg /\ s.ver = t.ver

Released(s) == s.pkg.rel # 0
Beside(s, t) ==
  Released(s) /\ s.pkg.of = t.pkg.of /\ s.pkg.rel = t.pkg.rel /\ s.ver = t.ver

\* Mutant: a deb in both indexes counts as new.
MergeNewFirst(published, new) ==
  new \cup {s \in published : \A t \in new : ~ Same(s, t)}

\* A deb in both indexes is the published one.
Merge(published, new) ==
  published \cup {s \in new : \A t \in published : ~ Same(s, t)}

Stamp(index, today) ==
  {IF s.day = Unstamped THEN [s EXCEPT !.day = today] ELSE s : s \in index}

Newer(index, s) == {t \in index : t.pkg = s.pkg /\ Older(s.ver, t.ver)}

\* The version that replaced s, of those the index has.
Replacing(index, s) ==
  {t \in Newer(index, s) : \A u \in Newer(index, s) : ~ Older(u.ver, t.ver)}

\* Mutant: kept while anything newer was published inside the window.
RootsByAnyNewer(index, cutoff, shipped) ==
  {s \in index :
     \/ \E d \in shipped : Same(d, s)
     \/ ~ Released(s) /\ (Newer(index, s) = {} \/ \E t \in Newer(index, s) : t.day >= cutoff)}

\* Mutant: a package named for a kernel release has a newest version too.
RootsOfEveryPackage(index, cutoff, shipped) ==
  {s \in index :
     \/ \E d \in shipped : Same(d, s)
     \/ Newer(index, s) = {}
     \/ \E t \in Replacing(index, s) : t.day >= cutoff}

\* What stays by itself: what this run built or reused, each package's newest
\* version, and what was replaced inside the window.
Roots(index, cutoff, shipped) ==
  {s \in index :
     \/ \E d \in shipped : Same(d, s)
     \/ /\ ~ Released(s)
        /\ \/ Newer(index, s) = {}
           \/ \E t \in Replacing(index, s) : t.day >= cutoff}

Allows(dep, s) == s.pkg = dep.pkg /\ dep.pin \in {s.ver, AnyVersion}

\* The newest stanza a Depends entry allows, if any.
Satisfying(index, dep) ==
  {s \in index : Allows(dep, s) /\ \A t \in Newer(index, s) : ~ Allows(dep, t)}

\* Mutant: nothing is kept for standing beside a kernel.
WantedByDepends(index, kept) ==
  UNION {Satisfying(index, dep) : dep \in UNION {s.deps : s \in kept}}

\* Mutant: nothing is kept for a Depends.
WantedBeside(index, kept) == {s \in index : \E t \in kept : Beside(s, t)}

\* What a set of kept stanzas keeps: what their Depends need, and what stands
\* beside a kernel.
Wanted(index, kept) ==
  (UNION {Satisfying(index, dep) : dep \in UNION {s.deps : s \in kept}})
    \cup {s \in index : \E t \in kept : Beside(s, t)}

\* Nothing that stays wants any of these.
Droppable(index, roots, gone) ==
  gone \cap (roots \cup Wanted(index, index \ gone)) = {}

\* The least set of stanzas with the roots that keeps all it wants.
Kept(index, roots) ==
  index \ UNION {gone \in SUBSET (index \ roots) : Droppable(index, roots, gone)}
=============================================================================
