--------------------------- MODULE CatalogProofs ----------------------------
(***************************************************************************)
(* For any groups, inputs, window and number of days: every Depends of the *)
(* published index resolves in it, no kernel outlives its metapackage and  *)
(* a publication day never moves; what is replaced stays for the window,   *)
(* and no longer; names keep their inputs; Contents has the lines of whole *)
(* debs, a plain package's newest, and no upgrade stops at an overwrite    *)
(* while no release skips the guard.                                       *)
(***************************************************************************)
EXTENDS Catalog, WellFoundedInduction, TLAPS

-----------------------------------------------------------------------------
(* A set of numbers below a bound has a greatest.                          *)

Below == {ss \in Nat \X Nat : ss[1] < ss[2]}

LEMMA Least ==
  ASSUME NEW T, T \subseteq Nat, T # {}
  PROVE  \E x \in T : \A y \in T : x <= y
<1>1. IsWellFoundedOn(Below, Nat)
  BY NatLessThanWellFounded DEF OpToRel, Below
<1>2. PICK x \in T : \A y \in T : <<y, x>> \notin Below
  BY <1>1, WFMin
<1>3. ASSUME NEW y \in T PROVE x <= y
  <2>1. x \in Nat /\ y \in Nat
    OBVIOUS
  <2>2. ~ (y < x)
    BY <1>2, <2>1 DEF Below
  <2> QED BY <2>1, <2>2
<1> QED BY <1>3

LEMMA Greatest ==
  ASSUME NEW T, T \subseteq Nat, T # {}, NEW n \in Nat, \A t \in T : t <= n
  PROVE  \E x \in T : \A y \in T : y <= x
<1> DEFINE U == {u \in Nat : n - u \in T}
<1>1. U # {}
  <2>1. PICK t \in T : TRUE
    OBVIOUS
  <2>2. n - t \in Nat /\ n - (n - t) = t
    BY <2>1
  <2> QED BY <2>1, <2>2
<1>2. PICK u \in U : \A y \in U : u <= y
  <2>1. U \subseteq Nat
    OBVIOUS
  <2> HIDE DEF U
  <2> QED BY <1>1, <2>1, Least
<1>3. ASSUME NEW y \in T PROVE y <= n - u
  <2>1. y \in Nat /\ n - y \in Nat /\ n - (n - y) = y
    OBVIOUS
  <2>2. u <= n - y
    BY <1>2, <2>1
  <2> QED BY <1>2, <2>1, <2>2
<1> QED BY <1>2, <1>3

-----------------------------------------------------------------------------
(* Versions in order: a first and a last of any stanzas.                   *)

LEMMA OlderIsAnOrder ==
  ASSUME NEW u \in Version, NEW v \in Version, NEW w \in Version
  PROVE  /\ ~ Older(u, u)
         /\ Older(u, v) => ~ Older(v, u)
         /\ Older(u, v) /\ Older(v, w) => Older(u, w)
         /\ ~ Older(u, v) /\ Older(u, w) => Older(v, w)
         /\ ~ Older(u, v) /\ ~ Older(v, u) => u.up = v.up /\ u.rev = v.rev
BY DEF Older, Version

LEMMA SameVersion ==
  ASSUME NEW u \in Version, NEW v \in Version, u.up = v.up, u.rev = v.rev
  PROVE  u = v
BY DEF Version

LEMMA FirstOf ==
  ASSUME NEW T, T \subseteq Stanza, T # {}
  PROVE  \E w \in T : \A x \in T : ~ Older(x.ver, w.ver)
<1>1. \A x \in T : x.ver.up \in Nat /\ x.ver.rev \in Nat
  BY DEF Stanza, Version
<1> DEFINE Ups == {x.ver.up : x \in T}
<1>2. PICK u \in Ups : \A y \in Ups : u <= y
  <2>1. Ups \subseteq Nat /\ Ups # {}
    BY <1>1
  <2> HIDE DEF Ups
  <2> QED BY <2>1, Least
<1> DEFINE Revs == {x.ver.rev : x \in {y \in T : y.ver.up = u}}
<1>3. PICK r \in Revs : \A y \in Revs : r <= y
  <2>1. Revs \subseteq Nat /\ Revs # {}
    BY <1>1, <1>2
  <2> HIDE DEF Revs
  <2> QED BY <2>1, Least
<1>4. PICK w \in T : w.ver.up = u /\ w.ver.rev = r
  BY <1>3
<1>5. ASSUME NEW x \in T PROVE ~ Older(x.ver, w.ver)
  <2>1. u <= x.ver.up /\ (x.ver.up = u => r <= x.ver.rev)
    BY <1>2, <1>3
  <2> QED BY <1>1, <1>4, <2>1 DEF Older
<1> QED BY <1>5

LEMMA LastOf ==
  ASSUME NEW T, T \subseteq Stanza, T # {}, NEW m \in Nat, NEW n \in Nat,
         \A t \in T : t.ver.up <= m /\ t.ver.rev <= n
  PROVE  \E w \in T : \A x \in T : ~ Older(w.ver, x.ver)
<1>1. \A x \in T : x.ver.up \in Nat /\ x.ver.rev \in Nat
  BY DEF Stanza, Version
<1> DEFINE Ups == {x.ver.up : x \in T}
<1>2. PICK u \in Ups : \A y \in Ups : y <= u
  <2>1. Ups \subseteq Nat /\ Ups # {} /\ \A y \in Ups : y <= m
    BY <1>1
  <2> HIDE DEF Ups
  <2> QED BY <2>1, Greatest
<1> DEFINE Revs == {x.ver.rev : x \in {y \in T : y.ver.up = u}}
<1>3. PICK r \in Revs : \A y \in Revs : y <= r
  <2>1. Revs \subseteq Nat /\ Revs # {} /\ \A y \in Revs : y <= n
    BY <1>1, <1>2
  <2> HIDE DEF Revs
  <2> QED BY <2>1, Greatest
<1>4. PICK w \in T : w.ver.up = u /\ w.ver.rev = r
  BY <1>3
<1>5. ASSUME NEW x \in T PROVE ~ Older(w.ver, x.ver)
  <2>1. x.ver.up <= u /\ (x.ver.up = u => x.ver.rev <= r)
    BY <1>2, <1>3
  <2> QED BY <1>1, <1>4, <2>1 DEF Older
<1> QED BY <1>5

-----------------------------------------------------------------------------
(* What the stanzas of an index look like.                                 *)

PinnedImage(s) == [pkg |-> Image(s.pkg.of, s.ver.up), pin |-> s.ver]

\* A stanza is a metapackage, or a kernel's; what it depends on is any version
\* of another group's package, or its own kernel's image.
Shape(s) ==
  /\ s.ver.rev # 0
  /\ Released(s) => s.pkg.of \in Kernel
  /\ ~ Released(s) => s.pkg = Main(s.pkg.of)
  /\ s.pkg.of \in Plain => s.ver.up = 0
  /\ s.pkg.of \in Kernel => s.ver.up # 0 /\ (~ Released(s) => PinnedImage(s) \in s.deps)
  /\ \A dep \in s.deps :
       \/ dep.pin = AnyVersion /\ \E h \in Group : dep.pkg = Main(h)
       \/ s.pkg.of \in Kernel /\ s.pkg = Main(s.pkg.of) /\ dep = PinnedImage(s)

\* Revisions are bounded, and so are the upstreams of each group.
Bounded(some) == \E n \in Nat : \A s \in some : s.ver.rev <= n
Capped(some) ==
  \A g \in Group : \E n \in Nat : \A s \in some : s.pkg.of = g => s.ver.up <= n
Closed(some) == \A s \in some : \A dep \in s.deps : \E t \in some : Allows(dep, t)
Fine(some) ==
  /\ some \subseteq Stanza
  /\ \A s \in some : Shape(s)
  /\ Bounded(some)
  /\ Capped(some)
  /\ Closed(some)

Unique(some) == \A s, t \in some : Same(s, t) => s = t
Dated(some) == \A s \in some : s.day # Unstamped
WithMeta(some) ==
  \A s \in some : Released(s) => \E t \in some : t.pkg = Main(s.pkg.of) /\ t.ver = s.ver
WithHeaders(some) ==
  \A s \in some : s.pkg.of \in Kernel /\ ~ Released(s) =>
    \E h \in some : h.pkg = Headers(s.pkg.of, s.ver.up) /\ h.ver = s.ver

\* If a package's versions are bounded, an entry that any of them meets has a
\* newest to meet it.
LEMMA Resolves ==
  ASSUME NEW some, some \subseteq Stanza, \A s \in some : Shape(s), Bounded(some), Capped(some),
         NEW s \in some, NEW dep \in s.deps, NEW u \in some, Allows(dep, u)
  PROVE  Satisfying(some, dep) # {}
<1>1. CASE dep.pin = u.ver
  <2>1. ASSUME NEW t \in Newer(some, u) PROVE ~ Allows(dep, t)
    <3>1. t \in some /\ Older(u.ver, t.ver)
      BY DEF Newer
    <3>2. u.ver.up \in Nat /\ u.ver.rev \in Nat
      BY DEF Stanza, Version
    <3>3. t.ver # u.ver
      BY <3>1, <3>2 DEF Older
    <3>4. u.ver # AnyVersion
      BY DEF AnyVersion, Shape
    <3> QED BY <1>1, <3>3, <3>4 DEF Allows
  <2> QED BY <2>1 DEF Satisfying
<1>2. CASE dep.pin # u.ver
  <2>1. dep.pin = AnyVersion /\ dep.pkg = u.pkg
    BY <1>2 DEF Allows
  <2>2. PICK h \in Group : dep.pkg = Main(h)
    <3>1. dep.pin # s.ver
      <4>1. s.ver.rev # 0 /\ AnyVersion.rev = 0
        BY DEF Shape, AnyVersion
      <4> QED BY <2>1, <4>1
    <3>2. PinnedImage(s).pin = s.ver
      BY DEF PinnedImage
    <3> QED BY <3>1, <3>2 DEF Shape
  <2> DEFINE T == {t \in some : t.pkg = u.pkg}
  <2>3. PICK n \in Nat : \A t \in some : t.ver.rev <= n
    BY DEF Bounded
  <2>4. PICK m \in Nat : \A t \in some : t.pkg.of = h => t.ver.up <= m
    BY DEF Capped
  <2>5. \A t \in T : t.pkg.of = h
    BY <2>1, <2>2 DEF Main
  <2>6. T \subseteq Stanza /\ T # {} /\ \A t \in T : t.ver.up <= m /\ t.ver.rev <= n
    BY <2>3, <2>4, <2>5
  <2>7. PICK t \in T : \A v \in T : ~ Older(t.ver, v.ver)
    <3> HIDE DEF T
    <3> QED BY <2>6, LastOf
  <2>8. Newer(some, t) = {}
    BY <2>7 DEF Newer
  <2>9. Allows(dep, t)
    BY <2>1, <2>7 DEF Allows
  <2> QED BY <2>7, <2>8, <2>9 DEF Satisfying
<1> QED BY <1>1, <1>2

\* What kept stanzas want keeps every kernel with its metapackage.
LEMMA WantedWithMeta ==
  ASSUME NEW all, NEW some, some \subseteq all, \A s \in all : Shape(s), WithMeta(some)
  PROVE  WithMeta(some \cup Wanted(all, some))
<1> SUFFICES ASSUME NEW s \in Wanted(all, some), Released(s)
             PROVE  \E t \in some : t.pkg = Main(s.pkg.of) /\ t.ver = s.ver
  BY DEF WithMeta
<1>1. CASE \E t \in some : Beside(s, t)
  BY <1>1 DEF Beside, WithMeta, Released
<1>2. CASE \E t \in some : \E dep \in t.deps : s \in Satisfying(all, dep)
  <2> PICK t \in some : \E dep \in t.deps : s \in Satisfying(all, dep)
    BY <1>2
  <2>1. PICK dep \in t.deps : s \in Satisfying(all, dep)
    OBVIOUS
  <2>2. s.pkg = dep.pkg /\ dep.pin \in {s.ver, AnyVersion}
    BY <2>1 DEF Satisfying, Allows
  <2>3. \A h \in Group : dep.pkg # Main(h)
    BY <2>2 DEF Released, Main
  <2>4. dep.pin = t.ver /\ t.pkg = Main(t.pkg.of) /\ dep.pkg = Image(t.pkg.of, t.ver.up)
    <3>1. Shape(t)
      OBVIOUS
    <3>2. t.pkg = Main(t.pkg.of) /\ dep = PinnedImage(t)
      BY <2>3, <3>1 DEF Shape
    <3> QED BY <3>2 DEF PinnedImage
  <2>5. t.ver # AnyVersion
    BY DEF Shape, AnyVersion
  <2> QED BY <2>2, <2>4, <2>5 DEF Image
<1> QED BY <1>1, <1>2 DEF Wanted

-----------------------------------------------------------------------------
(* What a release plans and builds.                                        *)

\* The next revision is a number, and no bound on the published ones is passed
\* by more than one.
LEMMA NextRevision ==
  ASSUME index \subseteq Stanza, NEW n \in Nat, \A s \in index : s.ver.rev <= n,
         NEW g \in Group, NEW i \in InputsOf[g]
  PROVE  /\ NextVersion(g, i) \in Version
         /\ NextVersion(g, i).rev # 0
         /\ NextVersion(g, i).rev <= n + 1
         /\ NextVersion(g, i).up = UpstreamOf(g, i)
         /\ \A t \in index : /\ t.pkg = Main(g)
                             /\ t.ver.up = UpstreamOf(g, i)
                             => t.ver.rev < NextVersion(g, i).rev
<1> DEFINE revs == {0} \cup {s.ver.rev : s \in {t \in index : /\ t.pkg = Main(g)
                                                            /\ t.ver.up = UpstreamOf(g, i)}}
<1> DEFINE most == CHOOSE r \in revs : \A q \in revs : q <= r
<1>1. revs \subseteq Nat /\ revs # {} /\ \A r \in revs : r <= n
  BY DEF Stanza, Version
<1>2. most \in Nat /\ most <= n /\ \A q \in revs : q <= most
  <2>1. \E r \in revs : \A q \in revs : q <= r
    <3> HIDE DEF revs
    <3> QED BY <1>1, Greatest
  <2>2. most \in revs /\ \A q \in revs : q <= most
    BY <2>1
  <2> HIDE DEF most, revs
  <2> QED BY <1>1, <2>2
<1>3. UpstreamOf(g, i) \in Nat
  BY KernelsAreVersioned DEF UpstreamOf
<1>4. NextVersion(g, i) = [up |-> UpstreamOf(g, i), rev |-> 1 + most]
  BY DEF NextVersion
<1>5. ASSUME NEW t \in index, t.pkg = Main(g), t.ver.up = UpstreamOf(g, i)
      PROVE  t.ver.rev <= most /\ t.ver.rev \in Nat
  <2>1. t.ver.rev \in revs
    BY <1>5
  <2> HIDE DEF most, revs
  <2> QED BY <1>1, <1>2, <2>1
<1> HIDE DEF most
<1>6. NextVersion(g, i).rev = 1 + most /\ NextVersion(g, i).up = UpstreamOf(g, i)
  BY <1>4
<1>7. \A t \in index : t.pkg = Main(g) /\ t.ver.up = UpstreamOf(g, i) => t.ver.rev < 1 + most
  BY <1>2, <1>5
<1> QED BY <1>2, <1>3, <1>4, <1>6, <1>7 DEF Version

\* A built group: its stanzas, undated, each under a package of its own; what it
\* depends on is its image, or a group's package; its kernel has a metapackage.
LEMMA BuiltGroup ==
  ASSUME index \subseteq Stanza, NEW n \in Nat, \A s \in index : s.ver.rev <= n,
         NEW g \in Group, NEW i \in InputsOf[g]
  PROVE  /\ Built(g, i) \subseteq Stanza
         /\ \A b \in Built(g, i) :
              /\ b.day = Unstamped
              /\ b.pkg.of = g
              /\ b.ver = NextVersion(g, i)
              /\ b.inputs = i
              /\ g \in Plain => b.pkg = Main(g)
              /\ Shape(b)
              /\ \A dep \in b.deps :
                   \/ \E t \in Built(g, i) : Allows(dep, t)
                   \/ dep.pin = AnyVersion /\ \E h \in Group : dep.pkg = Main(h)
         /\ \A b, c \in Built(g, i) : b.pkg = c.pkg => b = c
         /\ WithMeta(Built(g, i)) /\ WithHeaders(Built(g, i))
         /\ \E b \in Built(g, i) : b.pkg = Main(g)
<1> DEFINE v == NextVersion(g, i)
<1>1. v \in Version /\ v.rev # 0 /\ v.up = UpstreamOf(g, i)
  BY NextRevision
<1>2. i \in Inputs /\ Unstamped \in Nat
  BY InputsAreHashes DEF Unstamped
<1>3. CASE g \in Kernel
  <2> DEFINE image == [pkg |-> Image(g, v.up), pin |-> v]
  <2> DEFINE I == Deb(Image(g, v.up), v, {}, i)
  <2> DEFINE H == Deb(Headers(g, v.up), v, {}, i)
  <2> DEFINE M == Deb(Main(g), v, {image}, i)
  <2>1. Built(g, i) = {I, H, M}
    BY <1>3 DEF Built
  <2>2. v.up \in Nat \ {0}
    BY <1>1, <1>3, KernelsAreVersioned DEF UpstreamOf
  <2>3. g \notin Plain
    BY <1>3, GroupsApart
  <2> HIDE DEF v
  <2>4. {I, H, M} \subseteq Stanza
    BY <1>1, <1>2, <2>2 DEF Stanza, Package, Depends, Deb, Main, Image, Headers
  <2>5. \A b \in {I, H, M} : b.day = Unstamped /\ b.pkg.of = g /\ b.ver = v /\ b.inputs = i
    BY DEF Deb, Main, Image, Headers
  <2>6. Shape(I) /\ Shape(H)
    BY <1>1, <1>3, <2>2, <2>3 DEF Shape, Released, Deb, Image, Headers
  <2>7. /\ M.pkg = Main(g) /\ M.pkg.of = g /\ M.ver = v /\ M.deps = {image}
        /\ ~ Released(M) /\ PinnedImage(M) = image
    BY DEF Deb, Main, Released, PinnedImage
  <2>8. Allows(image, I) /\ I.deps = {} /\ H.deps = {}
    BY DEF Allows, Deb
  <2>9. \A b, c \in {I, H, M} : b.pkg = c.pkg => b = c
    BY DEF Deb, Main, Image, Headers
  <2>10. H.pkg = Headers(g, v.up) /\ H.ver = v /\ Released(I) /\ Released(H)
    BY <2>2 DEF Deb, Released, Image, Headers
  <2> HIDE DEF I, H, M, image
  <2>11. Shape(M)
    BY <1>1, <1>3, <2>2, <2>3, <2>7 DEF Shape
  <2>12. WithMeta({I, H, M})
    BY <2>5, <2>7 DEF WithMeta
  <2>13. WithHeaders({I, H, M})
    BY <2>5, <2>10 DEF WithHeaders
  <2> QED BY <2>1, <2>3, <2>4, <2>5, <2>6, <2>7, <2>8, <2>9, <2>11, <2>12, <2>13 DEF v
<1>4. CASE g \notin Kernel
  <2> DEFINE needs == {[pkg |-> Main(h), pin |-> AnyVersion] : h \in DependsOn[g]}
  <2> DEFINE M == Deb(Main(g), v, needs, i)
  <2>1. Built(g, i) = {M}
    BY <1>4 DEF Built
  <2>2. g \in Plain /\ v.up = 0
    BY <1>1, <1>4 DEF Group, UpstreamOf
  <2> HIDE DEF v
  <2>3. DependsOn[g] \subseteq Group /\ Plain \subseteq Group
    BY <2>2, PlainDependOnGroups DEF Group
  <2>4. AnyVersion \in Version
    BY DEF AnyVersion, Version
  <2>5. needs \subseteq Depends
    BY <2>3, <2>4 DEF Depends, Package, Main
  <2>6. \A dep \in needs : dep.pin = AnyVersion /\ \E h \in Group : dep.pkg = Main(h)
    BY <2>3
  <2> HIDE DEF needs
  <2>7. M \in Stanza
    BY <1>1, <1>2, <2>5 DEF Stanza, Package, Deb, Main
  <2>8. /\ M.day = Unstamped /\ M.pkg = Main(g) /\ M.pkg.of = g /\ M.ver = v
        /\ M.deps = needs /\ M.inputs = i /\ ~ Released(M)
    BY DEF Deb, Main, Released
  <2> HIDE DEF M
  <2>9. Shape(M)
    BY <1>1, <1>4, <2>2, <2>6, <2>8 DEF Shape
  <2>10. WithMeta({M}) /\ WithHeaders({M})
    BY <1>4, <2>8 DEF WithMeta, WithHeaders
  <2> QED BY <2>1, <2>6, <2>7, <2>8, <2>9, <2>10 DEF v
<1> QED BY <1>3, <1>4

ReusedFrom(wanted) == UNION {Fetched(g, wanted[g]) : g \in Group}
BuiltFrom(wanted) ==
  UNION {Built(g, wanted[g]) : g \in {h \in Group : Had(h, wanted[h]) = {}}}
Dating(b) == [b EXCEPT !.day = day]

\* What a release builds: of each group that has its inputs under no version yet,
\* its debs at the next.
LEMMA BuiltDebs ==
  ASSUME index \subseteq Stanza, Bounded(index), NEW wanted \in Tree
  PROVE  /\ BuiltFrom(wanted) \subseteq Stanza
         /\ \A b \in BuiltFrom(wanted) :
              /\ b.day = Unstamped
              /\ b.pkg.of \in Group /\ Had(b.pkg.of, wanted[b.pkg.of]) = {}
              /\ b.ver = NextVersion(b.pkg.of, wanted[b.pkg.of])
              /\ b.inputs = wanted[b.pkg.of]
              /\ b.pkg.of \in Plain => b.pkg = Main(b.pkg.of)
              /\ Shape(b)
         /\ \A b \in BuiltFrom(wanted) : \A dep \in b.deps :
              \/ \E t \in BuiltFrom(wanted) : Allows(dep, t)
              \/ dep.pin = AnyVersion /\ \E h \in Group : dep.pkg = Main(h)
         /\ \A b, c \in BuiltFrom(wanted) : b.pkg = c.pkg => b = c
         /\ WithMeta(BuiltFrom(wanted)) /\ WithHeaders(BuiltFrom(wanted))
         /\ \A g \in Group : Had(g, wanted[g]) = {} =>
              \E b \in BuiltFrom(wanted) : b.pkg = Main(g)
<1>1. \A g \in Group : wanted[g] \in InputsOf[g]
  BY DEF Tree
<1>2. PICK n \in Nat : \A s \in index : s.ver.rev <= n
  BY DEF Bounded
<1>3. \A g \in Group :
        /\ Built(g, wanted[g]) \subseteq Stanza
        /\ \A b \in Built(g, wanted[g]) :
             /\ b.day = Unstamped
             /\ b.pkg.of = g
             /\ b.ver = NextVersion(g, wanted[g])
             /\ b.inputs = wanted[g]
             /\ g \in Plain => b.pkg = Main(g)
             /\ Shape(b)
             /\ \A dep \in b.deps :
                  \/ \E t \in Built(g, wanted[g]) : Allows(dep, t)
                  \/ dep.pin = AnyVersion /\ \E h \in Group : dep.pkg = Main(h)
        /\ \A b, c \in Built(g, wanted[g]) : b.pkg = c.pkg => b = c
        /\ WithMeta(Built(g, wanted[g])) /\ WithHeaders(Built(g, wanted[g]))
        /\ \E b \in Built(g, wanted[g]) : b.pkg = Main(g)
  BY <1>1, <1>2, BuiltGroup
<1>4. \A b, c \in BuiltFrom(wanted) : b.pkg = c.pkg => b = c
  BY <1>3 DEF BuiltFrom
<1>5. WithMeta(BuiltFrom(wanted))
  BY <1>3 DEF BuiltFrom, WithMeta
<1>6. WithHeaders(BuiltFrom(wanted))
  BY <1>3 DEF BuiltFrom, WithHeaders
<1>7. \A b \in BuiltFrom(wanted) : \A dep \in b.deps :
        \/ \E t \in BuiltFrom(wanted) : Allows(dep, t)
        \/ dep.pin = AnyVersion /\ \E h \in Group : dep.pkg = Main(h)
  BY <1>3 DEF BuiltFrom
<1> QED BY <1>3, <1>4, <1>5, <1>6, <1>7 DEF BuiltFrom

\* A new deb's version is above all its group has published at its upstream.
LEMMA NewVersions ==
  ASSUME Fine(index), WithMeta(index), NEW wanted \in Tree, NEW b \in BuiltFrom(wanted)
  PROVE  /\ b.ver.up = UpstreamOf(b.pkg.of, wanted[b.pkg.of])
         /\ \A t \in index : /\ t.pkg.of = b.pkg.of
                             /\ t.ver.up = b.ver.up
                             => t.ver.rev < b.ver.rev
<1>1. index \subseteq Stanza /\ Bounded(index)
  BY DEF Fine
<1>2. /\ b.pkg.of \in Group
      /\ b.ver = NextVersion(b.pkg.of, wanted[b.pkg.of])
  BY <1>1, BuiltDebs
<1>3. wanted[b.pkg.of] \in InputsOf[b.pkg.of]
  BY <1>2 DEF Tree
<1>4. PICK n \in Nat : \A s \in index : s.ver.rev <= n
  BY <1>1 DEF Bounded
<1>5. /\ b.ver.up = UpstreamOf(b.pkg.of, wanted[b.pkg.of])
      /\ \A t \in index : /\ t.pkg = Main(b.pkg.of)
                          /\ t.ver.up = UpstreamOf(b.pkg.of, wanted[b.pkg.of])
                          => t.ver.rev < b.ver.rev
  <2> DEFINE g == b.pkg.of
             v == NextVersion(g, wanted[g])
  <2>1. g \in Group /\ wanted[g] \in InputsOf[g] /\ b.ver = v
    BY <1>2, <1>3
  <2> HIDE DEF g
  <2>2. /\ v.up = UpstreamOf(g, wanted[g])
        /\ \A t \in index : /\ t.pkg = Main(g)
                            /\ t.ver.up = UpstreamOf(g, wanted[g])
                            => t.ver.rev < v.rev
    BY <1>1, <1>4, <2>1, NextRevision
  <2> HIDE DEF v
  <2>3. /\ b.ver.up = UpstreamOf(g, wanted[g])
        /\ \A t \in index : /\ t.pkg = Main(g)
                            /\ t.ver.up = UpstreamOf(g, wanted[g])
                            => t.ver.rev < b.ver.rev
    BY <2>1, <2>2
  <2> QED BY <2>3 DEF g
<1>6. ASSUME NEW t \in index, t.pkg.of = b.pkg.of, t.ver.up = b.ver.up
      PROVE  t.ver.rev < b.ver.rev
  <2>1. CASE Released(t)
    <3>1. PICK m \in index : m.pkg = Main(t.pkg.of) /\ m.ver = t.ver
      BY <2>1 DEF WithMeta
    <3> QED BY <1>5, <1>6, <3>1
  <2>2. CASE ~ Released(t)
    <3>1. t.pkg = Main(t.pkg.of)
      BY <2>2 DEF Fine, Shape
    <3> QED BY <1>5, <1>6, <3>1
  <2> QED BY <2>1, <2>2
<1> QED BY <1>5, <1>6

LEMMA NewNames ==
  ASSUME Fine(index), WithMeta(index), NEW wanted \in Tree, NEW b \in BuiltFrom(wanted),
         NEW t \in index
  PROVE  ~ Same(t, b)
<1>1. t.ver.rev \in Nat
  BY DEF Fine, Stanza, Version
<1>2. t.pkg.of = b.pkg.of /\ t.ver.up = b.ver.up => t.ver.rev < b.ver.rev
  BY NewVersions
<1> QED BY <1>1, <1>2 DEF Same

\* A release merges what it builds, dated, into what is published.
LEMMA AssembleAdds ==
  ASSUME Fine(index), WithMeta(index), Dated(index), NEW wanted \in Tree, Assemble(wanted)
  PROVE  merged' = index \cup {Dating(b) : b \in BuiltFrom(wanted)}
<1> DEFINE B == BuiltFrom(wanted)
<1> DEFINE C == CopiedIn(B, ReusedFrom(wanted))
<1>1. merged' = Stamp(Merge(index, B \cup C), day)
  BY DEF Assemble, BuiltFrom, ReusedFrom
<1>2. index \subseteq Stanza /\ Bounded(index)
  BY DEF Fine
<1>3. \A c \in C : \E t \in index : Same(t, c)
  <2>1. ASSUME NEW c \in C PROVE \E t \in index : Same(t, c)
    <3>1. PICK t \in ReusedFrom(wanted) : c = [t EXCEPT !.day = Unstamped]
      BY DEF CopiedIn
    <3>2. t \in index /\ t \in Stanza
      BY <1>2, <3>1 DEF ReusedFrom, Fetched
    <3>3. Same(t, c)
      BY <3>1, <3>2 DEF Same, Stanza
    <3> QED BY <3>2, <3>3
  <2> QED BY <2>1
<1>4. \A b \in B : b.day = Unstamped /\ \A t \in index : ~ Same(t, b)
  BY <1>2, BuiltDebs, NewNames
<1> HIDE DEF B, C
<1>5. Merge(index, B \cup C) = index \cup B
  <2>1. \A s, t : Same(s, t) <=> Same(t, s)
    BY DEF Same
  <2> QED BY <1>3, <1>4, <2>1 DEF Merge
<1>6. \A s \in index : s.day # Unstamped
  BY DEF Dated
<1>7. merged' = {IF s.day = Unstamped THEN Dating(s) ELSE s : s \in index \cup B}
  BY <1>1, <1>5 DEF Stamp, Dating
<1>8. merged' = index \cup {Dating(b) : b \in B}
  BY <1>4, <1>6, <1>7
<1> QED BY <1>8 DEF B

LEMMA DatedDebs ==
  ASSUME index \subseteq Stanza, Bounded(index), day \in Nat, NEW wanted \in Tree,
         NEW b \in BuiltFrom(wanted)
  PROVE  /\ Dating(b) \in Stanza /\ Dating(b).day = day /\ Dating(b).pkg = b.pkg
         /\ Dating(b).ver = b.ver /\ Dating(b).deps = b.deps
         /\ Dating(b).inputs = b.inputs
<1>1. b \in Stanza
  BY BuiltDebs
<1> QED BY <1>1 DEF Stanza, Dating

\* A release's index before it expires: what is published, and what is built and
\* not published under its name, dated; every kernel it starts from has its
\* metapackage.
LEMMA AssembleMerges ==
  ASSUME Fine(index), Unique(index), Dated(index), WithMeta(index), WithHeaders(index),
         day \in Nat \ {0}, NEW wanted \in Tree, Assemble(wanted)
  PROVE  /\ Fine(merged)' /\ Unique(merged)' /\ Dated(merged)' /\ WithHeaders(merged)'
         /\ index \subseteq merged' /\ kept' \subseteq merged'
         /\ WithMeta(kept)'
<1> DEFINE R == ReusedFrom(wanted)
<1> DEFINE B == BuiltFrom(wanted)
<1>1. kept' = Roots(merged', day - Keep, R \cup B)
  BY DEF Assemble, BuiltFrom, ReusedFrom
<1>2. index \subseteq Stanza /\ Bounded(index) /\ Capped(index)
  BY DEF Fine
<1>3. /\ B \subseteq Stanza
      /\ \A b \in B : b.pkg.of \in Group /\ Shape(b)
      /\ \A b \in B : \A dep \in b.deps :
           \/ \E t \in B : Allows(dep, t)
           \/ dep.pin = AnyVersion /\ \E h \in Group : dep.pkg = Main(h)
      /\ \A b, c \in B : b.pkg = c.pkg => b = c
      /\ WithMeta(B) /\ WithHeaders(B)
      /\ \A g \in Group : Had(g, wanted[g]) = {} => \E b \in B : b.pkg = Main(g)
  BY <1>2, BuiltDebs
<1>4. \A b \in B : /\ Dating(b) \in Stanza /\ Dating(b).day = day /\ Dating(b).pkg = b.pkg
                   /\ Dating(b).ver = b.ver /\ Dating(b).deps = b.deps
  BY <1>2, DatedDebs
<1>5. merged' = index \cup {Dating(b) : b \in B}
  BY AssembleAdds
<1>6. \A t \in index, b \in B : ~ Same(t, b)
  BY NewNames
<1>7. R \subseteq index
  BY DEF ReusedFrom, Fetched
<1>8. \A d \in R : \E m \in R : d.pkg.of \in Group /\ m.pkg = Main(d.pkg.of) /\ m.ver = d.ver
  <2>1. ASSUME NEW d \in R
        PROVE  \E m \in R : d.pkg.of \in Group /\ m.pkg = Main(d.pkg.of) /\ m.ver = d.ver
    <3>1. PICK g \in Group : d \in Fetched(g, wanted[g])
      BY DEF ReusedFrom
    <3>2. PICK t \in Reused(g, wanted[g]) : d.pkg.of = g /\ d.ver = t.ver
      BY <3>1 DEF Fetched
    <3>3. t \in index /\ t.pkg = Main(g)
      BY <3>2 DEF Reused, Had
    <3>4. t.pkg.of = g
      BY <3>3 DEF Main
    <3>5. t \in Fetched(g, wanted[g])
      BY <3>2, <3>3, <3>4 DEF Fetched
    <3> QED BY <3>2, <3>3, <3>5 DEF ReusedFrom
  <2> QED BY <2>1
<1>9. \A b \in B : b.ver.up = UpstreamOf(b.pkg.of, wanted[b.pkg.of])
  BY NewVersions
<1>10. \A b \in B : b.ver = NextVersion(b.pkg.of, wanted[b.pkg.of])
  BY <1>2, BuiltDebs
<1> HIDE DEF B, R
<1>11. Closed(merged)'
  <2>1. ASSUME NEW s \in index, NEW dep \in s.deps PROVE \E t \in merged' : Allows(dep, t)
    BY <1>5 DEF Fine, Closed
  <2>2. ASSUME NEW b \in B, NEW dep \in b.deps PROVE \E t \in merged' : Allows(dep, t)
    <3>1. ASSUME NEW t \in B, Allows(dep, t) PROVE \E e \in merged' : Allows(dep, e)
      BY <1>4, <1>5, <3>1 DEF Allows
    <3>2. CASE dep.pin = AnyVersion /\ \E h \in Group : dep.pkg = Main(h)
      <4>1. PICK h \in Group : dep.pkg = Main(h)
        BY <3>2
      <4>3. CASE Had(h, wanted[h]) = {}
        <5>1. \E t \in B : t.pkg = Main(h)
          BY <1>3, <4>3
        <5> QED BY <3>1, <3>2, <4>1, <5>1 DEF Allows
      <4>4. CASE Had(h, wanted[h]) # {}
        BY <1>5, <3>2, <4>1, <4>4 DEF Had, Allows
      <4> QED BY <4>3, <4>4
    <3> QED BY <1>3, <3>1, <3>2
  <2>3. \A s \in merged' : \A dep \in s.deps : \E t \in merged' : Allows(dep, t)
    BY <1>4, <1>5, <2>1, <2>2
  <2> QED BY <2>3 DEF Closed
<1>12. Bounded(merged)'
  <2>1. PICK n \in Nat : \A s \in index : s.ver.rev <= n
    BY <1>2 DEF Bounded
  <2>2. \A s \in index : s.ver.rev <= n + 1
    BY <1>2, <2>1 DEF Stanza, Version
  <2>3. \A b \in B : b.ver.rev <= n + 1
    <3>1. \A b \in B : wanted[b.pkg.of] \in InputsOf[b.pkg.of]
      BY <1>3 DEF Tree
    <3>2. \A b \in B : NextVersion(b.pkg.of, wanted[b.pkg.of]).rev <= n + 1
      BY <1>2, <1>3, <2>1, <3>1, NextRevision
    <3> QED BY <1>10, <3>2
  <2>4. \A s \in merged' : s.ver.rev <= n + 1
    BY <1>4, <1>5, <2>2, <2>3
  <2> QED BY <2>1, <2>4 DEF Bounded
<1>13. Capped(merged)'
  <2>1. ASSUME NEW g \in Group
        PROVE  \E n \in Nat : \A s \in merged' : s.pkg.of = g => s.ver.up <= n
    <3>1. PICK n \in Nat : \A s \in index : s.pkg.of = g => s.ver.up <= n
      BY <1>2 DEF Capped
    <3> DEFINE u == UpstreamOf(g, wanted[g])
    <3>2. u \in Nat
      BY KernelsAreVersioned DEF UpstreamOf, Tree
    <3>3. \A b \in B : b.pkg.of = g => b.ver.up = u
      BY <1>9
    <3> HIDE DEF u
    <3>4. \A s \in index : s.pkg.of = g => s.ver.up <= n + u
      BY <1>2, <3>1, <3>2 DEF Stanza, Version
    <3>5. u <= n + u
      BY <3>2
    <3>6. \A s \in merged' : s.pkg.of = g => s.ver.up <= n + u
      BY <1>4, <1>5, <3>3, <3>4, <3>5
    <3> QED BY <3>2, <3>6
  <2> QED BY <2>1 DEF Capped
<1>14. Fine(merged)'
  <2>1. \A b \in B : Shape(Dating(b))
    BY <1>3, <1>4 DEF Shape, Released, PinnedImage
  <2>2. \A s \in merged' : Shape(s)
    BY <1>5, <2>1 DEF Fine
  <2>3. merged' \subseteq Stanza
    BY <1>2, <1>4, <1>5
  <2> QED BY <1>11, <1>12, <1>13, <2>2, <2>3 DEF Fine
<1>15. Unique(merged)'
  <2>1. \A s, t \in index : Same(s, t) => s = t
    BY DEF Unique
  <2>2. \A s \in index, b \in B : ~ Same(s, Dating(b)) /\ ~ Same(Dating(b), s)
    BY <1>4, <1>6 DEF Same
  <2>3. \A b, c \in B : Same(Dating(b), Dating(c)) => Dating(b) = Dating(c)
    BY <1>3, <1>4 DEF Same
  <2>4. \A s, t \in merged' : Same(s, t) => s = t
    BY <1>5, <2>1, <2>2, <2>3
  <2> QED BY <2>4 DEF Unique
<1>16. Dated(merged)'
  <2>1. \A s \in merged' : s.day # Unstamped
    BY <1>4, <1>5 DEF Dated, Unstamped
  <2> QED BY <2>1 DEF Dated
<1>17. WithHeaders(merged)'
  <2>1. \A b \in B : b.pkg.of \in Kernel /\ ~ Released(Dating(b)) =>
          \E h \in B : h.pkg = Headers(b.pkg.of, b.ver.up) /\ h.ver = b.ver
    BY <1>3, <1>4 DEF WithHeaders, Released
  <2>2. \A s \in merged' : s.pkg.of \in Kernel /\ ~ Released(s) =>
          \E h \in merged' : h.pkg = Headers(s.pkg.of, s.ver.up) /\ h.ver = s.ver
    BY <1>4, <1>5, <2>1 DEF WithHeaders
  <2> QED BY <2>2 DEF WithHeaders
<1>18. WithMeta(kept)'
  <2> SUFFICES ASSUME NEW s \in kept', Released(s)
               PROVE  \E t \in kept' : t.pkg = Main(s.pkg.of) /\ t.ver = s.ver
    BY DEF WithMeta
  <2>1. PICK d \in R \cup B : Same(d, s)
    BY <1>1 DEF Roots
  <2>2. Released(d)
    BY <2>1 DEF Released, Same
  <2>3. PICK m \in R \cup B : m.pkg = Main(d.pkg.of) /\ m.ver = d.ver
    BY <1>3, <1>8, <2>2 DEF WithMeta
  <2>4. PICK e \in merged' : Same(m, e)
    BY <1>4, <1>5, <1>7 DEF Same
  <2>5. e \in kept'
    BY <1>1, <2>4 DEF Roots
  <2> QED BY <2>1, <2>3, <2>4, <2>5 DEF Same
<1>19. index \subseteq merged' /\ kept' \subseteq merged'
  BY <1>1, <1>5 DEF Roots
<1> QED BY <1>14, <1>15, <1>16, <1>17, <1>18, <1>19

-----------------------------------------------------------------------------
(* The invariant, and what it gives.                                       *)

\* What a release under way has merged extends what is published; it keeps
\* kernels with their metapackages.
Merging ==
  /\ Fine(merged) /\ Unique(merged) /\ Dated(merged) /\ WithHeaders(merged)
  /\ index \subseteq merged
  /\ kept \subseteq merged
  /\ WithMeta(kept)

CatalogInv ==
  /\ day \in Nat \ {0}
  /\ Fine(index) /\ Unique(index) /\ Dated(index) /\ WithMeta(index) /\ WithHeaders(index)
  /\ stage = "expire" => Merging

\* The loop has kept a stanza for every Depends of a stanza it keeps.
LEMMA KeptIsFine ==
  ASSUME Merging, Wanted(merged, kept) \subseteq kept
  PROVE  Fine(kept)
<1>1. kept \subseteq Stanza /\ \A s \in kept : Shape(s)
  BY DEF Merging, Fine
<1>2. Bounded(kept)
  BY DEF Merging, Fine, Bounded
<1>3. ASSUME NEW s \in kept, NEW dep \in s.deps PROVE \E t \in kept : Allows(dep, t)
  <2>1. s \in merged
    BY DEF Merging
  <2>2. PICK u \in merged : Allows(dep, u)
    BY <2>1 DEF Merging, Fine, Closed
  <2>3. Satisfying(merged, dep) # {}
    BY <2>1, <2>2, Resolves DEF Merging, Fine
  <2>4. Satisfying(merged, dep) \subseteq kept
    BY DEF Wanted
  <2> QED BY <2>3, <2>4 DEF Satisfying
<1>4. Capped(kept)
  BY DEF Merging, Fine, Capped
<1> QED BY <1>1, <1>2, <1>3, <1>4 DEF Fine, Closed

\* A kept metapackage keeps its image, and with it the headers.
LEMMA KeptHasHeaders ==
  ASSUME Merging, Wanted(merged, kept) \subseteq kept
  PROVE  WithHeaders(kept)
<1> SUFFICES ASSUME NEW s \in kept, s.pkg.of \in Kernel, ~ Released(s)
             PROVE  \E h \in kept : h.pkg = Headers(s.pkg.of, s.ver.up) /\ h.ver = s.ver
  BY DEF WithHeaders
<1>1. s \in merged /\ Shape(s) /\ merged \subseteq Stanza
  BY DEF Merging, Fine
<1> DEFINE dep == PinnedImage(s)
<1>2. dep \in s.deps /\ s.ver.up # 0 /\ s.ver.rev # 0
  BY <1>1 DEF Shape
<1>3. dep.pkg = Image(s.pkg.of, s.ver.up) /\ dep.pin = s.ver
  BY DEF PinnedImage
<1> HIDE DEF dep
<1>4. PICK u \in merged : Allows(dep, u)
  BY <1>1, <1>2 DEF Merging, Fine, Closed
<1>5. Satisfying(merged, dep) # {}
  BY <1>1, <1>2, <1>4, Resolves DEF Merging, Fine
<1>6. PICK t \in Satisfying(merged, dep) : TRUE
  BY <1>5
<1>7. t \in kept /\ Allows(dep, t)
  <2>1. Satisfying(merged, dep) \subseteq kept
    BY <1>2 DEF Wanted
  <2> QED BY <1>6, <2>1 DEF Satisfying
<1>8. t.pkg = Image(s.pkg.of, s.ver.up) /\ t.ver = s.ver
  <2>1. dep.pin # AnyVersion
    BY <1>2, <1>3 DEF AnyVersion
  <2> QED BY <1>3, <1>7, <2>1 DEF Allows
<1>9. PICK h \in merged : h.pkg = Headers(s.pkg.of, s.ver.up) /\ h.ver = s.ver
  BY <1>1 DEF Merging, WithHeaders
<1>10. Beside(h, t)
  BY <1>2, <1>8, <1>9 DEF Beside, Released, Image, Headers
<1> QED BY <1>7, <1>9, <1>10 DEF Wanted

LEMMA CatalogInit == Init => CatalogInv
<1> SUFFICES ASSUME Init PROVE CatalogInv
  OBVIOUS
<1>1. day \in Nat \ {0} /\ index = {} /\ stage # "expire"
  BY DEF Init
<1>2. Bounded({}) /\ Capped({})
  BY DEF Bounded, Capped
<1> QED BY <1>1, <1>2 DEF CatalogInv, Fine, Unique, Dated, WithMeta, WithHeaders, Closed

LEMMA CatalogStep == CatalogInv /\ [Next]_vars => CatalogInv'
<1> SUFFICES ASSUME CatalogInv, [Next]_vars PROVE CatalogInv'
  OBVIOUS
<1>1. CASE Pass
  <2>1. day' \in Nat \ {0} /\ stage' # "expire"
    BY <1>1 DEF Pass, CatalogInv
  <2>2. index' = index
    BY <1>1 DEF Pass, repo
  <2> QED BY <2>1, <2>2 DEF CatalogInv, Fine, Unique, Dated, WithMeta, Closed, Bounded, Capped, WithHeaders
<1>2. CASE Grow
  <2>1. /\ day' = day /\ index' = index /\ merged' = merged /\ stage = "expire"
        /\ kept' = kept \cup Wanted(merged, kept)
    BY <1>2 DEF Grow, repo
  <2>2. Merging
    BY <2>1 DEF CatalogInv
  <2>3. WithMeta(kept \cup Wanted(merged, kept))
    BY <2>2, WantedWithMeta DEF Merging, Fine
  <2>4. Wanted(merged, kept) \subseteq merged
    BY DEF Wanted, Satisfying
  <2>5. kept' \subseteq merged /\ WithMeta(kept)'
    BY <2>1, <2>2, <2>3, <2>4 DEF WithMeta, Merging
  <2>6. Merging'
    BY <2>1, <2>2, <2>5 DEF Merging, Fine, Unique, Dated, Closed, Bounded, Capped, WithHeaders
  <2>7. (Fine(index) /\ Unique(index) /\ Dated(index) /\ WithMeta(index) /\ WithHeaders(index))'
    BY <2>1 DEF CatalogInv, Fine, Unique, Dated, WithMeta, Closed, Bounded, Capped, WithHeaders
  <2> QED BY <2>1, <2>6, <2>7 DEF CatalogInv
<1>3. CASE Publish
  <2>1. /\ day' = day /\ index' = kept /\ stage' # "expire"
        /\ stage = "expire" /\ Wanted(merged, kept) \subseteq kept
    BY <1>3 DEF Publish
  <2>2. Merging
    BY <2>1 DEF CatalogInv
  <2>3. Fine(kept)
    BY <2>1, <2>2, KeptIsFine
  <2>4. Unique(kept) /\ Dated(kept) /\ WithMeta(kept) /\ WithHeaders(kept)
    BY <2>1, <2>2, KeptHasHeaders DEF Merging, Unique, Dated
  <2>5. (Fine(index) /\ Unique(index) /\ Dated(index) /\ WithMeta(index) /\ WithHeaders(index))'
    BY <2>1, <2>3, <2>4 DEF Fine, Unique, Dated, WithMeta, Closed, Bounded, Capped, WithHeaders
  <2> QED BY <2>1, <2>5 DEF CatalogInv
<1>4. ASSUME NEW wanted \in UNION Histories, Assemble(wanted) PROVE CatalogInv'
  <2> wanted \in Tree
    BY <1>4, HistoriesAreOfTrees
  <2>1. day' = day /\ index' = index
    BY <1>4 DEF Assemble, repo
  <2>2. Merging'
    <3>1. /\ Fine(index) /\ Unique(index) /\ Dated(index) /\ day \in Nat \ {0}
          /\ WithMeta(index) /\ WithHeaders(index)
      BY DEF CatalogInv
    <3>2. /\ Fine(merged)' /\ Unique(merged)' /\ Dated(merged)' /\ WithHeaders(merged)'
          /\ index \subseteq merged' /\ kept' \subseteq merged'
          /\ WithMeta(kept)'
      BY <1>4, <3>1, AssembleMerges
    <3> QED BY <2>1, <3>2 DEF Merging
  <2>3. (Fine(index) /\ Unique(index) /\ Dated(index) /\ WithMeta(index) /\ WithHeaders(index))'
    BY <2>1 DEF CatalogInv, Fine, Unique, Dated, WithMeta, Closed, Bounded, Capped, WithHeaders
  <2> QED BY <2>1, <2>2, <2>3 DEF CatalogInv
<1>5. ASSUME NEW wanted \in UNION Histories, Reissue(wanted) PROVE CatalogInv'
  <2>1. day' = day /\ index' = index /\ stage' = stage /\ stage # "expire"
    BY <1>5 DEF Reissue
  <2> QED BY <2>1 DEF CatalogInv, Fine, Unique, Dated, WithMeta, Closed, Bounded, Capped, WithHeaders
<1>6. CASE UNCHANGED vars
  BY <1>6 DEF vars, CatalogInv, Merging, Fine, Unique, Dated, WithMeta, Closed, Bounded, Capped, WithHeaders
<1> QED BY <1>1, <1>2, <1>3, <1>4, <1>5, <1>6 DEF Next

\* What each release plans, merges and expires from stays well formed.
THEOREM CatalogStaysFine == Spec => []CatalogInv
BY CatalogInit, CatalogStep, PTL DEF Spec

\* Whatever is built, reused, merged and expired, every Depends of the published
\* index resolves in it, as verify.py asks (release/expire.py, the loop of
\* expire).
THEOREM DependsAlwaysResolve == Spec => []DependsResolve
<1>1. CatalogInv => DependsResolve
  <2> SUFFICES ASSUME CatalogInv, NEW s \in index, NEW dep \in s.deps
               PROVE  Satisfying(index, dep) # {}
    BY DEF DependsResolve
  <2>1. PICK u \in index : Allows(dep, u)
    BY DEF CatalogInv, Fine, Closed
  <2> QED BY <2>1, Resolves DEF CatalogInv, Fine
<1> QED BY <1>1, CatalogStaysFine, PTL

\* No kernel or headers stay indexed without the metapackage they were published
\* with (release/expire.py: what is named for a kernel release has no window).
THEOREM NoneOrphaned == Spec => []NoOrphans
<1>1. CatalogInv => NoOrphans
  BY DEF CatalogInv, WithMeta, NoOrphans
<1> QED BY <1>1, CatalogStaysFine, PTL

\* A publication day never moves, so no window is cut short or prolonged
\* (release/expire.py, "a deb copied in again is the published one: its stamp").
THEOREM StampsNeverMove == Spec => StampsStay
<1>1. CatalogInv /\ [Next]_vars =>
        \A s \in index, t \in index' : Same(s, t) => s.day = t.day
  <2> SUFFICES ASSUME CatalogInv, [Next]_vars, NEW s \in index, NEW t \in index', Same(s, t)
               PROVE  s.day = t.day
    OBVIOUS
  <2>1. CASE Publish
    <3>1. index' = kept /\ Merging
      BY <2>1 DEF Publish, CatalogInv
    <3> QED BY <3>1 DEF Merging, Unique
  <2>2. CASE ~ Publish
    <3>1. index' = index
      BY <2>2 DEF Next, Pass, Grow, Assemble, Reissue, repo, vars
    <3> QED BY <3>1 DEF CatalogInv, Unique
  <2> QED BY <2>1, <2>2
<1>2. CatalogInv /\ [Next]_vars =>
        [\A s \in index, t \in index' : Same(s, t) => s.day = t.day]_vars
  BY <1>1
<1> QED BY <1>2, CatalogStaysFine, PTL DEF Spec, StampsStay

-----------------------------------------------------------------------------
(* The newest of a package, and what replaced any other.                   *)

\* Of the stanzas of one group, any that have some property have a last.
LEMMA LastOfGroup ==
  ASSUME NEW some, Fine(some), NEW g \in Group, NEW T, T \subseteq some, T # {},
         \A t \in T : t.pkg.of = g
  PROVE  \E w \in T : \A x \in T : ~ Older(w.ver, x.ver)
<1>1. PICK n \in Nat : \A t \in some : t.ver.rev <= n
  BY DEF Fine, Bounded
<1>2. PICK m \in Nat : \A t \in some : t.pkg.of = g => t.ver.up <= m
  BY DEF Fine, Capped
<1>3. T \subseteq Stanza /\ \A t \in T : t.ver.up <= m /\ t.ver.rev <= n
  BY <1>1, <1>2 DEF Fine
<1> QED BY <1>3, LastOf

\* Every package has a newest version, no older than any it has.
LEMMA HasNewest ==
  ASSUME NEW some, Fine(some), NEW s \in some
  PROVE  \E t \in some : t.pkg = s.pkg /\ ~ Older(t.ver, s.ver) /\ Newer(some, t) = {}
<1> DEFINE T == {t \in some : t.pkg = s.pkg /\ ~ Older(t.ver, s.ver)}
<1>1. some \subseteq Stanza
  BY DEF Fine
<1>2. s.pkg.of \in Group /\ s.ver \in Version
  BY <1>1 DEF Stanza, Package
<1>3. s \in T
  BY <1>2, OlderIsAnOrder
<1>4. PICK w \in T : \A x \in T : ~ Older(w.ver, x.ver)
  <2>1. T \subseteq some /\ T # {} /\ \A t \in T : t.pkg.of = s.pkg.of
    BY <1>3
  <2> HIDE DEF T
  <2> QED BY <1>2, <2>1, LastOfGroup
<1>5. ASSUME NEW x \in Newer(some, w) PROVE FALSE
  <2>1. x \in some /\ x.pkg = s.pkg /\ Older(w.ver, x.ver)
    BY <1>4 DEF Newer
  <2>2. x.ver \in Version /\ w.ver \in Version
    BY <1>1, <1>4, <2>1 DEF Stanza
  <2>3. Older(x.ver, s.ver)
    BY <1>4, <2>1
  <2>4. ~ Older(w.ver, s.ver)
    BY <1>4
  <2> QED BY <1>2, <2>1, <2>2, <2>3, <2>4, OlderIsAnOrder
<1> QED BY <1>4, <1>5

\* What has been replaced has a first replacement.
LEMMA HasReplacing ==
  ASSUME NEW some, some \subseteq Stanza, NEW s, Newer(some, s) # {}
  PROVE  Replacing(some, s) # {}
<1>1. Newer(some, s) \subseteq Stanza
  BY DEF Newer
<1>2. \E w \in Newer(some, s) : \A x \in Newer(some, s) : ~ Older(x.ver, w.ver)
  BY <1>1, FirstOf
<1> QED BY <1>2 DEF Replacing

-----------------------------------------------------------------------------
(* The window.                                                             *)

\* A version that was the newest stays until something newer is published, and
\* all that is newer was published since; it stays for the window after that.
Ages(n) ==
  /\ n \in [pkg : Package, ver : Version, till : Nat]
  /\ n.pkg = Main(n.pkg.of)
  /\ n.till <= day
  /\ n.till = 0 => Newer(index, n) = {} /\ \E s \in index : Same(s, n)
  /\ n.till # 0 => Newer(index, n) # {} /\ \A t \in Newer(index, n) : t.day >= n.till
  /\ n.till # 0 /\ day <= n.till + Keep => \E s \in index : Same(s, n)

\* A release under way adds what is of today, keeps the roots, and no
\* metapackage or plain package for any other reason.
Expiring ==
  /\ \A s \in merged : s \in index \/ s.day = day
  /\ Roots(merged, day - Keep, debs) \subseteq kept
  /\ \A s \in kept : ~ Released(s) => s \in Roots(merged, day - Keep, debs)

WindowInv ==
  /\ \A s \in index : s.day <= day
  /\ \A n \in newestTill : Ages(n)
  /\ stage = "expire" => Expiring

\* The newest version is kept, and so what replaced any other has something to
\* be replaced by.
LEMMA NewestIsKept ==
  ASSUME Merging, Expiring, NEW s \in merged, ~ Released(s), Newer(merged, s) = {}
  PROVE  s \in kept
BY DEF Roots, Expiring

LEMMA NewerIsKept ==
  ASSUME Merging, Expiring, NEW n, n.ver \in Version, n.pkg = Main(n.pkg.of),
         Newer(merged, n) # {}
  PROVE  Newer(kept, n) # {}
<1>1. PICK x \in merged : x.pkg = n.pkg /\ Older(n.ver, x.ver)
  BY DEF Newer
<1>2. PICK t \in merged : t.pkg = x.pkg /\ ~ Older(t.ver, x.ver) /\ Newer(merged, t) = {}
  BY HasNewest DEF Merging
<1>3. ~ Released(t)
  BY <1>1, <1>2 DEF Released, Main
<1>4. t \in kept
  BY <1>2, <1>3, NewestIsKept
<1>5. x.ver \in Version /\ t.ver \in Version
  BY DEF Merging, Fine, Stanza
<1>6. Older(n.ver, t.ver)
  BY <1>1, <1>2, <1>5, OlderIsAnOrder
<1> QED BY <1>1, <1>2, <1>4, <1>6 DEF Newer

\* What is kept of a version that was the newest and is replaced since no
\* longer than the window.
LEMMA ReplacedIsKept ==
  ASSUME Merging, Expiring, NEW s \in merged, ~ Released(s), Newer(merged, s) # {},
         \A t \in Newer(merged, s) : t.day >= day - Keep
  PROVE  s \in kept
<1>1. PICK t \in Replacing(merged, s) : TRUE
  BY HasReplacing DEF Merging, Fine
<1>2. t \in Newer(merged, s)
  BY DEF Replacing
<1>3. t.day >= day - Keep
  BY <1>2
<1> QED BY <1>3 DEF Roots, Expiring

LEMMA PublishAges ==
  ASSUME CatalogInv, WindowInv, Publish, NEW n \in newestTill'
  PROVE  Ages(n)'
<1>1. /\ stage = "expire" /\ index' = kept /\ day' = day /\ newestTill' = NewestTill(kept)
  BY DEF Publish
<1>2. Merging /\ Expiring
  BY <1>1 DEF CatalogInv, WindowInv
<1>3. kept \subseteq merged /\ index \subseteq merged /\ merged \subseteq Stanza
      /\ \A s \in merged : Shape(s)
  BY <1>2 DEF Merging, Fine
<1>4. day \in Nat /\ day # 0 /\ Keep \in Nat
  BY BoundsAreDays DEF CatalogInv
<1>5. SUFFICES /\ n \in [pkg : Package, ver : Version, till : Nat]
               /\ n.pkg = Main(n.pkg.of)
               /\ n.till <= day
               /\ n.till = 0 => Newer(kept, n) = {} /\ \E s \in kept : Same(s, n)
               /\ n.till # 0 => Newer(kept, n) # {} /\ \A t \in Newer(kept, n) : t.day >= n.till
               /\ n.till # 0 /\ day <= n.till + Keep => \E s \in kept : Same(s, n)
  BY <1>1 DEF Ages, Newer, Same, Older
<1>6. CASE \E s \in Newest(kept) : n = [pkg |-> s.pkg, ver |-> s.ver, till |-> 0]
  <2>1. PICK s \in Newest(kept) : n = [pkg |-> s.pkg, ver |-> s.ver, till |-> 0]
    BY <1>6
  <2>2. s \in kept /\ ~ Released(s) /\ Newer(kept, s) = {}
    BY DEF Newest
  <2>3. s \in Stanza /\ s.pkg = Main(s.pkg.of)
    BY <1>3, <2>2 DEF Shape
  <2>4. n \in [pkg : Package, ver : Version, till : Nat] /\ n.pkg = s.pkg /\ n.ver = s.ver
        /\ n.till = 0
    BY <2>1, <2>3 DEF Stanza
  <2>5. Newer(kept, n) = {} /\ Same(s, n)
    BY <2>2, <2>4 DEF Newer, Same
  <2> QED BY <1>4, <2>2, <2>3, <2>4, <2>5
<1>7. CASE \E m \in newestTill :
             n = IF m.till = 0 /\ Newer(kept, m) # {} THEN [m EXCEPT !.till = day] ELSE m
  <2>1. PICK m \in newestTill :
          n = IF m.till = 0 /\ Newer(kept, m) # {} THEN [m EXCEPT !.till = day] ELSE m
    BY <1>7
  <2>2. Ages(m)
    BY DEF WindowInv
  <2>3. /\ n \in [pkg : Package, ver : Version, till : Nat] /\ n.pkg = m.pkg /\ n.ver = m.ver
        /\ n.till = IF m.till = 0 /\ Newer(kept, m) # {} THEN day ELSE m.till
    BY <1>4, <2>1, <2>2 DEF Ages
  <2>4. n.pkg = Main(n.pkg.of) /\ n.ver \in Version /\ m.till \in Nat /\ m.till <= day
    BY <2>2, <2>3 DEF Ages
  <2>5. \A some : Newer(some, m) = Newer(some, n)
    BY <2>3 DEF Newer
  <2>6. \A s : Same(s, m) <=> Same(s, n)
    BY <2>3 DEF Same
  <2>7. \A s : Same(s, n) => ~ Released(s) /\ Newer(merged, s) = Newer(merged, n)
    BY <2>4 DEF Same, Newer, Released, Main
  <2>8. Newer(kept, n) \subseteq Newer(merged, n) /\ Newer(index, n) \subseteq Newer(merged, n)
    BY <1>3 DEF Newer
  <2>9. \A t \in Newer(merged, n) : t \in Newer(index, n) \/ t.day = day
    BY <1>2 DEF Newer, Expiring
  <2>10. n.till <= day /\ n.till \in Nat
    BY <1>4, <2>3, <2>4
  \* What is newer than a version that was not replaced before is of today.
  <2>11. ASSUME n.till # 0 PROVE \A t \in Newer(merged, n) : t.day >= n.till
    <3>1. CASE m.till = 0
      <4>1. Newer(index, n) = {}
        BY <2>2, <2>5, <3>1 DEF Ages
      <4> QED BY <2>9, <2>10, <4>1, <1>4
    <3>2. CASE m.till # 0
      <4>1. n.till = m.till
        BY <2>3, <3>2
      <4>2. \A t \in Newer(index, n) : t.day >= n.till
        BY <2>2, <2>5, <3>2, <4>1 DEF Ages
      <4> QED BY <1>4, <2>9, <2>10, <4>2
    <3> QED BY <3>1, <3>2
  <2>12. ASSUME n.till = 0 PROVE Newer(kept, n) = {} /\ \E s \in kept : Same(s, n)
    <3>1. m.till = 0 /\ Newer(kept, n) = {}
      BY <1>4, <2>3, <2>5, <2>12
    <3>2. Newer(merged, n) = {}
      BY <1>2, <2>4, <3>1, NewerIsKept
    <3>3. PICK s \in index : Same(s, n)
      BY <2>2, <2>6, <3>1 DEF Ages
    <3>4. s \in kept
      BY <1>2, <1>3, <2>7, <3>2, <3>3, NewestIsKept
    <3> QED BY <3>1, <3>3, <3>4
  <2>13. ASSUME n.till # 0 PROVE Newer(kept, n) # {}
    <3>1. CASE m.till = 0
      BY <2>3, <2>5, <2>13, <3>1
    <3>2. CASE m.till # 0
      <4>1. Newer(merged, n) # {}
        BY <2>2, <2>5, <2>8, <3>2 DEF Ages
      <4> QED BY <1>2, <2>4, <4>1, NewerIsKept
    <3> QED BY <3>1, <3>2
  <2>14. ASSUME n.till # 0, day <= n.till + Keep PROVE \E s \in kept : Same(s, n)
    <3>1. PICK s \in index : Same(s, n)
      <4>1. CASE m.till = 0
        BY <2>2, <2>6, <4>1 DEF Ages
      <4>2. CASE m.till # 0
        <5>1. day <= m.till + Keep
          BY <2>3, <2>14, <4>2
        <5> QED BY <2>2, <2>6, <4>2, <5>1 DEF Ages
      <4> QED BY <4>1, <4>2
    <3>2. s \in merged /\ ~ Released(s) /\ Newer(merged, s) = Newer(merged, n)
      BY <1>3, <2>7, <3>1
    <3>3. Newer(merged, s) # {}
      BY <2>8, <2>13, <2>14, <3>2
    <3>4. ASSUME NEW t \in Newer(merged, s) PROVE t.day >= day - Keep
      <4>1. t.day >= n.till
        BY <2>11, <2>14, <3>2
      <4>2. t.day \in Nat
        BY <1>3 DEF Newer, Stanza
      <4> QED BY <1>4, <2>10, <2>14, <4>1, <4>2
    <3>5. s \in kept
      BY <1>2, <3>2, <3>3, <3>4, ReplacedIsKept
    <3> QED BY <3>1, <3>5
  <2>15. \A t \in Newer(kept, n) : n.till # 0 => t.day >= n.till
    BY <2>8, <2>11
  <2> QED BY <2>3, <2>4, <2>10, <2>12, <2>13, <2>14, <2>15
<1>8. \/ \E s \in Newest(kept) : n = [pkg |-> s.pkg, ver |-> s.ver, till |-> 0]
      \/ \E m \in newestTill :
           n = IF m.till = 0 /\ Newer(kept, m) # {} THEN [m EXCEPT !.till = day] ELSE m
  BY <1>1 DEF NewestTill
<1> QED BY <1>6, <1>7, <1>8

LEMMA AssembleExpires ==
  ASSUME CatalogInv, NEW wanted \in Tree, Assemble(wanted)
  PROVE  Expiring'
<1>1. index' = index /\ day' = day /\ kept' = Roots(merged', day - Keep, debs')
  BY DEF Assemble, repo
<1>2. /\ Fine(index) /\ WithMeta(index) /\ Dated(index) /\ day \in Nat
      /\ index \subseteq Stanza /\ Bounded(index)
  BY DEF CatalogInv, Fine
<1>3. merged' = index \cup {Dating(b) : b \in BuiltFrom(wanted)}
  BY <1>2, AssembleAdds
<1>4. \A s \in merged' : s \in index \/ s.day = day
  BY <1>2, <1>3, DatedDebs
<1> QED BY <1>1, <1>4 DEF Expiring, Roots, Replacing, Newer, Same, Older, Released

LEMMA WantedMainsAreNewest ==
  ASSUME Merging, NEW s \in Wanted(merged, kept), ~ Released(s)
  PROVE  Newer(merged, s) = {}
<1>1. PICK t \in kept : \E dep \in t.deps : s \in Satisfying(merged, dep)
  <2>1. \A t \in kept : ~ Beside(s, t)
    BY DEF Beside
  <2> QED BY <2>1 DEF Wanted
<1>2. PICK dep \in t.deps : s \in Satisfying(merged, dep)
  BY <1>1
<1>3. /\ s \in merged /\ s.pkg = dep.pkg
      /\ \A u \in Newer(merged, s) : ~ Allows(dep, u)
  BY <1>2 DEF Satisfying, Allows
<1>4. CASE dep = PinnedImage(t) /\ t.pkg.of \in Kernel
  <2>1. t.ver.up # 0
    BY <1>4 DEF Merging, Fine, Shape
  <2>2. s.pkg.rel = t.ver.up
    BY <1>3, <1>4 DEF PinnedImage, Image
  <2> QED BY <2>1, <2>2 DEF Released
<1>5. CASE dep.pin = AnyVersion
  BY <1>3, <1>5 DEF Newer, Allows
<1>6. Shape(t)
  BY DEF Merging, Fine
<1> QED BY <1>4, <1>5, <1>6 DEF Shape

LEMMA GrowExpires ==
  ASSUME Merging, Expiring, Grow
  PROVE  Expiring'
<1>1. /\ index' = index /\ day' = day /\ merged' = merged /\ debs' = debs
      /\ kept' = kept \cup Wanted(merged, kept)
  BY DEF Grow, repo
<1>2. Roots(merged, day - Keep, debs)' = Roots(merged, day - Keep, debs)
  BY <1>1
<1>3. \A s \in Wanted(merged, kept) : ~ Released(s) => s \in Roots(merged, day - Keep, debs)
  <2>1. Wanted(merged, kept) \subseteq merged
    BY DEF Wanted, Satisfying
  <2> QED BY <2>1, WantedMainsAreNewest DEF Roots
<1>4. /\ \A s \in merged : s \in index \/ s.day = day
      /\ Roots(merged, day - Keep, debs) \subseteq kept
      /\ \A s \in kept : ~ Released(s) => s \in Roots(merged, day - Keep, debs)
  BY DEF Expiring
<1>5. \A s \in kept' : ~ Released(s) => s \in Roots(merged, day - Keep, debs)
  BY <1>1, <1>3, <1>4
<1>6. Roots(merged, day - Keep, debs) \subseteq kept'
  BY <1>1, <1>4
<1> QED BY <1>1, <1>2, <1>4, <1>5, <1>6 DEF Expiring, Released

LEMMA SameAges ==
  ASSUME WindowInv, day \in Nat, day' \in Nat, day <= day', index' = index,
         NEW n \in newestTill
  PROVE  Ages(n)'
<1>1. Ages(n)
  BY DEF WindowInv
<1>2. n.till \in Nat /\ Keep \in Nat /\ n.till <= day
  BY <1>1, BoundsAreDays DEF Ages
<1>3. n.till <= day' /\ (day' <= n.till + Keep => day <= n.till + Keep)
  BY <1>2
<1>4. Newer(index, n)' = Newer(index, n) /\ \A s : Same(s, n)' <=> Same(s, n)
  BY DEF Newer, Same, Older
<1> QED BY <1>1, <1>3, <1>4 DEF Ages

LEMMA WindowInit == Init => WindowInv
BY DEF Init, WindowInv

LEMMA WindowStep == CatalogInv /\ WindowInv /\ [Next]_vars => WindowInv'
<1> SUFFICES ASSUME CatalogInv, WindowInv, [Next]_vars PROVE WindowInv'
  OBVIOUS
<1>1. day \in Nat /\ index \subseteq Stanza /\ \A s \in index : s.day <= day
  BY DEF CatalogInv, Fine, WindowInv
<1>2. CASE Publish
  <2>1. index' = kept /\ day' = day /\ stage' # "expire" /\ stage = "expire"
    BY <1>2 DEF Publish
  <2>2. kept \subseteq merged /\ Expiring
    BY <2>1 DEF CatalogInv, WindowInv, Merging
  <2>3. \A s \in index' : s.day <= day'
    BY <1>1, <2>1, <2>2 DEF Expiring
  <2>4. \A n \in newestTill' : Ages(n)'
    BY <1>2, PublishAges
  <2> QED BY <2>1, <2>3, <2>4 DEF WindowInv
<1>3. ASSUME index' = index, newestTill' = newestTill, day' \in Nat, day <= day',
             stage' = "expire" => Expiring'
      PROVE  WindowInv'
  <2>1. \A n \in newestTill : Ages(n)'
    BY <1>1, <1>3, SameAges
  <2>2. \A s \in index' : s.day <= day'
    BY <1>1, <1>3 DEF Stanza
  <2> QED BY <1>3, <2>1, <2>2 DEF WindowInv
<1>4. CASE Pass
  <2>1. index' = index /\ newestTill' = newestTill /\ day' = day + 1 /\ stage' # "expire"
    BY <1>4 DEF Pass, repo
  <2> QED BY <1>1, <1>3, <2>1
<1>5. CASE Grow
  <2>1. index' = index /\ newestTill' = newestTill /\ day' = day /\ stage = "expire"
    BY <1>5 DEF Grow, repo
  <2>2. Expiring'
    BY <1>5, <2>1, GrowExpires DEF CatalogInv, WindowInv
  <2> QED BY <1>1, <1>3, <2>1, <2>2
<1>6. ASSUME NEW wanted \in UNION Histories, Assemble(wanted) PROVE WindowInv'
  <2>1. index' = index /\ newestTill' = newestTill /\ day' = day
    BY <1>6 DEF Assemble, repo
  <2>2. Expiring'
    BY <1>6, HistoriesAreOfTrees, AssembleExpires
  <2> QED BY <1>1, <1>3, <2>1, <2>2
<1>7. ASSUME NEW wanted \in UNION Histories, Reissue(wanted) PROVE WindowInv'
  <2>1. index' = index /\ newestTill' = newestTill /\ day' = day /\ stage' # "expire"
    BY <1>7 DEF Reissue
  <2> QED BY <1>1, <1>3, <2>1
<1>8. CASE UNCHANGED vars
  <2>1. index' = index /\ newestTill' = newestTill /\ day' = day /\ stage' = stage
        /\ (Expiring => Expiring')
    BY <1>8 DEF vars, Expiring, Roots, Replacing, Newer, Same, Older, Released
  <2> QED BY <1>1, <1>3, <2>1 DEF WindowInv
<1> QED BY <1>2, <1>4, <1>5, <1>6, <1>7, <1>8 DEF Next

LEMMA AlwaysWindow == Spec => [](CatalogInv /\ WindowInv)
BY WindowInit, WindowStep, CatalogStaysFine, PTL DEF Spec

\* For the window after something newer than a package's newest version was
\* published, a box can go back to it: it is indexed, and a kernel's with its
\* image and its headers (release/expire.py, kept for TVB_APT_KEEP_DAYS).
THEOREM WindowHolds == Spec => []GoBack
<1>1. CatalogInv /\ WindowInv => GoBack
  <2> SUFFICES ASSUME CatalogInv, WindowInv, NEW n \in newestTill,
                      n.till = 0 \/ day <= n.till + Keep
               PROVE  /\ \E s \in index : Same(s, n)
                      /\ n.pkg.of \in Kernel =>
                           \A pkg \in {Image(n.pkg.of, n.ver.up), Headers(n.pkg.of, n.ver.up)} :
                             \E s \in index : s.pkg = pkg /\ s.ver = n.ver
    BY DEF GoBack
  <2>1. Ages(n)
    BY DEF WindowInv
  <2>2. PICK s \in index : Same(s, n)
    BY <2>1 DEF Ages
  <2>3. s.pkg = n.pkg /\ s.ver = n.ver /\ ~ Released(s)
    <3>1. n.pkg = Main(n.pkg.of)
      BY <2>1 DEF Ages
    <3> QED BY <2>2, <3>1 DEF Same, Released, Main
  <2>4. ASSUME n.pkg.of \in Kernel
        PROVE  \E t \in index : t.pkg = Image(n.pkg.of, n.ver.up) /\ t.ver = n.ver
    <3>1. Shape(s) /\ \A dep \in s.deps : \E t \in index : Allows(dep, t)
      BY DEF CatalogInv, Fine, Closed
    <3>2. PinnedImage(s) \in s.deps /\ s.ver.rev # 0
      BY <2>3, <2>4, <3>1 DEF Shape
    <3>3. PICK t \in index : Allows(PinnedImage(s), t)
      BY <3>1, <3>2
    <3>4. /\ PinnedImage(s).pkg = Image(n.pkg.of, n.ver.up)
          /\ PinnedImage(s).pin = n.ver /\ n.ver # AnyVersion
      BY <2>3, <3>2 DEF PinnedImage, AnyVersion
    <3> QED BY <3>3, <3>4 DEF Allows
  <2>5. ASSUME n.pkg.of \in Kernel
        PROVE  \E t \in index : t.pkg = Headers(n.pkg.of, n.ver.up) /\ t.ver = n.ver
    BY <2>3, <2>5 DEF CatalogInv, WithHeaders
  <2> QED BY <2>2, <2>4, <2>5
<1> QED BY <1>1, AlwaysWindow, PTL

-----------------------------------------------------------------------------
(* Who owns a path.                                                        *)

Plainly(s) == s.pkg.of \in Plain
Overlap(s, t) ==
  /\ s.pkg # t.pkg /\ ~ Apart(s.pkg, t.pkg)
  /\ Paths(s) \cap Paths(t) # {}

\* What a deb takes from a newest plain one it announces.
Noticed(m) == \A s \in Newest(index) : Plainly(s) /\ Overlap(s, m) => s.pkg \in Announced(m)

\* Each of the new debs, copied in or built, is merged under its inputs, and stays,
\* as its images are made of it; they are of different packages. A plain one is newer
\* than all the index has of it.
Adding ==
  /\ \A b \in new : /\ \E m \in merged : Same(b, m) /\ m.inputs = b.inputs
                    /\ \E d \in debs : Same(d, b)
  /\ \A b, c \in new : b.pkg = c.pkg => b = c
  /\ \A b \in new : Plainly(b) => \A t \in index : t.pkg = b.pkg => Older(t.ver, b.ver)
  /\ \A m \in merged : m \in index \/ \E b \in new : Same(b, m) /\ b.inputs = m.inputs

\* What it adds to the index announces what it takes.
Noticing == Guarded => \A m \in merged \ index : Noticed(m)

OwnersInv == ContentsOfNewest /\ (stage = "expire" => Adding /\ Noticing)

LEMMA OwnedIs ==
  ASSUME NEW some, NEW c
  PROVE  c \in Owned(some) <=> \E s \in some : \E path \in Paths(s) : c = <<path, s.pkg>>
BY DEF Owned

\* A package's lines are told by its name and its inputs.
LEMMA OwnedAlike ==
  ASSUME NEW s, NEW t, s.pkg = t.pkg, s.inputs = t.inputs
  PROVE  Owned({s}) = Owned({t})
<1>1. Paths(s) = Paths(t)
  BY DEF Paths
<1>2. \A c : c \in Owned({s}) <=> c \in Owned({t})
  BY <1>1, OwnedIs
<1>3. Owned({s}) \subseteq Owned({t}) /\ Owned({t}) \subseteq Owned({s})
  BY <1>2
<1> QED BY <1>3

\* The newest debs of what is merged are those of what is kept of it.
LEMMA NewestStays ==
  ASSUME Merging, Expiring
  PROVE  Newest(kept) = Newest(merged)
<1>1. kept \subseteq merged /\ merged \subseteq Stanza /\ \A s \in merged : Shape(s)
  BY DEF Merging, Fine
<1>2. ASSUME NEW s \in Newest(kept) PROVE s \in Newest(merged)
  <2>1. s \in kept /\ ~ Released(s) /\ Newer(kept, s) = {}
    BY DEF Newest
  <2>2. s.ver \in Version /\ s.pkg = Main(s.pkg.of)
    BY <1>1, <2>1 DEF Stanza, Shape
  <2>3. Newer(merged, s) = {}
    BY <2>1, <2>2, NewerIsKept
  <2> QED BY <1>1, <2>1, <2>3 DEF Newest
<1>3. ASSUME NEW s \in Newest(merged) PROVE s \in Newest(kept)
  <2>1. s \in merged /\ ~ Released(s) /\ Newer(merged, s) = {}
    BY DEF Newest
  <2>2. s \in kept /\ Newer(kept, s) = {}
    BY <1>1, <2>1, NewestIsKept DEF Newer
  <2> QED BY <2>1, <2>2 DEF Newest
<1> QED BY <1>2, <1>3

\* A plain package's newest deb after the merge: the new one, or where there is
\* none, the newest published.
LEMMA OldOrNew ==
  ASSUME Merging, Adding, NEW s \in Newest(merged), Plainly(s)
  PROVE  \/ s \in Newest(index) /\ \A b \in new : b.pkg # s.pkg
         \/ \E b \in new : Same(b, s) /\ b.inputs = s.inputs
<1>1. s \in merged /\ ~ Released(s) /\ Newer(merged, s) = {} /\ index \subseteq merged
  BY DEF Newest, Merging
<1>2. CASE s \in index
  <2>1. s \in Newest(index)
    BY <1>1, <1>2 DEF Newest, Newer
  <2>2. ASSUME NEW b \in new, b.pkg = s.pkg PROVE FALSE
    <3>1. Plainly(b)
      BY <2>2 DEF Plainly
    <3>2. Older(s.ver, b.ver)
      BY <1>2, <2>2, <3>1 DEF Adding
    <3>3. PICK m \in merged : Same(b, m)
      BY DEF Adding
    <3>4. m \in Newer(merged, s)
      BY <2>2, <3>2, <3>3 DEF Newer, Same
    <3> QED BY <1>1, <3>4
  <2> QED BY <2>1, <2>2
<1>3. CASE s \notin index
  BY <1>1, <1>3 DEF Adding
<1> QED BY <1>2, <1>3

\* What a release copies in is published, of a group it builds nothing of, and no
\* two are of one package.
LEMMA CopiedDebs ==
  ASSUME CatalogInv, NEW wanted \in Tree,
         NEW b \in CopiedIn(BuiltFrom(wanted), ReusedFrom(wanted))
  PROVE  /\ ~ Plainly(b)
         /\ Had(b.pkg.of, wanted[b.pkg.of]) # {}
         /\ \E t \in index : Same(b, t) /\ t.inputs = b.inputs /\ t \in ReusedFrom(wanted)
         /\ \A c \in CopiedIn(BuiltFrom(wanted), ReusedFrom(wanted)) : b.pkg = c.pkg => b = c
<1> DEFINE R == ReusedFrom(wanted)
<1> DEFINE C == CopiedIn(BuiltFrom(wanted), R)
<1>1. index \subseteq Stanza /\ Unique(index)
  BY DEF CatalogInv, Fine
<1>2. ASSUME NEW c \in C
      PROVE  \E t \in R : /\ t.pkg.of \in Kernel /\ t \in index
                          /\ c = [t EXCEPT !.day = Unstamped]
                          /\ c.pkg = t.pkg /\ c.ver = t.ver /\ c.inputs = t.inputs
                          /\ \E r \in Reused(t.pkg.of, wanted[t.pkg.of]) : t.ver = r.ver
  <2>1. PICK t \in R : t.pkg.of \in Kernel /\ c = [t EXCEPT !.day = Unstamped]
    BY DEF CopiedIn
  <2>2. PICK g \in Group : t \in Fetched(g, wanted[g])
    BY DEF ReusedFrom
  <2>3. PICK r \in Reused(g, wanted[g]) : t \in index /\ t.pkg.of = g /\ t.ver = r.ver
    BY <2>2 DEF Fetched
  <2>4. t \in Stanza
    BY <1>1, <2>3
  <2>5. c.pkg = t.pkg /\ c.ver = t.ver /\ c.inputs = t.inputs
    BY <2>1, <2>4 DEF Stanza
  <2> QED BY <2>1, <2>3, <2>5
<1> HIDE DEF R, C
<1>3. PICK t \in R : /\ t.pkg.of \in Kernel /\ t \in index
                     /\ b = [t EXCEPT !.day = Unstamped]
                     /\ b.pkg = t.pkg /\ b.ver = t.ver /\ b.inputs = t.inputs
                     /\ \E r \in Reused(t.pkg.of, wanted[t.pkg.of]) : t.ver = r.ver
  BY <1>2 DEF C, R
<1>4. ~ Plainly(b) /\ Had(b.pkg.of, wanted[b.pkg.of]) # {}
  BY <1>3, GroupsApart DEF Plainly, Reused
<1>5. ASSUME NEW c \in C, b.pkg = c.pkg PROVE b = c
  <2>1. PICK u \in R : /\ u \in index
                       /\ c = [u EXCEPT !.day = Unstamped]
                       /\ c.pkg = u.pkg
                       /\ \E r \in Reused(u.pkg.of, wanted[u.pkg.of]) : u.ver = r.ver
    BY <1>2
  <2>2. u.pkg = t.pkg
    BY <1>3, <1>5, <2>1
  <2>3. PICK q \in Reused(t.pkg.of, wanted[t.pkg.of]) : t.ver = q.ver
    BY <1>3
  <2>4. PICK r \in Reused(t.pkg.of, wanted[t.pkg.of]) : u.ver = r.ver
    BY <2>1, <2>2
  <2>5. ~ Older(q.ver, r.ver) /\ ~ Older(r.ver, q.ver)
    BY DEF Reused
  <2>6. t.ver \in Version /\ u.ver \in Version
    BY <1>1, <1>3, <2>1 DEF Stanza
  <2>7. t.ver = u.ver
    BY <2>3, <2>4, <2>5, <2>6, OlderIsAnOrder, SameVersion
  <2>8. t = u
    BY <1>1, <1>3, <2>1, <2>2, <2>7 DEF Unique, Same
  <2> QED BY <1>3, <2>1, <2>8
<1>6. \E e \in index : Same(b, e) /\ e.inputs = b.inputs /\ e \in R
  BY <1>3 DEF Same
<1> QED BY <1>4, <1>5, <1>6 DEF C, R

LEMMA AssembleAdding ==
  ASSUME CatalogInv, NEW wanted \in Tree, Assemble(wanted)
  PROVE  Adding'
<1> DEFINE B == BuiltFrom(wanted)
<1> DEFINE R == ReusedFrom(wanted)
<1> DEFINE C == CopiedIn(B, R)
<1>1. index' = index /\ new' = B \cup C /\ debs' = R \cup B
  BY DEF Assemble, BuiltFrom, ReusedFrom, repo
<1>2. /\ Fine(index) /\ WithMeta(index) /\ Dated(index) /\ day \in Nat
      /\ index \subseteq Stanza /\ Bounded(index) /\ \A t \in index : Shape(t)
  BY DEF CatalogInv, Fine
<1>3. merged' = index \cup {Dating(b) : b \in B}
  BY <1>2, AssembleAdds
<1>4. /\ \A b \in B : Shape(b) /\ b \in Stanza /\ Had(b.pkg.of, wanted[b.pkg.of]) = {}
      /\ \A b, c \in B : b.pkg = c.pkg => b = c
  BY <1>2, BuiltDebs
<1>5. \A b \in B : /\ Dating(b).pkg = b.pkg /\ Dating(b).ver = b.ver
                   /\ Dating(b).inputs = b.inputs
  BY <1>2, DatedDebs
<1>6. \A b \in B : \A t \in index :
        t.pkg.of = b.pkg.of /\ t.ver.up = b.ver.up => t.ver.rev < b.ver.rev
  BY <1>2, NewVersions
<1>7. \A b \in C : /\ ~ Plainly(b)
                   /\ Had(b.pkg.of, wanted[b.pkg.of]) # {}
                   /\ \E t \in index : Same(b, t) /\ t.inputs = b.inputs /\ t \in R
                   /\ \A c \in C : b.pkg = c.pkg => b = c
  BY CopiedDebs
<1> HIDE DEF B, R, C
<1>8. ASSUME NEW b \in new'
      PROVE  /\ \E m \in merged' : Same(b, m) /\ m.inputs = b.inputs
             /\ \E d \in debs' : Same(d, b)
  <2>1. CASE b \in B
    BY <1>1, <1>3, <1>5, <2>1 DEF Same
  <2>2. CASE b \in C
    <3>1. PICK t \in index : Same(b, t) /\ t.inputs = b.inputs /\ t \in R
      BY <1>7, <2>2
    <3> QED BY <1>1, <1>3, <3>1 DEF Same
  <2> QED BY <1>1, <2>1, <2>2
<1>9. \A b, c \in new' : b.pkg = c.pkg => b = c
  BY <1>1, <1>4, <1>7
<1>10. ASSUME NEW b \in new', Plainly(b), NEW t \in index, t.pkg = b.pkg
       PROVE  Older(t.ver, b.ver)
  <2>1. b \in B
    BY <1>1, <1>7, <1>10
  <2>2. t.ver.up = 0 /\ b.ver.up = 0
    BY <1>2, <1>4, <1>10, <2>1 DEF Shape, Plainly
  <2>3. t.ver.rev < b.ver.rev
    BY <1>6, <1>10, <2>1, <2>2
  <2> QED BY <2>2, <2>3 DEF Older
<1>11. \A m \in merged' : m \in index' \/ \E b \in new' : Same(b, m) /\ b.inputs = m.inputs
  BY <1>1, <1>3, <1>5 DEF Same
<1> QED BY <1>1, <1>8, <1>9, <1>10, <1>11 DEF Adding, Plainly, Same, Older

LEMMA AssembleNotices ==
  ASSUME CatalogInv, ContentsOfNewest, NEW wanted \in Tree, Assemble(wanted)
  PROVE  Noticing'
<1> SUFFICES ASSUME Guarded, NEW m \in merged' \ index', NEW s \in Newest(index'), Plainly(s),
                    Overlap(s, m)
             PROVE  s.pkg \in Announced(m)
  BY DEF Noticing, Noticed, Plainly, Overlap, Announced, Paths, Apart
<1> DEFINE B == BuiltFrom(wanted)
<1>1. index' = index /\ MovesAnnounced(B)
  BY DEF Assemble, BuiltFrom, repo
<1>2. /\ Fine(index) /\ WithMeta(index) /\ Dated(index) /\ day \in Nat
      /\ index \subseteq Stanza /\ Bounded(index)
  BY DEF CatalogInv, Fine
<1>3. merged' = index \cup {Dating(b) : b \in B}
  BY <1>2, AssembleAdds
<1>4. PICK b \in B : m = Dating(b)
  BY <1>1, <1>3
<1>5. m.pkg = b.pkg /\ m.inputs = b.inputs
  BY <1>2, <1>4, DatedDebs
<1> HIDE DEF B
<1>6. Paths(m) = Paths(b) /\ Announced(m) = Announced(b)
  BY <1>5 DEF Paths, Announced
<1>7. PICK path \in Paths(s) : path \in Paths(b)
  BY <1>6 DEF Overlap
<1> DEFINE c == <<path, s.pkg>>
<1>8. c \in contents
  <2>1. s \in Newest(index)
    BY <1>1
  <2>2. c \in Owned({s})
    BY <1>7, OwnedIs
  <2>3. Listed(s.pkg) = Owned({s})
    BY <2>1 DEF ContentsOfNewest, Plainly
  <2> QED BY <2>2, <2>3 DEF Listed
<1>9. c[1] = path /\ c[2] = s.pkg
  OBVIOUS
<1>10. s.pkg # b.pkg /\ ~ Apart(b.pkg, s.pkg)
  BY <1>5 DEF Overlap, Apart
<1> HIDE DEF c
<1>11. c[2] \in Announced(b)
  BY <1>1, <1>7, <1>8, <1>9, <1>10 DEF MovesAnnounced
<1> QED BY <1>6, <1>9, <1>11

\* The lines of a package after the release: those of the new deb of it, or where
\* there is none, those it had.
LEMMA ListedNew ==
  ASSUME Adding, NEW some, NEW b \in new
  PROVE  {c \in Contents(some) : c[2] = b.pkg} = Owned({b})
<1>1. ASSUME NEW c \in Contents(some), c[2] = b.pkg PROVE c \in Owned({b})
  <2>1. c \in Owned(new)
    BY <1>1 DEF Contents
  <2>2. PICK s \in new : \E path \in Paths(s) : c = <<path, s.pkg>>
    BY <2>1, OwnedIs
  <2>3. s = b
    BY <1>1, <2>2 DEF Adding
  <2> QED BY <2>2, <2>3, OwnedIs
<1>2. ASSUME NEW c \in Owned({b}) PROVE c \in Contents(some) /\ c[2] = b.pkg
  <2>1. \E path \in Paths(b) : c = <<path, b.pkg>>
    BY OwnedIs
  <2>2. c \in Owned(new)
    BY <2>1, OwnedIs
  <2> QED BY <2>1, <2>2 DEF Contents
<1> QED BY <1>1, <1>2

LEMMA ListedOld ==
  ASSUME NEW some, NEW s \in some, \A b \in new : b.pkg # s.pkg
  PROVE  {c \in Contents(some) : c[2] = s.pkg} = Listed(s.pkg)
<1>1. ASSUME NEW c \in Owned(new) PROVE c[2] # s.pkg
  <2>1. PICK b \in new : \E path \in Paths(b) : c = <<path, b.pkg>>
    BY OwnedIs
  <2> QED BY <2>1
<1> QED BY <1>1 DEF Contents, Listed

\* What is published with an index: each package's lines are those of one deb of
\* it, a plain one's of the newest, and all of packages that are indexed.
Whole(lines, some, had) ==
  /\ \A s \in Newest(some) : Plainly(s) => {c \in lines : c[2] = s.pkg} = Owned({s})
  /\ \A s \in some : \E t \in had : t.pkg = s.pkg /\ {c \in lines : c[2] = s.pkg} = Owned({t})
  /\ \A c \in lines : \E s \in some : s.pkg = c[2]

LEMMA WholeIs == ContentsOfNewest <=> Whole(contents, index, past)
BY DEF ContentsOfNewest, Whole, Listed, Plainly

LEMMA WholeIsNext == (ContentsOfNewest <=> Whole(contents, index, past))'
BY WholeIs, PTL

LEMMA PublishOwners ==
  ASSUME Merging, Expiring, Adding, ContentsOfNewest
  PROVE  Whole(Contents(kept), kept,
               past \cup {[pkg |-> s.pkg, ver |-> s.ver, inputs |-> s.inputs] : s \in kept})
<1> DEFINE had == past \cup {[pkg |-> s.pkg, ver |-> s.ver, inputs |-> s.inputs] : s \in kept}
<1>1. Newest(kept) = Newest(merged) /\ kept \subseteq merged
  BY NewestStays DEF Merging
<1>2. ASSUME NEW b \in new PROVE \E m \in kept : Same(b, m) /\ m.inputs = b.inputs
  <2>1. PICK m \in merged : Same(b, m) /\ m.inputs = b.inputs
    BY DEF Adding
  <2>2. PICK d \in debs : Same(d, b)
    BY DEF Adding
  <2>3. m \in Roots(merged, day - Keep, debs)
    BY <2>1, <2>2 DEF Roots, Same
  <2> QED BY <2>1, <2>3 DEF Expiring
<1>3. ASSUME NEW s \in Newest(kept), Plainly(s)
      PROVE  {c \in Contents(kept) : c[2] = s.pkg} = Owned({s})
  <2>1. CASE s \in Newest(index) /\ \A b \in new : b.pkg # s.pkg
    <3>1. s \in kept
      BY DEF Newest
    <3>2. {c \in Contents(kept) : c[2] = s.pkg} = Listed(s.pkg)
      BY <2>1, <3>1, ListedOld
    <3>3. Listed(s.pkg) = Owned({s})
      BY <1>3, <2>1 DEF ContentsOfNewest, Plainly
    <3> QED BY <3>2, <3>3
  <2>2. CASE \E b \in new : Same(b, s) /\ b.inputs = s.inputs
    <3>1. PICK b \in new : b.pkg = s.pkg /\ b.inputs = s.inputs
      BY <2>2 DEF Same
    <3>2. {c \in Contents(kept) : c[2] = b.pkg} = Owned({b})
      BY ListedNew
    <3>3. Owned({b}) = Owned({s})
      BY <3>1, OwnedAlike
    <3> QED BY <3>1, <3>2, <3>3
  <2>3. s \in Newest(merged)
    BY <1>1
  <2> QED BY <1>3, <2>1, <2>2, <2>3, OldOrNew
<1>4. ASSUME NEW s \in kept
      PROVE  \E t \in had : t.pkg = s.pkg /\ {c \in Contents(kept) : c[2] = s.pkg} = Owned({t})
  <2>1. ASSUME NEW b \in new, b.pkg = s.pkg
        PROVE  \E t \in had : t.pkg = s.pkg /\ {c \in Contents(kept) : c[2] = s.pkg} = Owned({t})
    <3>1. PICK m \in kept : Same(b, m) /\ m.inputs = b.inputs
      BY <1>2
    <3> DEFINE t == [pkg |-> m.pkg, ver |-> m.ver, inputs |-> m.inputs]
    <3>2. t \in had /\ t.pkg = b.pkg /\ t.inputs = b.inputs
      BY <3>1 DEF Same
    <3> HIDE DEF t, had
    <3>3. Owned({b}) = Owned({t})
      BY <3>2, OwnedAlike
    <3>4. {c \in Contents(kept) : c[2] = b.pkg} = Owned({b})
      BY ListedNew
    <3> QED BY <2>1, <3>2, <3>3, <3>4
  <2>2. CASE \A b \in new : b.pkg # s.pkg
    <3>1. s \in index
      BY <1>1, <2>2 DEF Adding, Same
    <3>2. PICK t \in past : t.pkg = s.pkg /\ Listed(s.pkg) = Owned({t})
      BY <3>1 DEF ContentsOfNewest
    <3>3. {c \in Contents(kept) : c[2] = s.pkg} = Listed(s.pkg)
      BY <2>2, ListedOld
    <3> QED BY <3>2, <3>3
  <2> HIDE DEF had
  <2> QED BY <2>1, <2>2
<1>5. ASSUME NEW c \in Contents(kept) PROVE \E s \in kept : s.pkg = c[2]
  <2>1. CASE c \in Owned(new)
    <3>1. PICK b \in new : \E path \in Paths(b) : c = <<path, b.pkg>>
      BY <2>1, OwnedIs
    <3>2. c[2] = b.pkg
      BY <3>1
    <3> QED BY <1>2, <3>2 DEF Same
  <2> QED BY <2>1 DEF Contents
<1> QED BY <1>3, <1>4, <1>5 DEF Whole

LEMMA OwnersInit == Init => OwnersInv
<1> SUFFICES ASSUME Init PROVE OwnersInv
  OBVIOUS
<1>1. index = {} /\ contents = {} /\ stage # "expire"
  BY DEF Init
<1>2. Newest({}) = {}
  BY DEF Newest
<1> QED BY <1>1, <1>2 DEF OwnersInv, ContentsOfNewest

LEMMA OwnersStep == CatalogInv /\ WindowInv /\ OwnersInv /\ [Next]_vars => OwnersInv'
<1> SUFFICES ASSUME CatalogInv, WindowInv, OwnersInv, [Next]_vars PROVE OwnersInv'
  OBVIOUS
<1>1. ContentsOfNewest
  BY DEF OwnersInv
<1>2. CASE Publish
  <2>1. /\ index' = kept /\ contents' = Contents(kept)
        /\ past' = past \cup {[pkg |-> s.pkg, ver |-> s.ver, inputs |-> s.inputs] : s \in kept}
        /\ stage = "expire" /\ stage' # "expire"
    BY <1>2 DEF Publish
  <2>2. Merging /\ Expiring /\ Adding
    BY <2>1 DEF CatalogInv, WindowInv, OwnersInv
  <2>3. Whole(Contents(kept), kept,
              past \cup {[pkg |-> s.pkg, ver |-> s.ver, inputs |-> s.inputs] : s \in kept})
    BY <1>1, <2>2, PublishOwners
  <2>4. Whole(contents', index', past')
    BY <2>1, <2>3
  <2>5. ContentsOfNewest'
    BY <2>4, WholeIsNext DEF Whole, Newest, Newer, Older, Released, Plainly, Owned, Paths
  <2> QED BY <2>1, <2>5 DEF OwnersInv
<1>3. ASSUME index' = index, contents' = contents, past' = past PROVE ContentsOfNewest'
  BY <1>1, <1>3 DEF ContentsOfNewest, Listed, Owned, Paths, Newest, Newer, Older, Released
<1>4. ASSUME index' = index, merged' = merged, new' = new, debs' = debs, Adding, Noticing
      PROVE  Adding' /\ Noticing'
  <2>1. Adding'
    BY <1>4 DEF Adding, Same, Older
  <2>2. ASSUME NEW m PROVE Noticed(m)' <=> Noticed(m)
    BY <1>4 DEF Noticed, Newest, Newer, Older, Released, Plainly, Overlap, Apart, Paths,
                Announced, Same
  <2>3. Noticing'
    BY <1>4, <2>2 DEF Noticing
  <2> QED BY <2>1, <2>3
<1>5. CASE Pass
  BY <1>3, <1>5 DEF Pass, repo, OwnersInv
<1>6. CASE Grow
  BY <1>3, <1>4, <1>6 DEF Grow, repo, OwnersInv
<1>7. ASSUME NEW wanted \in UNION Histories, Assemble(wanted) PROVE OwnersInv'
  <2>1. Adding' /\ Noticing'
    BY <1>1, <1>7, HistoriesAreOfTrees, AssembleAdding, AssembleNotices
  <2>2. index' = index /\ contents' = contents /\ past' = past
    BY <1>7 DEF Assemble, repo
  <2> QED BY <1>3, <2>1, <2>2 DEF OwnersInv
<1>8. ASSUME NEW wanted \in UNION Histories, Reissue(wanted) PROVE OwnersInv'
  <2>1. index' = index /\ contents' = contents /\ past' = past /\ stage' # "expire"
    BY <1>8 DEF Reissue
  <2> QED BY <1>3, <2>1 DEF OwnersInv
<1>9. CASE UNCHANGED vars
  BY <1>3, <1>4, <1>9 DEF vars, OwnersInv
<1> QED BY <1>2, <1>5, <1>6, <1>7, <1>8, <1>9 DEF Next

LEMMA AlwaysOwners == Spec => [](CatalogInv /\ WindowInv /\ OwnersInv)
BY OwnersInit, OwnersStep, AlwaysWindow, PTL DEF Spec

\* The guard compares with what each plain package's newest deb ships, and of a
\* kernel's with what one deb of it ships, never with what is of two or of none,
\* through every merge, copy and expiry (release/expire.py, contents).
THEOREM ContentsFollow == Spec => []ContentsOfNewest
<1>1. OwnersInv => ContentsOfNewest
  BY DEF OwnersInv
<1> QED BY <1>1, AlwaysOwners, PTL

\* If no release skips the guard, what one adds announced every path it takes from
\* a plain package's newest deb, but between two boards (release/guard.sh).
THEOREM UpgradesNeverStop == ASSUME Guarded PROVE Spec => UpgradesUnpack
<1>1. CatalogInv /\ WindowInv /\ OwnersInv /\ [Next]_vars =>
        [\A s \in Newest(index), t \in index' \ index :
           /\ s.pkg.of \in Plain
           /\ s.pkg # t.pkg /\ ~ Apart(s.pkg, t.pkg)
           /\ Paths(s) \cap Paths(t) # {}
           => s.pkg \in Announced(t)]_vars
  <2> SUFFICES ASSUME CatalogInv, WindowInv, OwnersInv, [Next]_vars,
                      NEW s \in Newest(index), NEW t \in index' \ index,
                      s.pkg.of \in Plain, s.pkg # t.pkg, ~ Apart(s.pkg, t.pkg),
                      Paths(s) \cap Paths(t) # {}
               PROVE  s.pkg \in Announced(t)
    OBVIOUS
  <2>1. Publish
    <3>1. ASSUME ~ Publish PROVE index' = index
      BY <3>1 DEF Next, Pass, Grow, Assemble, Reissue, repo, vars
    <3> QED BY <3>1
  <2>2. index' = kept /\ Merging /\ Noticing
    BY <2>1 DEF Publish, CatalogInv, OwnersInv
  <2>3. Noticed(t)
    BY <2>2 DEF Merging, Noticing
  <2>4. Plainly(s) /\ Overlap(s, t)
    BY DEF Plainly, Overlap
  <2> QED BY <2>3, <2>4 DEF Noticed
<1> QED BY <1>1, AlwaysOwners, PTL DEF Spec, UpgradesUnpack

-----------------------------------------------------------------------------
(* Names, while no kernel's upstream goes back.                            *)

Name(s) == [pkg |-> s.pkg, ver |-> s.ver, inputs |-> s.inputs]
Upto(v, g) == v.up <= UpstreamOf(g, tree[g])

\* What a release under way adds is newer than all its group ever had.
Naming ==
  /\ \A m \in merged : Upto(m.ver, m.pkg.of)
  /\ \A m \in merged : m \in index \/ \A n \in past : n.pkg.of = m.pkg.of => Older(n.ver, m.ver)

\* No group has had a version newer than the newest it has, nor an upstream
\* beyond its tree's.
NamesInv ==
  /\ tree \in Tree
  /\ past \subseteq [pkg : Package, ver : Version, inputs : Inputs]
  /\ \A s \in index : Name(s) \in past
  /\ NamesKeepInputs
  /\ \A n \in past : \E s \in index : s.pkg = Main(n.pkg.of) /\ ~ Older(s.ver, n.ver)
  /\ \A n \in past : Upto(n.ver, n.pkg.of)
  /\ stage = "expire" => Naming

LEMMA UpstreamsGrow ==
  ASSUME Forward, NEW wanted \in Tree, Moves(wanted), tree \in Tree, NEW g \in Group,
         NEW v \in Version, Upto(v, g)
  PROVE  Upto(v, g)'
<1>1. tree' = wanted /\ UpstreamOf(g, tree[g]) <= UpstreamOf(g, wanted[g])
  BY DEF Moves, UpstreamOf
<1>2. UpstreamOf(g, tree[g]) \in Nat /\ UpstreamOf(g, wanted[g]) \in Nat
  BY KernelsAreVersioned DEF UpstreamOf, Tree
<1>3. v.up \in Nat
  BY DEF Version
<1>4. UpstreamOf(g, tree[g])' = UpstreamOf(g, wanted[g])
  BY <1>1 DEF UpstreamOf
<1>5. v.up <= UpstreamOf(g, tree[g])
  BY DEF Upto
<1>6. v.up <= UpstreamOf(g, wanted[g])
  BY <1>1, <1>2, <1>3, <1>5
<1> QED BY <1>4, <1>6 DEF Upto

LEMMA AssembleNames ==
  ASSUME Forward, CatalogInv, NamesInv, NEW wanted \in Tree, Assemble(wanted)
  PROVE  Naming'
<1>1. /\ index' = index /\ past' = past /\ tree' = wanted /\ Moves(wanted)
  BY DEF Assemble, Moves, repo
<1>2. /\ Fine(index) /\ WithMeta(index) /\ Dated(index) /\ day \in Nat
      /\ index \subseteq Stanza /\ Bounded(index)
  BY DEF CatalogInv, Fine
<1>3. merged' = index \cup {Dating(b) : b \in BuiltFrom(wanted)}
  BY <1>2, AssembleAdds
<1>4. \A b \in BuiltFrom(wanted) :
        /\ Dating(b).pkg = b.pkg /\ Dating(b).ver = b.ver
        /\ b.pkg.of \in Group /\ b.ver \in Version
        /\ b.ver.up = UpstreamOf(b.pkg.of, wanted[b.pkg.of])
  BY <1>2, DatedDebs, BuiltDebs, NewVersions DEF Stanza
<1>5. ASSUME NEW s \in index PROVE Upto(s.ver, s.pkg.of) /\ Upto(s.ver, s.pkg.of)'
  <2>1. s.pkg.of \in Group /\ s.ver \in Version
    BY <1>2 DEF Stanza, Package
  <2>2. Name(s) \in past /\ Name(s).ver = s.ver /\ Name(s).pkg = s.pkg
    BY DEF NamesInv, Name
  <2>3. Upto(Name(s).ver, Name(s).pkg.of)
    BY <2>2 DEF NamesInv
  <2>4. Upto(s.ver, s.pkg.of)
    BY <2>2, <2>3
  <2>5. tree \in Tree
    BY DEF NamesInv
  <2>6. \A g \in Group, v \in Version : Upto(v, g) => Upto(v, g)'
    BY <1>1, <2>5, UpstreamsGrow
  <2>7. Upto(s.ver, s.pkg.of)'
    <3> DEFINE g == s.pkg.of
    <3> DEFINE v == s.ver
    <3>1. g' = g /\ v' = v /\ g \in Group /\ v \in Version /\ Upto(v, g)
      BY <2>1, <2>4
    <3>2. Upto(v, g)'
      BY <2>6, <3>1
    <3> QED BY <3>2
  <2> QED BY <2>4, <2>7
<1>6. ASSUME NEW b \in BuiltFrom(wanted), NEW n \in past, n.pkg.of = b.pkg.of
      PROVE  Older(n.ver, b.ver)
  <2> DEFINE g == b.pkg.of
  <2> DEFINE u == UpstreamOf(g, tree[g])
  <2>1. PICK s \in index : s.pkg = Main(g) /\ ~ Older(s.ver, n.ver)
    BY <1>6 DEF NamesInv
  <2>2. s.pkg.of = g
    BY <2>1 DEF Main
  <2>3. s.ver.up <= u /\ n.ver.up <= u
    BY <1>5, <1>6, <2>2 DEF NamesInv, Upto
  <2>4. u \in Nat /\ u <= b.ver.up
    <3>1. u \in Nat /\ UpstreamOf(g, wanted[g]) \in Nat
      BY <1>4, KernelsAreVersioned DEF UpstreamOf, Tree, NamesInv
    <3>2. u <= UpstreamOf(g, wanted[g])
      BY <1>1, <1>4 DEF Moves, UpstreamOf
    <3> QED BY <1>4, <3>1, <3>2
  <2>5. s.ver.up = b.ver.up => s.ver.rev < b.ver.rev
    BY <1>2, <2>2, NewVersions
  <2>6. /\ s.ver.up \in Nat /\ s.ver.rev \in Nat
        /\ n.ver.up \in Nat /\ n.ver.rev \in Nat
        /\ b.ver.up \in Nat /\ b.ver.rev \in Nat
    BY <1>2, <1>4 DEF Stanza, Version, NamesInv
  <2> HIDE DEF u, g
  <2> QED BY <2>1, <2>3, <2>4, <2>5, <2>6 DEF Older
<1>7. \A b \in BuiltFrom(wanted) : Upto(b.ver, b.pkg.of)'
  <2>1. ASSUME NEW b \in BuiltFrom(wanted) PROVE b.ver.up <= UpstreamOf(b.pkg.of, wanted[b.pkg.of])
    <3>1. b.ver.up \in Nat /\ b.ver.up = UpstreamOf(b.pkg.of, wanted[b.pkg.of])
      BY <1>4 DEF Version
    <3> QED BY <3>1
  <2> QED BY <1>1, <2>1 DEF Upto, UpstreamOf
<1>8. \A m \in merged' : Upto(m.ver, m.pkg.of)'
  BY <1>3, <1>4, <1>5, <1>7 DEF Upto, UpstreamOf
<1>9. \A m \in merged' : m \in index' \/ \A n \in past' : n.pkg.of = m.pkg.of => Older(n.ver, m.ver)
  BY <1>1, <1>3, <1>4, <1>6
<1> QED BY <1>8, <1>9 DEF Naming, Upto, UpstreamOf, Older

LEMMA PublishNames ==
  ASSUME CatalogInv, WindowInv, NamesInv, Publish
  PROVE  NamesInv'
<1>1. /\ index' = kept /\ tree' = tree /\ stage = "expire" /\ stage' # "expire"
      /\ past' = past \cup {Name(s) : s \in kept}
  BY DEF Publish, Name
<1>2. Merging /\ Expiring /\ Naming
  BY <1>1 DEF CatalogInv, WindowInv, NamesInv
<1>3. /\ kept \subseteq merged /\ merged \subseteq Stanza /\ Fine(merged)
      /\ index \subseteq merged /\ WithMeta(kept)
      /\ \A s \in merged : Shape(s)
      /\ \A s, t \in merged : Same(s, t) => s = t
  BY <1>2 DEF Merging, Fine, Unique
<1>4. \A s : Name(s).pkg = s.pkg /\ Name(s).ver = s.ver /\ Name(s).inputs = s.inputs
  BY DEF Name
<1>5. \A s \in kept : Name(s) \in [pkg : Package, ver : Version, inputs : Inputs]
  BY <1>3 DEF Stanza, Name
<1>6. past' \subseteq [pkg : Package, ver : Version, inputs : Inputs]
  BY <1>1, <1>5 DEF NamesInv
\* A deb that was not published is newer than any that had its package's group.
<1>7. ASSUME NEW a \in past, NEW m \in kept, a.pkg = m.pkg, a.ver = m.ver
      PROVE  a.inputs = m.inputs
  <2>1. CASE m \in index
    <3>1. Name(m) \in past
      BY <2>1 DEF NamesInv
    <3> QED BY <1>4, <1>7, <3>1 DEF NamesInv, NamesKeepInputs, Same
  <2>2. CASE m \notin index
    <3>1. Older(a.ver, m.ver)
      BY <1>2, <1>3, <1>7, <2>2 DEF Naming
    <3>2. m.ver \in Version
      BY <1>3 DEF Stanza
    <3> QED BY <1>7, <3>1, <3>2, OlderIsAnOrder
  <2> QED BY <2>1, <2>2
<1>8. NamesKeepInputs'
  <2> SUFFICES ASSUME NEW a \in past', NEW b \in past', a.pkg = b.pkg, a.ver = b.ver
               PROVE  a.inputs = b.inputs
    BY DEF NamesKeepInputs, Same
  <2>1. CASE a \in past /\ b \in past
    BY <2>1 DEF NamesInv, NamesKeepInputs, Same
  <2>2. CASE a \in past /\ b \notin past
    <3>1. PICK m \in kept : b = Name(m)
      BY <1>1, <2>2
    <3> QED BY <1>4, <1>7, <2>2, <3>1
  <2>3. CASE a \notin past /\ b \in past
    <3>1. PICK m \in kept : a = Name(m)
      BY <1>1, <2>3
    <3>2. b.pkg = m.pkg /\ b.ver = m.ver /\ a.inputs = m.inputs
      BY <1>4, <3>1
    <3> QED BY <1>7, <2>3, <3>2
  <2>4. CASE a \notin past /\ b \notin past
    <3>1. PICK l \in kept, m \in kept : a = Name(l) /\ b = Name(m)
      BY <1>1, <2>4
    <3>2. Same(l, m)
      BY <1>4, <3>1 DEF Same
    <3> QED BY <1>3, <3>1, <3>2
  <2> QED BY <2>1, <2>2, <2>3, <2>4
<1>9. ASSUME NEW n \in past
      PROVE  \E s \in kept : s.pkg = Main(n.pkg.of) /\ ~ Older(s.ver, n.ver)
  <2>1. PICK s \in index : s.pkg = Main(n.pkg.of) /\ ~ Older(s.ver, n.ver)
    BY DEF NamesInv
  <2>2. PICK t \in merged : t.pkg = s.pkg /\ ~ Older(t.ver, s.ver) /\ Newer(merged, t) = {}
    BY <1>3, HasNewest
  <2>3. t \in kept
    <3>1. ~ Released(t)
      BY <2>1, <2>2 DEF Released, Main
    <3> QED BY <1>2, <2>2, <3>1, NewestIsKept
  <2>4. s.ver \in Version /\ t.ver \in Version /\ n.ver \in Version
    BY <1>3 DEF Stanza, NamesInv
  <2>5. ~ Older(t.ver, n.ver)
    BY <2>1, <2>2, <2>4, OlderIsAnOrder
  <2> QED BY <2>1, <2>2, <2>3, <2>5
<1>10. ASSUME NEW m \in kept
       PROVE  \E s \in kept : s.pkg = Main(m.pkg.of) /\ ~ Older(s.ver, m.ver)
  <2>1. m.ver \in Version
    BY <1>3 DEF Stanza
  <2>2. PICK s \in kept : s.pkg = Main(m.pkg.of) /\ s.ver = m.ver
    BY <1>3 DEF WithMeta, Shape
  <2> QED BY <2>1, <2>2, OlderIsAnOrder
<1>11. \A n \in past' : \E s \in kept : s.pkg = Main(n.pkg.of) /\ ~ Older(s.ver, n.ver)
  BY <1>1, <1>4, <1>9, <1>10
<1>12. \A n \in past' : Upto(n.ver, n.pkg.of)
  BY <1>1, <1>2, <1>3, <1>4 DEF NamesInv, Naming
<1>13. \A s \in kept : Name(s) \in past'
  BY <1>1
<1> QED BY <1>1, <1>6, <1>8, <1>11, <1>12, <1>13 DEF NamesInv, Upto, UpstreamOf, Older, Name

LEMMA NamesInit == Init => NamesInv
<1> SUFFICES ASSUME Init PROVE NamesInv
  OBVIOUS
<1>1. past = {} /\ index = {} /\ stage # "expire" /\ tree \in Tree
  BY HistoriesAreOfTrees DEF Init
<1> QED BY <1>1 DEF NamesInv, NamesKeepInputs

LEMMA NamesStep ==
  ASSUME Forward
  PROVE  CatalogInv /\ WindowInv /\ NamesInv /\ [Next]_vars => NamesInv'
<1> SUFFICES ASSUME CatalogInv, WindowInv, NamesInv, [Next]_vars PROVE NamesInv'
  OBVIOUS
<1>1. CASE Publish
  BY <1>1, PublishNames
<1>2. ASSUME index' = index, past' = past, tree' \in Tree, stage' = "expire" => Naming',
             \A n \in past : Upto(n.ver, n.pkg.of)'
      PROVE  NamesInv'
  <2>1. /\ past \subseteq [pkg : Package, ver : Version, inputs : Inputs]
        /\ \A s \in index : Name(s) \in past
        /\ NamesKeepInputs
        /\ \A n \in past : \E s \in index : s.pkg = Main(n.pkg.of) /\ ~ Older(s.ver, n.ver)
    BY DEF NamesInv
  <2>2. NamesKeepInputs'
    BY <1>2, <2>1 DEF NamesKeepInputs, Same
  <2> QED BY <1>2, <2>1, <2>2 DEF NamesInv, Older, Name
<1>3. ASSUME tree' = tree PROVE /\ tree' \in Tree
                                /\ \A n \in past : Upto(n.ver, n.pkg.of)'
  BY <1>3 DEF NamesInv, Upto, UpstreamOf
<1>4. ASSUME NEW wanted \in Tree, Moves(wanted)
      PROVE  tree' \in Tree /\ \A n \in past : Upto(n.ver, n.pkg.of)'
  <2>1. tree' = wanted /\ tree \in Tree
    BY <1>4 DEF Moves, NamesInv
  <2>2. \A g \in Group, v \in Version : Upto(v, g) => Upto(v, g)'
    BY <1>4, <2>1, UpstreamsGrow
  <2>3. ASSUME NEW n \in past PROVE Upto(n.ver, n.pkg.of)'
    <3>1. n.pkg.of \in Group /\ n.ver \in Version /\ Upto(n.ver, n.pkg.of)
      BY DEF NamesInv, Package
    <3> QED BY <2>2, <3>1
  <2> QED BY <2>1, <2>3
<1>5. ASSUME index' = index, past' = past, tree' = tree, merged' = merged
      PROVE  Naming => Naming'
  BY <1>5 DEF Naming, Upto, UpstreamOf, Older
<1>6. CASE Pass
  BY <1>2, <1>3, <1>6 DEF Pass, repo
<1>7. CASE Grow
  BY <1>2, <1>3, <1>5, <1>7 DEF Grow, repo, NamesInv
<1>8. ASSUME NEW wanted \in UNION Histories, Assemble(wanted) PROVE NamesInv'
  <2>1. wanted \in Tree /\ Moves(wanted) /\ index' = index /\ past' = past
    BY <1>8, HistoriesAreOfTrees DEF Assemble, repo
  <2>2. Naming'
    BY <1>8, <2>1, AssembleNames
  <2> QED BY <1>2, <1>4, <2>1, <2>2
<1>9. ASSUME NEW wanted \in UNION Histories, Reissue(wanted) PROVE NamesInv'
  <2>1. /\ wanted \in Tree /\ Moves(wanted) /\ index' = index /\ past' = past
        /\ stage' # "expire"
    BY <1>9, HistoriesAreOfTrees DEF Reissue
  <2> QED BY <1>2, <1>4, <2>1
<1>10. CASE UNCHANGED vars
  BY <1>2, <1>3, <1>5, <1>10 DEF vars, NamesInv
<1> QED BY <1>1, <1>6, <1>7, <1>8, <1>9, <1>10 DEF Next

LEMMA AlwaysNames ==
  ASSUME Forward
  PROVE  Spec => [](CatalogInv /\ WindowInv /\ NamesInv)
<1>1. CatalogInv /\ WindowInv /\ NamesInv /\ [Next]_vars => NamesInv'
  BY NamesStep
<1> QED BY <1>1, NamesInit, AlwaysWindow, PTL DEF Spec

\* While no kernel's upstream goes back, a name once indexed never stands for a
\* build of other inputs, though revisions are counted from what is still
\* published only (release/plan.sh, version).
THEOREM NamesAreKept == ASSUME Forward PROVE Spec => []NamesKeepInputs
<1>1. NamesInv => NamesKeepInputs
  BY DEF NamesInv
<1>2. Spec => [](CatalogInv /\ WindowInv /\ NamesInv)
  BY AlwaysNames
<1> QED BY <1>1, <1>2, PTL

-----------------------------------------------------------------------------
(* The old go, while no kernel's upstream goes back.                       *)

\* A version still indexed has its first replacement of no later than the day it
\* was replaced, or of before the window: that day's may have expired first, but
\* then so may what came after it.
SoonReplaced(n) ==
  \A s \in index : n.till # 0 /\ Same(s, n) =>
    \A t \in Replacing(index, s) : t.day <= n.till \/ t.day < day - Keep

OldInv ==
  /\ \A n \in newestTill : \E p \in past : Same(p, n)
  /\ \A n \in newestTill : SoonReplaced(n)

\* What an index adds while it merges comes after all it had, so what replaced
\* a version stays what it was.
LEMMA FirstStays ==
  ASSUME Merging, Naming, \A s \in index : Name(s) \in past,
         NEW s \in merged, Newer(index, s) # {}
  PROVE  Replacing(merged, s) \subseteq Replacing(index, s)
<1> SUFFICES ASSUME NEW t \in Replacing(merged, s) PROVE t \in Replacing(index, s)
  OBVIOUS
<1>1. /\ index \subseteq merged /\ merged \subseteq Stanza
      /\ t \in Newer(merged, s) /\ \A u \in Newer(merged, s) : ~ Older(u.ver, t.ver)
  BY DEF Merging, Fine, Replacing
<1>2. t \in merged /\ t.pkg = s.pkg
  BY <1>1 DEF Newer
<1>3. PICK x \in Newer(index, s) : TRUE
  OBVIOUS
<1>4. x \in index /\ x.pkg = s.pkg /\ x \in Newer(merged, s)
  BY <1>1 DEF Newer
<1>5. t \in index
  <2>1. CASE t \notin index
    <3>1. Name(x) \in past /\ Name(x).pkg = x.pkg /\ Name(x).ver = x.ver
      BY <1>4 DEF Name
    <3>2. Older(x.ver, t.ver)
      BY <1>2, <1>4, <2>1, <3>1 DEF Naming
    <3> QED BY <1>1, <1>4, <3>2
  <2> QED BY <2>1
<1>6. t \in Newer(index, s) /\ Newer(index, s) \subseteq Newer(merged, s)
  BY <1>1, <1>5 DEF Newer
<1> QED BY <1>1, <1>6 DEF Replacing

\* If what replaced s goes, what then replaces it in what is kept had replaced
\* the last of those that go, and is of before the window.
LEMMA NextReplacement ==
  ASSUME Merging, Expiring, day \in Nat, NEW s \in merged, ~ Released(s),
         NEW u \in Replacing(kept, s), u \notin Replacing(merged, s)
  PROVE  u.day < day - Keep
<1>1. /\ kept \subseteq merged /\ merged \subseteq Stanza /\ Fine(merged)
      /\ \A x, y \in merged : Same(x, y) => x = y
  BY DEF Merging, Fine, Unique
<1>2. u \in kept /\ u.pkg = s.pkg /\ Older(s.ver, u.ver)
      /\ \A x \in Newer(kept, s) : ~ Older(x.ver, u.ver)
  BY DEF Replacing, Newer
<1> DEFINE T == {x \in Newer(merged, s) : Older(x.ver, u.ver)}
<1>3. T # {}
  <2>1. u \in Newer(merged, s)
    BY <1>1, <1>2 DEF Newer
  <2> QED BY <2>1 DEF Replacing
<1>4. PICK w \in T : \A x \in T : ~ Older(w.ver, x.ver)
  <2>1. s.pkg.of \in Group
    BY <1>1 DEF Stanza, Package
  <2>2. T \subseteq merged /\ \A x \in T : x.pkg.of = s.pkg.of
    BY DEF Newer
  <2> HIDE DEF T
  <2> QED BY <1>1, <1>3, <2>1, <2>2, LastOfGroup
<1>5. w \in merged /\ w.pkg = s.pkg /\ Older(s.ver, w.ver) /\ Older(w.ver, u.ver)
  BY <1>4 DEF Newer
<1>6. w \notin kept
  <2>1. w \in kept => w \in Newer(kept, s)
    BY <1>5 DEF Newer
  <2> QED BY <1>2, <1>5, <2>1
<1>7. u \in Replacing(merged, w)
  <2>1. u \in Newer(merged, w)
    BY <1>1, <1>2, <1>5 DEF Newer
  <2>2. ASSUME NEW x \in Newer(merged, w), Older(x.ver, u.ver) PROVE FALSE
    <3>1. x \in merged /\ x.pkg = s.pkg /\ Older(w.ver, x.ver)
      BY <1>5 DEF Newer
    <3>2. s.ver \in Version /\ w.ver \in Version /\ x.ver \in Version
      BY <1>1, <1>5, <3>1 DEF Stanza
    <3>3. Older(s.ver, x.ver)
      BY <1>5, <3>1, <3>2, OlderIsAnOrder
    <3>4. x \in T
      BY <2>2, <3>1, <3>3 DEF Newer
    <3> QED BY <1>4, <3>1, <3>4
  <2> QED BY <2>1, <2>2 DEF Replacing
<1>8. ~ Released(w)
  BY <1>5 DEF Released
<1>9. ~ u.day >= day - Keep
  <2>1. w \notin Roots(merged, day - Keep, debs)
    BY <1>6 DEF Expiring
  <2> QED BY <1>5, <1>7, <1>8, <2>1 DEF Roots
<1>10. u.day \in Nat
  BY <1>1, <1>2 DEF Stanza
<1>11. day - Keep \in Int
  BY BoundsAreDays
<1> QED BY <1>9, <1>10, <1>11

LEMMA PublishOld ==
  ASSUME CatalogInv, WindowInv, NamesInv, OldInv, Publish
  PROVE  OldInv'
<1>1. /\ index' = kept /\ day' = day /\ newestTill' = NewestTill(kept) /\ stage = "expire"
      /\ past' = past \cup {Name(s) : s \in kept}
  BY DEF Publish, Name
<1>2. Merging /\ Expiring /\ Naming
  BY <1>1 DEF CatalogInv, WindowInv, NamesInv
<1>3. /\ kept \subseteq merged /\ merged \subseteq Stanza /\ index \subseteq merged
      /\ day \in Nat /\ \A s \in index : Name(s) \in past
  BY <1>2 DEF Merging, Fine, CatalogInv, NamesInv
<1>4. \A t \in merged : t.day <= day
  BY <1>2, <1>3 DEF Expiring, WindowInv
<1>5. \A m \in newestTill : m \in [pkg : Package, ver : Version, till : Nat]
  BY DEF WindowInv, Ages
<1>6. ASSUME NEW n \in newestTill'
      PROVE  \/ n.till = 0 /\ \E s \in kept : Same(s, n)
             \/ n.till = day /\ \E m \in newestTill : Same(m, n)
             \/ n \in newestTill
  <2>1. CASE \E s \in Newest(kept) : n = [pkg |-> s.pkg, ver |-> s.ver, till |-> 0]
    BY <2>1 DEF Newest, Same
  <2>2. CASE \E m \in newestTill :
               n = IF m.till = 0 /\ Newer(kept, m) # {} THEN [m EXCEPT !.till = day] ELSE m
    <3>1. PICK m \in newestTill :
            n = IF m.till = 0 /\ Newer(kept, m) # {} THEN [m EXCEPT !.till = day] ELSE m
      BY <2>2
    <3>2. CASE n = [m EXCEPT !.till = day]
      <4>1. n.till = day /\ n.pkg = m.pkg /\ n.ver = m.ver
        BY <1>5, <3>2
      <4> QED BY <4>1 DEF Same
    <3>3. CASE n = m
      BY <3>3
    <3> QED BY <3>1, <3>2, <3>3
  <2> QED BY <1>1, <2>1, <2>2 DEF NewestTill
<1>7. ASSUME NEW n \in newestTill' PROVE \E p \in past' : Same(p, n)
  <2>1. CASE \E s \in kept : Same(s, n)
    <3>1. PICK s \in kept : Same(s, n)
      BY <2>1
    <3>2. Same(Name(s), n)
      BY <3>1 DEF Same, Name
    <3> QED BY <1>1, <3>2
  <2>2. CASE \E m \in newestTill : Same(m, n)
    <3>1. PICK m \in newestTill : Same(m, n)
      BY <2>2
    <3>2. PICK p \in past : Same(p, m)
      BY DEF OldInv
    <3>3. Same(p, n)
      BY <3>1, <3>2 DEF Same
    <3> QED BY <1>1, <3>3
  <2>3. CASE n \in newestTill
    BY <1>1, <2>3 DEF OldInv
  <2> QED BY <1>6, <2>1, <2>2, <2>3
<1>8. ASSUME NEW n \in newestTill', n.till # 0, NEW s \in kept, Same(s, n),
             NEW t \in Replacing(kept, s)
      PROVE  t.day <= n.till \/ t.day < day - Keep
  <2>1. t \in merged /\ s \in merged
    BY <1>3 DEF Replacing, Newer
  <2>2. CASE n.till = day
    BY <1>4, <2>1, <2>2
  <2>3. CASE n \in newestTill
    <3>1. Ages(n)
      BY <2>3 DEF WindowInv
    <3>2. Newer(index, n) # {} /\ n.pkg = Main(n.pkg.of)
      BY <1>8, <3>1 DEF Ages
    <3>3. Newer(index, s) # {} /\ ~ Released(s)
      BY <1>8, <3>2 DEF Newer, Same, Released, Main
    <3>4. s \in index
      <4>1. PICK p \in past : Same(p, n)
        BY <2>3 DEF OldInv
      <4>2. p.pkg = s.pkg /\ p.ver = s.ver /\ s.ver \in Version
        BY <1>3, <1>8, <2>1, <4>1 DEF Same, Stanza
      <4>3. s \notin index => Older(p.ver, s.ver)
        BY <1>2, <2>1, <4>2 DEF Naming
      <4> QED BY <4>2, <4>3, OlderIsAnOrder
    <3>5. CASE t \in Replacing(merged, s)
      <4>1. t \in Replacing(index, s)
        BY <1>2, <1>3, <2>1, <3>3, <3>5, FirstStays
      <4> QED BY <1>8, <2>3, <3>4, <4>1 DEF OldInv, SoonReplaced
    <3>6. CASE t \notin Replacing(merged, s)
      BY <1>2, <1>3, <2>1, <3>3, <3>6, NextReplacement
    <3> QED BY <3>5, <3>6
  <2> QED BY <1>6, <1>8, <2>2, <2>3
<1>9. ASSUME NEW n \in newestTill' PROVE SoonReplaced(n)'
  BY <1>1, <1>8 DEF SoonReplaced, Replacing, Newer, Same, Older
<1> QED BY <1>7, <1>9 DEF OldInv, Same

LEMMA OldInit == Init => OldInv
BY DEF Init, OldInv

LEMMA OldStep == CatalogInv /\ WindowInv /\ NamesInv /\ OldInv /\ [Next]_vars => OldInv'
<1> SUFFICES ASSUME CatalogInv, WindowInv, NamesInv, OldInv, [Next]_vars PROVE OldInv'
  OBVIOUS
<1>1. CASE Publish
  BY <1>1, PublishOld
<1>2. CASE ~ Publish
  <2>1. /\ index' = index /\ newestTill' = newestTill /\ past' = past
        /\ day' = day \/ day' = day + 1
    BY <1>2 DEF Next, Pass, Grow, Assemble, Reissue, repo, vars
  <2>2. day \in Nat /\ Keep \in Nat /\ index \subseteq Stanza
    BY BoundsAreDays DEF CatalogInv, Fine
  <2>3. ASSUME NEW n \in newestTill PROVE SoonReplaced(n)'
    <3>1. ASSUME NEW s \in index, n.till # 0, Same(s, n), NEW t \in Replacing(index, s)
          PROVE  t.day <= n.till \/ t.day < day' - Keep
      <4>1. t.day <= n.till \/ t.day < day - Keep
        BY <3>1 DEF OldInv, SoonReplaced
      <4>2. t.day \in Nat
        BY <2>2 DEF Replacing, Newer, Stanza
      <4> QED BY <2>1, <2>2, <4>1, <4>2
    <3> QED BY <2>1, <3>1 DEF SoonReplaced, Replacing, Newer, Same, Older
  <2> QED BY <2>1, <2>3 DEF OldInv, Same
<1> QED BY <1>1, <1>2

LEMMA AlwaysOld ==
  ASSUME Forward
  PROVE  Spec => [](CatalogInv /\ WindowInv /\ NamesInv /\ OldInv)
<1>1. Spec => [](CatalogInv /\ WindowInv /\ NamesInv)
  BY AlwaysNames
<1> QED BY <1>1, OldInit, OldStep, PTL DEF Spec

\* While no kernel's upstream goes back, a release leaves nothing of what was
\* replaced before the window but what its images are made of
\* (release/expire.py, the roots of expire).
THEOREM OldDebsGo == ASSUME Forward PROVE Spec => OldOnesGo
<1>1. CatalogInv /\ WindowInv /\ NamesInv /\ OldInv /\ [Next]_vars =>
        [index' # index =>
           \A n \in newestTill' : n.till # 0 /\ n.till < day - Keep =>
             \A s \in index' : Same(s, n) => \E d \in shipped' : Same(d, s)]_vars
  <2> SUFFICES ASSUME CatalogInv, WindowInv, NamesInv, OldInv, [Next]_vars, index' # index,
                      NEW n \in newestTill', n.till # 0, n.till < day - Keep,
                      NEW s \in index', Same(s, n)
               PROVE  \E d \in shipped' : Same(d, s)
    OBVIOUS
  <2>1. Publish
    BY DEF Next, Pass, Grow, Assemble, Reissue, repo, vars
  <2>2. index' = kept /\ day' = day /\ shipped' = debs /\ stage = "expire"
    BY <2>1 DEF Publish
  <2>3. Merging /\ Expiring /\ Naming /\ WindowInv' /\ CatalogInv'
    BY <2>2, WindowStep, CatalogStep DEF CatalogInv, WindowInv, NamesInv
  <2>4. OldInv' /\ Ages(n)'
    BY <2>3, OldStep DEF WindowInv
  <2>5. /\ day \in Nat /\ Keep \in Nat /\ n.till \in Nat
        /\ n.pkg = Main(n.pkg.of) /\ Newer(kept, n) # {}
    BY <2>2, <2>4, BoundsAreDays DEF Ages, CatalogInv, Newer, Older
  <2>6. s.pkg = n.pkg /\ s.ver = n.ver /\ ~ Released(s) /\ s \in kept
    BY <2>2, <2>5 DEF Same, Released, Main
  <2>7. s \in merged /\ kept \subseteq merged /\ merged \subseteq Stanza
    BY <2>3, <2>6 DEF Merging, Fine
  <2>8. Newer(merged, s) # {}
    BY <2>5, <2>6, <2>7 DEF Newer
  <2>9. ASSUME NEW t \in Replacing(merged, s) PROVE ~ t.day >= day - Keep
    <3>1. t.day \in Nat
      BY <2>7 DEF Replacing, Newer, Stanza
    <3>2. n \in newestTill
      <4>1. n.till # day
        BY <2>5
      <4>2. CASE \E m \in newestTill :
              n = IF m.till = 0 /\ Newer(kept, m) # {} THEN [m EXCEPT !.till = day] ELSE m
        <5>1. PICK m \in newestTill :
                n = IF m.till = 0 /\ Newer(kept, m) # {} THEN [m EXCEPT !.till = day] ELSE m
          BY <4>2
        <5>2. m \in [pkg : Package, ver : Version, till : Nat]
          BY DEF WindowInv, Ages
        <5>3. n # [m EXCEPT !.till = day]
          BY <4>1, <5>2
        <5> QED BY <5>1, <5>3
      <4>3. n \notin {[pkg |-> x.pkg, ver |-> x.ver, till |-> 0] : x \in Newest(kept)}
        OBVIOUS
      <4> QED BY <2>1, <4>2, <4>3 DEF Publish, NewestTill
    <3>3. Ages(n) /\ SoonReplaced(n)
      BY <3>2 DEF WindowInv, OldInv
    <3>4. Newer(index, s) # {}
      BY <2>6, <3>3 DEF Ages, Newer
    <3>5. \A x \in index : Name(x) \in past
      BY DEF NamesInv
    <3>6. t \in Replacing(index, s)
      BY <2>3, <2>7, <3>4, <3>5, FirstStays
    <3>7. s \in index
      <4>1. PICK p \in past : Same(p, n)
        BY <3>2 DEF OldInv
      <4>2. p.pkg = s.pkg /\ p.ver = s.ver /\ s.ver \in Version
        BY <2>6, <2>7, <4>1 DEF Same, Stanza
      <4>3. s \notin index => Older(p.ver, s.ver)
        BY <2>3, <2>7, <4>2 DEF Naming
      <4> QED BY <4>2, <4>3, OlderIsAnOrder
    <3>8. t.day <= n.till \/ t.day < day - Keep
      BY <3>3, <3>6, <3>7 DEF SoonReplaced
    <3> QED BY <2>5, <3>1, <3>8
  <2>10. s \in Roots(merged, day - Keep, debs)
    BY <2>3, <2>6 DEF Expiring
  <2>11. PICK d \in debs : Same(d, s)
    BY <2>6, <2>8, <2>9, <2>10 DEF Roots
  <2> QED BY <2>2, <2>11
<1>2. Spec => [](CatalogInv /\ WindowInv /\ NamesInv /\ OldInv)
  BY AlwaysOld
<1> QED BY <1>1, <1>2, PTL DEF Spec, OldOnesGo

-----------------------------------------------------------------------------
(* What is published is the answer of one expiry.                          *)

\* Nothing that can go together has been kept.
NoneTooMany ==
  stage = "expire" =>
    \A gone \in SUBSET (merged \ Roots(merged, day - Keep, debs)) :
      Droppable(merged, Roots(merged, day - Keep, debs), gone) => gone \cap kept = {}

LEMMA NoneTooManyStep ==
  CatalogInv /\ WindowInv /\ NoneTooMany /\ [Next]_vars => NoneTooMany'
<1> SUFFICES ASSUME CatalogInv, WindowInv, NoneTooMany, [Next]_vars, stage' = "expire",
                    NEW gone, gone \subseteq (merged \ Roots(merged, day - Keep, debs))',
                    Droppable(merged, Roots(merged, day - Keep, debs), gone)'
             PROVE  gone \cap kept' = {}
  BY DEF NoneTooMany, Droppable
<1>1. CASE Grow
  <2>1. /\ merged' = merged /\ debs' = debs /\ day' = day /\ stage = "expire"
        /\ kept' = kept \cup Wanted(merged, kept)
    BY <1>1 DEF Grow
  <2> DEFINE roots == Roots(merged, day - Keep, debs)
  <2>2. roots' = roots
    BY <2>1
  <2> HIDE DEF roots
  <2>3. gone \subseteq merged \ roots /\ gone \cap Wanted(merged, merged \ gone) = {}
    BY <2>1, <2>2 DEF Droppable, roots
  <2>4. Droppable(merged, roots, gone)
    BY <2>3 DEF Droppable
  <2>5. gone \cap kept = {} /\ kept \subseteq merged
    BY <2>1, <2>3, <2>4 DEF NoneTooMany, CatalogInv, Merging, roots
  <2>6. Wanted(merged, kept) \subseteq Wanted(merged, merged \ gone)
    BY <2>5 DEF Wanted
  <2> QED BY <2>1, <2>3, <2>5, <2>6
<1>2. ASSUME NEW wanted \in UNION Histories, Assemble(wanted) PROVE gone \cap kept' = {}
  <2>1. kept' = Roots(merged', day - Keep, debs') /\ day' = day
    BY <1>2 DEF Assemble
  <2> QED BY <2>1
<1>3. CASE UNCHANGED vars
  BY <1>3 DEF vars, NoneTooMany
<1> QED BY <1>1, <1>2, <1>3 DEF Next, Pass, Publish, Reissue

LEMMA AlwaysNoneTooMany == Spec => [](CatalogInv /\ WindowInv /\ NoneTooMany)
<1>1. Init => NoneTooMany
  BY DEF Init, NoneTooMany
<1> QED BY <1>1, NoneTooManyStep, AlwaysWindow, PTL DEF Spec

\* Each release publishes exactly the least set with the roots that keeps all it
\* wants, of all it merged (release/expire.py, what expire returns is what main
\* writes).
THEOREM PublishesLeast ==
  Spec => [][Publish => index' = Kept(merged, Roots(merged, day - Keep, debs))]_vars
<1>1. CatalogInv /\ WindowInv /\ NoneTooMany /\ Publish =>
        index' = Kept(merged, Roots(merged, day - Keep, debs))
  <2> SUFFICES ASSUME CatalogInv, WindowInv, NoneTooMany, Publish
               PROVE  kept = Kept(merged, Roots(merged, day - Keep, debs))
    BY DEF Publish
  <2> DEFINE roots == Roots(merged, day - Keep, debs)
  <2> DEFINE all == UNION {gone \in SUBSET (merged \ roots) : Droppable(merged, roots, gone)}
  <2>1. stage = "expire" /\ Wanted(merged, kept) \subseteq kept
    BY DEF Publish
  <2>2. /\ roots \subseteq kept /\ kept \subseteq merged
        /\ \A gone \in SUBSET (merged \ roots) :
             Droppable(merged, roots, gone) => gone \cap kept = {}
    BY <2>1 DEF CatalogInv, WindowInv, Merging, Expiring, NoneTooMany
  <2> HIDE DEF roots
  <2>3. merged \ (merged \ kept) = kept
    BY <2>2
  <2>4. Droppable(merged, roots, merged \ kept)
    BY <2>1, <2>2, <2>3 DEF Droppable
  <2>5. merged \ kept \in SUBSET (merged \ roots)
    BY <2>2
  <2>6. all = merged \ kept
    BY <2>2, <2>4, <2>5
  <2>7. Kept(merged, roots) = merged \ all
    BY DEF Kept
  <2> QED BY <2>3, <2>6, <2>7 DEF roots
<1>2. CatalogInv /\ WindowInv /\ NoneTooMany /\ [Next]_vars =>
        [Publish => index' = Kept(merged, Roots(merged, day - Keep, debs))]_vars
  BY <1>1
<1> QED BY <1>2, AlwaysNoneTooMany, PTL DEF Spec
=============================================================================
