------------------------------ MODULE Publish -------------------------------
(***************************************************************************)
(* The release pipeline around the rolling `apt` release on GitHub:        *)
(* release/plan.sh, the assembly in build.sh and release/repo.sh, and      *)
(* release/publish.sh, run by CI (.github/workflows/release.yml) and by a  *)
(* maintainer's Mac. Runs read the repository, build for hours, and then   *)
(* prune, upload, replace the index and prune again, one gh call at a      *)
(* time; each call may be the run's last.                                  *)
(*                                                                         *)
(* A package here is a group of one upstream version: its revisions count  *)
(* up from 1. Index files: `Packages`, and `InRelease`, which stands for   *)
(* the files replaced beside it and signs the `Packages` it was made with. *)
(* An index is the set of debs it names; the empty set is a missing file,  *)
(* as plan.sh reads a 404 (no run publishes an index that names nothing).  *)
(***************************************************************************)
EXTENDS Debs, FiniteSets

CONSTANTS
  CI,        \* workflow runs that publish, each once
  Mac,       \* runs of a maintainer's machine, each once
  Size,      \* Size[b]: the bytes of a deb b built, all verify.py compares
  Whole,     \* gh never stops between deleting a file and uploading the new
  Prompt,    \* a replaced file is served before the next publisher compares,
             \* and before a publisher has polled SERVED_TRIES times
  Answered,  \* the comparison's download of the live index does not fail
  Outlasts   \* a CI run builds longer than the publication it planned beside

Run == CI \cup Mac

ASSUME RunsApart == CI \cap Mac = {}
ASSUME BuildersKnown == Run \subseteq Build
ASSUME EnvironmentChosen ==
  {Whole, Prompt, Answered, Outlasts} \subseteq BOOLEAN

VARIABLES
  assets,   \* the debs hosted as assets of the `apt` release
  hosted,   \* hosted[f]: the index file stored
  served,   \* served[f]: the copy the download URL answers with
  pc,       \* pc[r]: how far the run is
  base,     \* base[r]: Packages.published, what it was planned against
  reused,   \* reused[r]: the published debs it fetched
  fresh,    \* fresh[r]: the debs it builds, of the groups planned `new`
  target,   \* target[r]: build/out/repo/Packages
  todo,     \* todo[r]: the debs its loop has still to delete or upload
  files,    \* files[r]: the index files it has still to replace
  waits,    \* waits[r]: the publications under way when it planned
  last,     \* auxiliary: the last `Packages` stored
  past      \* auxiliary: every deb a stored `Packages` named

repo == <<assets, hosted, served, last, past>>
work == <<base, reused, fresh, target, todo, files, waits>>
vars == <<assets, hosted, served, pc, base, reused, fresh, target, todo,
          files, waits, last, past>>

IndexFile == {"Packages", "InRelease"}

\* A publication: from the comparison with the live index to its last call.
Publishing == {"prune", "upload", "index", "verify", "expire"}
Ended == {"done", "failed"}
Stage == {"idle", "planned", "built", "compare"} \cup Publishing \cup Ended

\* `gh run list --status in_progress`, and the state of a run not yet over.
Active(r) == pc[r] \notin {"idle"} \cup Ended

\* Mutant: the first revision is 0, plan.sh:55 without its + 1.
NextRevisionFromZero(index, p) ==
  {v \in {0} \cup {d.ver + 1 : d \in Of(index, p)} :
     \A d \in Of(index, p) : d.ver < v}

\* Mutant: the revision counts what is listed, and what expired is forgotten.
NextRevisionCounting(index, p) == {Cardinality(Of(index, p)) + 1}

\* One past the highest revision published, 1 for a first one.
NextRevision(index, p) ==
  {v \in {1} \cup {d.ver + 1 : d \in Of(index, p)} :
     \A d \in Of(index, p) : d.ver < v}

Revised(index, p, r) ==
  {[pkg |-> p, ver |-> v, build |-> r] : v \in NextRevision(index, p)}

Init ==
  /\ assets = Seed
  /\ hosted = [f \in IndexFile |-> Seed]
  /\ served = [f \in IndexFile |-> Seed]
  /\ pc = [r \in Run |-> "idle"]
  /\ base = [r \in Run |-> {}]
  /\ reused = [r \in Run |-> {}]
  /\ fresh = [r \in Run |-> {}]
  /\ target = [r \in Run |-> {}]
  /\ todo = [r \in Run |-> {}]
  /\ files = [r \in Run |-> {}]
  /\ waits = [r \in Run |-> {}]
  /\ last = Seed
  /\ past = Seed

-----------------------------------------------------------------------------
(* The steps of one run, in the order it takes them.                       *)

Goto(r, stage) == pc' = [pc EXCEPT ![r] = stage]

\* A run ends and leaves nothing but what it did to the repository.
End(r, stage) ==
  /\ Goto(r, stage)
  /\ base' = [base EXCEPT ![r] = {}]
  /\ reused' = [reused EXCEPT ![r] = {}]
  /\ fresh' = [fresh EXCEPT ![r] = {}]
  /\ target' = [target EXCEPT ![r] = {}]
  /\ todo' = [todo EXCEPT ![r] = {}]
  /\ files' = [files EXCEPT ![r] = {}]
  /\ waits' = [q \in Run |-> IF q = r THEN {} ELSE waits[q] \ {r}]

\* The concurrency group of release.yml serialises CI; a machine's runs share
\* its one build/out.
Alone(r) ==
  /\ r \in CI => \A q \in CI : ~ Active(q)
  /\ r \in Mac => \A q \in Mac : ~ Active(q)

\* plan.sh: read the served index; reuse, and fetch, one published deb of each
\* group whose inputs match it, and give every other group its next revision.
Plan(r) ==
  /\ pc[r] = "idle"
  /\ Alone(r)
  /\ LET index == served["Packages"] IN
     \E had \in SUBSET index :
       /\ \A d, e \in had : d.pkg = e.pkg => d = e
       /\ \A d \in had : \E a \in assets : SameName(a, d)
       /\ base' = [base EXCEPT ![r] = index]
       /\ reused' = [reused EXCEPT ![r] = had]
       /\ fresh' = [fresh EXCEPT ![r] =
            UNION {Revised(index, p, r) : p \in Package \ {d.pkg : d \in had}}]
  /\ waits' = [waits EXCEPT ![r] =
       {q \in Run : r \in CI /\ pc[q] \in {"compare"} \cup Publishing}]
  /\ Goto(r, "planned")
  /\ UNCHANGED <<repo, target, todo, files>>

\* Mutant: the newest of a package not shipped may expire.
KeptWithoutNewest(r) ==
  IF fresh[r] = {} THEN {base[r]}
  ELSE {index \in SUBSET (base[r] \cup fresh[r]) :
          reused[r] \cup fresh[r] \subseteq index}

\* What expire.py may keep: every deb this run built or reused, and of what was
\* published anything, as long as no package loses its newest. With nothing
\* new the index is copied as it is.
Kept(r) ==
  IF fresh[r] = {} THEN {base[r]}
  ELSE {index \in SUBSET (base[r] \cup fresh[r]) :
          reused[r] \cup fresh[r] \subseteq index /\ NewestKept(base[r], index)}

\* build.sh assemble: build what is new and merge the index with it.
Assemble(r) ==
  /\ pc[r] = "planned"
  /\ Outlasts => waits[r] = {}
  /\ \E index \in Kept(r) : target' = [target EXCEPT ![r] = index]
  /\ Goto(r, "built")
  /\ UNCHANGED <<repo, base, reused, fresh, todo, files, waits>>

\* Nothing new: the apt release stays as it is.
NothingNew(r) ==
  /\ pc[r] = "built"
  /\ fresh[r] = {}
  /\ End(r, "done")
  /\ UNCHANGED repo

\* Mutant: a Mac does not look for a run in progress.
MayPublishAnyway(r) == r \in Run

\* One publisher at a time: a Mac gives way to a workflow run in progress.
MayPublish(r) == r \in CI \/ \A c \in CI : ~ Active(c)

CheckRuns(r) ==
  /\ pc[r] = "built"
  /\ fresh[r] # {}
  /\ MayPublish(r)
  /\ Goto(r, "compare")
  /\ UNCHANGED <<repo, work>>

\* What `curl $APT/Packages` hands the comparison: the served copy, or nothing
\* after a transfer that failed, which equals a `base` of nothing.
Live ==
  {served["Packages"]} \cup (IF Answered THEN {} ELSE {{}})

\* Mutant: any live index will do.
CompareNothing(r) ==
  /\ pc[r] = "compare"
  /\ Prompt => served = hosted
  /\ todo' = [todo EXCEPT ![r] = Unnamed(assets, base[r])]
  /\ Goto(r, "prune")
  /\ UNCHANGED <<repo, base, reused, fresh, target, files, waits>>

\* Mutant: a failed run's debs are left where they are.
CompareWithoutPrune(r) ==
  /\ pc[r] = "compare"
  /\ Prompt => served = hosted
  /\ base[r] \in Live
  /\ Goto(r, "prune")
  /\ UNCHANGED <<repo, work>>

\* The index planned against must still be the live one; then the assets are
\* listed, and those it does not name are to go.
Compare(r) ==
  /\ pc[r] = "compare"
  /\ Prompt => served = hosted
  /\ base[r] \in Live
  /\ todo' = [todo EXCEPT ![r] = Unnamed(assets, base[r])]
  /\ Goto(r, "prune")
  /\ UNCHANGED <<repo, base, reused, fresh, target, files, waits>>

\* gh release delete-asset, by name, for either of the two prunings.
Delete(r, d) ==
  /\ pc[r] \in {"prune", "expire"}
  /\ d \in todo[r]
  /\ \E a \in assets : SameName(a, d)
  /\ assets' = {a \in assets : ~ SameName(a, d)}
  /\ todo' = [todo EXCEPT ![r] = @ \ {d}]
  /\ UNCHANGED <<hosted, served, last, past, pc, base, reused, fresh, target,
                 files, waits>>

\* The new debs whose names are not yet assets.
ListMissing(r) ==
  /\ pc[r] = "prune"
  /\ todo[r] = {}
  /\ todo' = [todo EXCEPT ![r] =
                {d \in fresh[r] : \A a \in assets : ~ SameName(a, d)}]
  /\ Goto(r, "upload")
  /\ UNCHANGED <<repo, base, reused, fresh, target, files, waits>>

\* gh release upload without --clobber: a name already taken is an error.
Upload(r, d) ==
  /\ pc[r] = "upload"
  /\ d \in todo[r]
  /\ \A a \in assets : ~ SameName(a, d)
  /\ assets' = assets \cup {d}
  /\ todo' = [todo EXCEPT ![r] = @ \ {d}]
  /\ UNCHANGED <<hosted, served, last, past, pc, base, reused, fresh, target,
                 files, waits>>

StartIndex(r) ==
  /\ pc[r] = "upload"
  /\ todo[r] = {}
  /\ files' = [files EXCEPT ![r] = IndexFile]
  /\ Goto(r, "index")
  /\ UNCHANGED <<repo, base, reused, fresh, target, todo, waits>>

\* gh release upload --clobber: a file's old asset is deleted, then the new one
\* is uploaded; the files go in parallel.
Remove(r, f) ==
  /\ pc[r] = "index"
  /\ f \in files[r]
  /\ hosted[f] # {}
  /\ hosted' = [hosted EXCEPT ![f] = {}]
  /\ UNCHANGED <<assets, served, last, past, pc, work>>

Replace(r, f) ==
  /\ pc[r] = "index"
  /\ f \in files[r]
  /\ hosted[f] = {}
  /\ hosted' = [hosted EXCEPT ![f] = target[r]]
  /\ files' = [files EXCEPT ![r] = @ \ {f}]
  /\ IF f = "Packages"
     THEN last' = target[r] /\ past' = past \cup target[r]
     ELSE UNCHANGED <<last, past>>
  /\ UNCHANGED <<assets, served, pc, base, reused, fresh, target, todo, waits>>

\* Mutant: nothing is polled.
AwaitNothing(r) ==
  /\ pc[r] = "index"
  /\ files[r] = {}
  /\ Goto(r, "verify")
  /\ UNCHANGED <<repo, work>>

\* Poll until the served Packages is ours, or SERVED_TRIES times: both go on.
AwaitServed(r) ==
  /\ pc[r] = "index"
  /\ files[r] = {}
  /\ Prompt => served["Packages"] = target[r]
  /\ Goto(r, "verify")
  /\ UNCHANGED <<repo, work>>

\* verify.py: the served Packages is the one InRelease signs, and every deb it
\* names is served at its indexed size.
Readable ==
  /\ served["InRelease"] = served["Packages"]
  /\ \A d \in served["Packages"] :
       \E a \in assets : SameName(a, d) /\ Size[a.build] = Size[d.build]

\* Mutant: what goes last is what the old index does not name.
VerifyByPlan(r) ==
  /\ pc[r] = "verify"
  /\ Readable
  /\ todo' = [todo EXCEPT ![r] = Unnamed(assets, base[r] \cup target[r])]
  /\ Goto(r, "expire")
  /\ UNCHANGED <<repo, base, reused, fresh, target, files, waits>>

\* Only then do the expired debs go, if the new index names any at all.
Verify(r) ==
  /\ pc[r] = "verify"
  /\ Readable
  /\ target[r] # {}
  /\ todo' = [todo EXCEPT ![r] = Unnamed(assets, target[r])]
  /\ Goto(r, "expire")
  /\ UNCHANGED <<repo, base, reused, fresh, target, files, waits>>

Finish(r) ==
  /\ pc[r] = "expire"
  /\ todo[r] = {}
  /\ End(r, "done")
  /\ UNCHANGED repo

\* Mutant: another live index holds a run back and does not end it.
RefuseNoIndex(r) ==
  /\ \/ pc[r] = "built" /\ fresh[r] # {} /\ ~ MayPublish(r)
     \/ pc[r] = "verify" /\ ~ Readable
  /\ End(r, "failed")
  /\ UNCHANGED repo

\* The checks that end a run: another run in progress, another live index, a
\* repository that does not read back.
Refuse(r) ==
  /\ \/ pc[r] = "built" /\ fresh[r] # {} /\ ~ MayPublish(r)
     \/ pc[r] = "compare" /\ (Prompt => served = hosted)
        /\ \E live \in Live : live # base[r]
     \/ pc[r] = "verify" /\ ~ Readable
  /\ End(r, "failed")
  /\ UNCHANGED repo

\* A call that fails, a job timed out or cancelled: `set -e` ends the run there.
Fail(r) ==
  /\ Active(r)
  /\ Whole /\ pc[r] = "index" /\ base[r] # {} =>
       \A f \in files[r] : hosted[f] # {}
  /\ End(r, "failed")
  /\ UNCHANGED repo

\* The download URL catches up with a file stored, removed or replaced.
Refresh(f) ==
  /\ served[f] # hosted[f]
  /\ served' = [served EXCEPT ![f] = hosted[f]]
  /\ UNCHANGED <<assets, hosted, last, past, pc, work>>

Step(r) ==
  \/ Assemble(r) \/ NothingNew(r) \/ CheckRuns(r) \/ Compare(r)
  \/ \E d \in todo[r] : Delete(r, d) \/ Upload(r, d)
  \/ ListMissing(r) \/ StartIndex(r)
  \/ \E f \in IndexFile : Remove(r, f) \/ Replace(r, f)
  \/ AwaitServed(r) \/ Verify(r) \/ Finish(r) \/ Refuse(r)

Next ==
  \/ \E r \in Run : Plan(r) \/ Step(r) \/ Fail(r)
  \/ \E f \in IndexFile : Refresh(f)

Spec == Init /\ [][Next]_vars

\* A run under way is driven by its script, and GitHub does catch up; nothing
\* makes anyone start a run.
FairSpec ==
  /\ Spec
  /\ \A r \in Run : WF_vars(Step(r))
  /\ \A f \in IndexFile : WF_vars(Refresh(f))

-----------------------------------------------------------------------------
TypeOK ==
  /\ assets \subseteq Deb
  /\ hosted \in [IndexFile -> SUBSET Deb]
  /\ served \in [IndexFile -> SUBSET Deb]
  /\ pc \in [Run -> Stage]
  /\ base \in [Run -> SUBSET Deb]
  /\ reused \in [Run -> SUBSET Deb]
  /\ fresh \in [Run -> SUBSET Deb]
  /\ target \in [Run -> SUBSET Deb]
  /\ todo \in [Run -> SUBSET Deb]
  /\ files \in [Run -> SUBSET IndexFile]
  /\ waits \in [Run -> SUBSET Run]
  /\ last \subseteq Deb
  /\ past \subseteq Deb

\* At most one run is between its comparison with the live index and its last
\* deletion (publish.sh:34, "one publisher at a time").
OnePublisher ==
  \A q, r \in Run : pc[q] \in Publishing /\ pc[r] \in Publishing => q = r

\* Every deb the stored Packages names is an asset with the bytes it names, at
\* every moment, whatever runs failed: prune, upload and index in that order.
\* Of runs whose files are served in time (Prompt) and whose comparison gets
\* what is served (Answered).
IndexedDebsHosted == hosted["Packages"] \subseteq assets

\* A box that reads a repository whose InRelease matches its Packages can
\* download everything in it, as long as no run's poll gives up (Prompt) and
\* each comparison gets what is served (Answered): expired debs go only once
\* boxes see the index without them.
ServedDebsHosted ==
  served["InRelease"] = served["Packages"] => served["Packages"] \subseteq assets

\* A name once indexed never comes back with other bytes: a box that has it
\* would never fetch the new ones.
NamesKeepBytes == UniqueNames(past)

\* No package's newest version is ever lower than one a box may already run.
NoBoxAhead == NewestKept(past, last)

\* A publication that reports success leaves exactly the debs its index names,
\* a failed run's strays gone, under index files that match.
SuccessIsExact ==
  [][\A r \in Run :
       pc[r] = "expire" /\ pc'[r] = "done" =>
         /\ hosted'["InRelease"] = hosted'["Packages"]
         /\ assets' = hosted'["Packages"]]_vars

\* Images go out only over a repository a box can read, its InRelease signing
\* its Packages (publish.sh:55, of the read-back: "before any image points boxes
\* at it").
ImagesOverReadableRepo ==
  [][\A r \in Run :
       pc[r] # "done" /\ pc'[r] = "done" /\ served = hosted =>
         served["InRelease"] = served["Packages"]]_vars

\* A run deletes as one planned against nothing only if no index was ever
\* stored (plan.sh:11-12, of the published files: "none only when nothing is
\* published", for otherwise publish.sh deletes everything the run did not
\* build).
NoneOnlyWhenNothingPublished ==
  \A r \in Run : pc[r] = "prune" /\ base[r] = {} => past = {}

\* Every run started ends, by itself or by a failure: no check and no poll
\* waits for something that may never come.
RunsEnd == \A r \in Run : Active(r) ~> pc[r] \in Ended

Repo == INSTANCE AptRepo WITH index <- last, pool <- assets

\* The pipeline, interleaved and interrupted as it may be, is the repository
\* boxes rely on.
ImplementsRepo == Repo!Spec
=============================================================================
