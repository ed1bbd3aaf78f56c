--------------------------- MODULE PublishProofs ----------------------------
(***************************************************************************)
(* Publish, for any number of runs, packages and published debs. What the  *)
(* scripts rely on and do not see to is a hypothesis by name: Outlasts,    *)
(* that a workflow run planned beside a Mac's publication builds longer;   *)
(* Prompt, that files are served before a comparison and before a poll     *)
(* gives up; Answered, that no comparison takes its own failed download    *)
(* for an empty index; Whole, that gh does not stop inside a replacement.  *)
(***************************************************************************)
EXTENDS Publish, TLAPS

-----------------------------------------------------------------------------
(* Types.                                                                  *)

LEMMA SeedIsDebs == Seed \subseteq Deb
BY SeedSound

LEMMA RevisedType ==
  ASSUME NEW index \in SUBSET Deb, NEW p \in Package, NEW r \in Run
  PROVE  Revised(index, p, r) \subseteq Deb
<1>1. NextRevision(index, p) \subseteq Nat \ {0}
  BY DEF NextRevision, Of, Deb
<1>2. r \in Build
  BY BuildersKnown
<1> QED
  BY <1>1, <1>2 DEF Revised, Deb

LEMMA EndType ==
  ASSUME TypeOK, NEW r \in Run, NEW stage \in Ended, End(r, stage)
  PROVE  /\ pc' \in [Run -> Stage]
         /\ base' \in [Run -> SUBSET Deb]
         /\ reused' \in [Run -> SUBSET Deb]
         /\ fresh' \in [Run -> SUBSET Deb]
         /\ target' \in [Run -> SUBSET Deb]
         /\ todo' \in [Run -> SUBSET Deb]
         /\ files' \in [Run -> SUBSET IndexFile]
         /\ waits' \in [Run -> SUBSET Run]
BY DEF TypeOK, End, Goto, Stage

LEMMA PlanType ==
  ASSUME TypeOK, NEW r \in Run, Plan(r)
  PROVE  TypeOK'
<1> DEFINE index == served["Packages"]
<1>1. index \in SUBSET Deb
  BY DEF TypeOK, IndexFile
<1>2. PICK had \in SUBSET index :
        /\ base' = [base EXCEPT ![r] = index]
        /\ reused' = [reused EXCEPT ![r] = had]
        /\ fresh' = [fresh EXCEPT ![r] =
             UNION {Revised(index, p, r) : p \in Package \ {d.pkg : d \in had}}]
  BY Zenon DEF Plan
<1>3. UNION {Revised(index, p, r) : p \in Package \ {d.pkg : d \in had}}
        \in SUBSET Deb
  BY <1>1, RevisedType
<1>4. base' \in [Run -> SUBSET Deb] /\ reused' \in [Run -> SUBSET Deb]
  BY <1>1, <1>2 DEF TypeOK
<1>5. fresh' \in [Run -> SUBSET Deb]
  BY <1>2, <1>3 DEF TypeOK
<1>6. waits' \in [Run -> SUBSET Run]
  BY DEF TypeOK, Plan
<1>7. pc' \in [Run -> Stage]
  BY DEF TypeOK, Plan, Goto, Stage
<1>8. UNCHANGED <<assets, hosted, served, last, past, target, todo, files>>
  BY DEF Plan, repo
<1> QED
  BY <1>4, <1>5, <1>6, <1>7, <1>8 DEF TypeOK

LEMMA StepType ==
  ASSUME TypeOK, NEW r \in Run, Step(r)
  PROVE  TypeOK'
<1> USE DEF TypeOK, repo, work, Goto, Stage, Publishing, Ended
<1>1. CASE Assemble(r)
  BY <1>1 DEF Assemble, Kept
<1>2. CASE NothingNew(r)
  BY <1>2, EndType DEF NothingNew
<1>3. CASE CheckRuns(r)
  BY <1>3 DEF CheckRuns
<1>4. CASE Compare(r)
  BY <1>4 DEF Compare, Unnamed
<1>5. ASSUME NEW d \in todo[r], Delete(r, d)
      PROVE  TypeOK'
  BY <1>5 DEF Delete
<1>6. ASSUME NEW d \in todo[r], Upload(r, d)
      PROVE  TypeOK'
  BY <1>6 DEF Upload
<1>7. CASE ListMissing(r)
  BY <1>7 DEF ListMissing
<1>8. CASE StartIndex(r)
  BY <1>8 DEF StartIndex
<1>9. ASSUME NEW f \in IndexFile, Remove(r, f)
      PROVE  TypeOK'
  BY <1>9 DEF Remove
<1>10. ASSUME NEW f \in IndexFile, Replace(r, f)
       PROVE  TypeOK'
  BY <1>10 DEF Replace
<1>11. CASE AwaitServed(r)
  BY <1>11 DEF AwaitServed
<1>12. CASE Verify(r)
  BY <1>12 DEF Verify, Unnamed
<1>13. CASE Finish(r)
  BY <1>13, EndType DEF Finish
<1>14. CASE Refuse(r)
  BY <1>14, EndType DEF Refuse
<1> QED
  BY <1>1, <1>2, <1>3, <1>4, <1>5, <1>6, <1>7, <1>8, <1>9, <1>10, <1>11,
     <1>12, <1>13, <1>14 DEF Step

\* Every run only ever holds debs, and every stage is one of the scripts'.
THEOREM TypeCorrect == Spec => []TypeOK
<1>1. Init => TypeOK
  BY SeedIsDebs DEF Init, TypeOK, Stage
<1>2. TypeOK /\ [Next]_vars => TypeOK'
  <2> SUFFICES ASSUME TypeOK, [Next]_vars PROVE TypeOK'
    OBVIOUS
  <2>1. ASSUME NEW r \in Run, Fail(r)
        PROVE  TypeOK'
    BY <2>1, EndType DEF Fail, TypeOK, repo, Ended
  <2>2. ASSUME NEW f \in IndexFile, Refresh(f)
        PROVE  TypeOK'
    BY <2>2 DEF Refresh, TypeOK, work
  <2>3. CASE UNCHANGED vars
    BY <2>3 DEF TypeOK, vars
  <2> QED
    BY <2>1, <2>2, <2>3, PlanType, StepType DEF Next
<1> QED
  BY <1>1, <1>2, PTL DEF Spec

-----------------------------------------------------------------------------
(* One publisher at a time.                                                *)

\* From the comparison with the live index to the last deletion.
AtWork(r) == pc[r] \in {"compare"} \cup Publishing

\* The concurrency group and build/out; and what a Mac's check leaves open: a
\* workflow run that planned beside a publication, and still has to build.
Exclusive ==
  /\ \A q, r \in CI : Active(q) /\ Active(r) => q = r
  /\ \A q, r \in Mac : Active(q) /\ Active(r) => q = r
  /\ \A m \in Mac, c \in CI :
       AtWork(m) /\ Active(c) => pc[c] = "planned" /\ m \in waits[c]

LEMMA ExclusiveAtWork ==
  ASSUME Exclusive, NEW q \in Run, NEW r \in Run, AtWork(q), AtWork(r)
  PROVE  q = r
BY DEF Exclusive, AtWork, Active, Publishing, Ended, Run

\* What a step of a run does to the order among runs.
Built(r) == pc[r] = "planned" /\ (Outlasts => waits[r] = {}) /\ Goto(r, "built")
Entered(r) == pc[r] = "built" /\ MayPublish(r) /\ Goto(r, "compare")
Worked(r) == AtWork(r) /\ \E stage \in Publishing : Goto(r, stage)
Gone(r) == Active(r) /\ \E stage \in Ended : End(r, stage)

LEMMA StepShape ==
  ASSUME TypeOK, NEW r \in Run, Step(r)
  PROVE  \/ Gone(r)
         \/ waits' = waits /\ (Built(r) \/ Entered(r) \/ Worked(r))
<1> USE DEF repo, work, Goto
<1>1. CASE Assemble(r)
  BY <1>1 DEF Assemble, Built
<1>2. CASE NothingNew(r) \/ Finish(r) \/ Refuse(r)
  BY <1>2 DEF NothingNew, Finish, Refuse, Gone, Active, Ended
<1>3. CASE CheckRuns(r)
  BY <1>3 DEF CheckRuns, Entered
<1>4. CASE Compare(r) \/ ListMissing(r) \/ StartIndex(r) \/ AwaitServed(r) \/ Verify(r)
  BY <1>4 DEF Compare, ListMissing, StartIndex, AwaitServed, Verify,
              Worked, AtWork, Publishing
<1>5. ASSUME UNCHANGED <<pc, waits>>, AtWork(r), pc[r] # "compare"
      PROVE  Worked(r)
  BY <1>5 DEF TypeOK, Worked, AtWork
<1>6. ASSUME NEW d \in todo[r], Delete(r, d) \/ Upload(r, d)
      PROVE  UNCHANGED waits /\ Worked(r)
  BY <1>5, <1>6 DEF Delete, Upload, AtWork, Publishing
<1>7. ASSUME NEW f \in IndexFile, Remove(r, f) \/ Replace(r, f)
      PROVE  UNCHANGED waits /\ Worked(r)
  BY <1>5, <1>7 DEF Remove, Replace, AtWork, Publishing
<1> QED
  BY <1>1, <1>2, <1>3, <1>4, <1>6, <1>7 DEF Step

LEMMA PlanExclusive ==
  ASSUME TypeOK, Exclusive, NEW r \in Run, Plan(r)
  PROVE  Exclusive'
<1>1. /\ pc' = [pc EXCEPT ![r] = "planned"] /\ pc[r] = "idle" /\ Alone(r)
      /\ waits' = [waits EXCEPT ![r] = {q \in Run : r \in CI /\ AtWork(q)}]
  BY DEF Plan, Goto, AtWork
<1>2. \A q \in Run \ {r} : pc'[q] = pc[q] /\ waits'[q] = waits[q]
  BY <1>1 DEF TypeOK
<1>3. pc'[r] = "planned"
  BY <1>1 DEF TypeOK
<1>4. waits'[r] = {q \in Run : r \in CI /\ AtWork(q)}
  BY <1>1 DEF TypeOK
<1> QED
  BY <1>1, <1>2, <1>3, <1>4, RunsApart
     DEF Exclusive, AtWork, Active, Alone, Publishing, Ended, Run

LEMMA StepExclusive ==
  ASSUME Outlasts, TypeOK, Exclusive, NEW r \in Run, Step(r) \/ Fail(r)
  PROVE  Exclusive'
<1>1. \/ Gone(r)
      \/ waits' = waits /\ (Built(r) \/ Entered(r) \/ Worked(r))
  BY StepShape DEF Fail, Gone, Ended
<1> USE DEF TypeOK, Exclusive, AtWork, Active, Publishing, Ended, Run
<1>2. CASE Gone(r)
  <2>1. pc'[r] \in Ended /\ \A q \in Run \ {r} : pc'[q] = pc[q]
    BY <1>2 DEF Gone, End, Goto
  <2>2. \A q \in Run \ {r} : waits'[q] = waits[q] \ {r}
    BY <1>2 DEF Gone, End
  <2> QED
    BY <2>1, <2>2
<1>3. CASE waits' = waits /\ Built(r)
  <2>1. /\ pc[r] = "planned" /\ pc'[r] = "built" /\ waits[r] = {}
        /\ \A q \in Run \ {r} : pc'[q] = pc[q]
    BY <1>3 DEF Built, Goto
  <2> QED
    BY <1>3, <2>1
<1>4. CASE waits' = waits /\ Entered(r)
  <2>1. /\ pc[r] = "built" /\ pc'[r] = "compare" /\ MayPublish(r)
        /\ \A q \in Run \ {r} : pc'[q] = pc[q]
    BY <1>4 DEF Entered, Goto
  <2> QED
    BY <1>4, <2>1, RunsApart DEF MayPublish
<1>5. CASE waits' = waits /\ Worked(r)
  <2>1. /\ AtWork(r) /\ pc'[r] \in Publishing
        /\ \A q \in Run \ {r} : pc'[q] = pc[q]
    BY <1>5 DEF Worked, Goto
  <2> QED
    BY <1>5, <2>1, RunsApart
<1> QED
  BY <1>1, <1>2, <1>3, <1>4, <1>5

\* The inductive invariant behind one publisher at a time (publish.sh:34-38): who may
\* publish has looked after everyone else planned, or is waited for.
THEOREM RunsExclude == ASSUME Outlasts PROVE Spec => []Exclusive
<1>1. Init => Exclusive
  BY DEF Init, Exclusive, Active, Run
<1>2. TypeOK /\ Exclusive /\ [Next]_vars => Exclusive'
  <2> SUFFICES ASSUME TypeOK, Exclusive, [Next]_vars PROVE Exclusive'
    OBVIOUS
  <2>1. CASE UNCHANGED <<pc, waits>>
    BY <2>1 DEF Exclusive, AtWork, Active
  <2>2. ASSUME NEW f \in IndexFile, Refresh(f)
        PROVE  UNCHANGED <<pc, waits>>
    BY <2>2 DEF Refresh, work
  <2> QED
    BY <2>1, <2>2, PlanExclusive, StepExclusive DEF Next, vars
<1> QED
  BY <1>1, <1>2, TypeCorrect, PTL DEF Spec

\* The concurrency group, the Mac's look at the runs in progress and builds
\* longer than a publication leave one publisher at a time.
THEOREM PublishersExclude == ASSUME Outlasts PROVE Spec => []OnePublisher
<1>1. Exclusive => OnePublisher
  BY ExclusiveAtWork DEF OnePublisher, AtWork
<1> QED
  BY <1>1, RunsExclude, PTL

-----------------------------------------------------------------------------
(* With one publisher at a time, whatever a run has still to delete, upload*)
(* or replace fits the repository it finds: what the runs leave behind is  *)
(* the repository boxes rely on, AptRepo.                                  *)

(* What a run decided before it published, true whatever others do.        *)

\* Its new debs are newer than what they were planned against.
FreshNew(r) ==
  /\ UniqueNames(fresh[r])
  /\ \A d \in fresh[r], e \in base[r] : e.pkg = d.pkg => e.ver < d.ver

\* Its index names them all, and of each package the newest.
TargetSound(r) ==
  /\ target[r] \subseteq base[r] \cup fresh[r]
  /\ fresh[r] \subseteq target[r]
  /\ NewestKept(base[r], target[r])

Decided(r) ==
  /\ Active(r) => FreshNew(r)
  /\ Active(r) /\ pc[r] # "planned" => TargetSound(r)

LEMMA RevisedNew ==
  ASSUME NEW index \in SUBSET Deb, NEW names \in SUBSET Package, NEW r \in Run
  PROVE  LET new == UNION {Revised(index, p, r) : p \in names} IN
         /\ UniqueNames(new)
         /\ \A d \in new, e \in index : e.pkg = d.pkg => e.ver < d.ver
<1> DEFINE new == UNION {Revised(index, p, r) : p \in names}
<1>1. ASSUME NEW d \in new
      PROVE  d.pkg \in Package /\ d.build = r /\ d.ver \in NextRevision(index, d.pkg)
  BY DEF Revised
<1>2. \A d \in new, e \in index : e.pkg = d.pkg => e.ver < d.ver
  BY <1>1 DEF NextRevision, Of
<1>3. ASSUME NEW d \in new, NEW e \in new, SameName(d, e)
      PROVE  d = e
  BY <1>3 DEF Revised, SameName
<1> QED
  BY <1>2, <1>3 DEF UniqueNames

LEMMA NewestKeptSelf ==
  ASSUME NEW debs \in SUBSET Deb
  PROVE  NewestKept(debs, debs)
<1>1. \A d \in debs : d.ver >= d.ver
  BY DEF Deb
<1> QED
  BY <1>1 DEF NewestKept

LEMMA PlanDecides ==
  ASSUME TypeOK, NEW r \in Run, Plan(r)
  PROVE  Decided(r)'
<1> DEFINE index == served["Packages"]
<1>1. index \in SUBSET Deb
  BY DEF TypeOK, IndexFile
<1>2. PICK had \in SUBSET index :
        /\ base' = [base EXCEPT ![r] = index]
        /\ fresh' = [fresh EXCEPT ![r] =
             UNION {Revised(index, p, r) : p \in Package \ {d.pkg : d \in had}}]
  BY Zenon DEF Plan
<1> DEFINE names == Package \ {d.pkg : d \in had}
<1>3. base'[r] = index /\ fresh'[r] = UNION {Revised(index, p, r) : p \in names}
  BY <1>2 DEF TypeOK
<1>4. names \in SUBSET Package
  OBVIOUS
<1> HIDE DEF names, index
<1>5. FreshNew(r)'
  BY <1>1, <1>3, <1>4, RevisedNew DEF FreshNew, UniqueNames
<1>6. pc'[r] = "planned"
  BY DEF Plan, Goto, TypeOK
<1> QED
  BY <1>5, <1>6 DEF Decided

LEMMA AssembleDecides ==
  ASSUME TypeOK, NEW r \in Run, Decided(r), Assemble(r)
  PROVE  Decided(r)'
<1>1. UNCHANGED <<base, fresh>> /\ target'[r] \in Kept(r) /\ pc[r] = "planned"
  BY DEF Assemble, TypeOK
<1>2. FreshNew(r)'
  BY <1>1 DEF Decided, FreshNew, Active, Ended
<1>3. TargetSound(r)'
  BY <1>1, NewestKeptSelf DEF Kept, TargetSound, TypeOK
<1> QED
  BY <1>2, <1>3 DEF Decided

LEMMA EndDecides ==
  ASSUME TypeOK, NEW r \in Run, NEW stage \in Ended, End(r, stage)
  PROVE  Decided(r)'
BY DEF TypeOK, End, Goto, Decided, Active

LEMMA OtherKept ==
  ASSUME TypeOK, NEW r \in Run, Plan(r) \/ Step(r) \/ Fail(r), NEW q \in Run \ {r}
  PROVE  UNCHANGED <<pc[q], base[q], fresh[q], target[q]>>
BY DEF TypeOK, Plan, Step, Fail, Assemble, NothingNew, CheckRuns, Compare,
       Delete, Upload, ListMissing, StartIndex, Remove, Replace,
       AwaitServed, Verify, Finish, Refuse, End, Goto, work

\* A step after the assembly changes nothing a run decided, and no step
\* changes what another run decided.
LEMMA StepDecides ==
  ASSUME TypeOK, NEW r \in Run, Plan(r) \/ Step(r) \/ Fail(r),
         \A q \in Run : Decided(q)
  PROVE  \A q \in Run : Decided(q)'
<1>1. ASSUME NEW q \in Run \ {r}
      PROVE  Decided(q)'
  BY OtherKept DEF Decided, Active, FreshNew, TargetSound
<1>2. Decided(r)'
  <2>1. CASE Plan(r)
    BY <2>1, PlanDecides
  <2>2. CASE Assemble(r)
    BY <2>2, AssembleDecides
  <2>3. CASE NothingNew(r) \/ Finish(r) \/ Refuse(r) \/ Fail(r)
    BY <2>3, EndDecides DEF NothingNew, Finish, Refuse, Fail, Ended
  <2>4. ASSUME UNCHANGED <<base, fresh, target>>, Active(r), pc[r] # "planned"
        PROVE  Decided(r)'
    BY <2>4 DEF Decided, FreshNew, TargetSound
  <2>5. CASE CheckRuns(r) \/ Compare(r) \/ ListMissing(r) \/ StartIndex(r)
               \/ AwaitServed(r) \/ Verify(r)
    BY <2>4, <2>5 DEF CheckRuns, Compare, ListMissing, StartIndex, AwaitServed,
                      Verify, work, Active, Ended
  <2>6. ASSUME NEW d \in todo[r], Delete(r, d) \/ Upload(r, d)
        PROVE  Decided(r)'
    BY <2>4, <2>6 DEF Delete, Upload, Active, Ended
  <2>7. ASSUME NEW f \in IndexFile, Remove(r, f) \/ Replace(r, f)
        PROVE  Decided(r)'
    BY <2>4, <2>7 DEF Remove, Replace, work, Active, Ended
  <2> QED
    BY <2>1, <2>2, <2>3, <2>5, <2>6, <2>7 DEF Step
<1> QED
  BY <1>1, <1>2

-----------------------------------------------------------------------------
(* What the one publisher finds at each stage.                             *)

PruneFits(r) ==
  /\ base[r] = hosted["Packages"]
  /\ served["Packages"] = hosted["Packages"]
  /\ todo[r] = Unnamed(assets, base[r])

UploadFits(r) ==
  /\ base[r] = hosted["Packages"]
  /\ todo[r] \subseteq fresh[r]
  /\ fresh[r] \ todo[r] \subseteq assets

IndexFits(r) ==
  /\ base[r] \cup fresh[r] \subseteq assets
  /\ "Packages" \in files[r] => hosted["Packages"] \in {base[r], {}}
  /\ \A f \in IndexFile \ files[r] : hosted[f] = target[r]

IndexStored(r) == \A f \in IndexFile : hosted[f] = target[r]

Fits(r) ==
  /\ pc[r] = "prune" => PruneFits(r)
  /\ pc[r] = "upload" => UploadFits(r)
  /\ pc[r] = "index" => IndexFits(r)
  /\ pc[r] \in {"verify", "expire"} =>
       IndexStored(r) /\ served["Packages"] = hosted["Packages"]
  /\ pc[r] = "expire" => todo[r] = Unnamed(assets, target[r])

\* Whoever reads an index, the stored or the served, finds its debs.
RepoSound ==
  /\ UniqueNames(assets)
  /\ hosted["Packages"] \subseteq assets
  /\ served["Packages"] \subseteq assets

Safe ==
  /\ TypeOK
  /\ Exclusive
  /\ \A r \in Run : Decided(r)
  /\ RepoSound
  /\ \A r \in Run : Fits(r)

\* Nobody else is at work, so nobody else has anything to fit.
LEMMA OthersFit ==
  ASSUME TypeOK, Exclusive, NEW r \in Run, AtWork(r),
         NEW q \in Run \ {r}, pc'[q] = pc[q]
  PROVE  Fits(q)'
<1>1. pc'[q] \notin Publishing
  BY ExclusiveAtWork DEF AtWork
<1> QED
  BY <1>1 DEF Fits, Publishing

LEMMA IdleFits ==
  ASSUME NEW r, pc'[r] \notin Publishing
  PROVE  Fits(r)'
BY DEF Fits, Publishing

\* A step that leaves the repository alone, and takes no run into or along a
\* publication.
LEMMA QuietStep ==
  ASSUME Safe, NEW r \in Run, UNCHANGED <<assets, hosted, served>>,
         pc'[r] \notin Publishing,
         \A q \in Run \ {r} :
           UNCHANGED <<pc[q], base[q], fresh[q], target[q], todo[q], files[q]>>
  PROVE  RepoSound' /\ \A q \in Run : Fits(q)'
<1>1. RepoSound'
  BY DEF Safe, RepoSound
<1>2. ASSUME NEW q \in Run \ {r}
      PROVE  Fits(q)'
  BY DEF Safe, Fits, PruneFits, UploadFits, IndexFits, IndexStored
<1> QED
  BY <1>1, <1>2, IdleFits

LEMMA CompareSafe ==
  ASSUME Prompt, Answered, Safe, NEW r \in Run, Compare(r)
  PROVE  RepoSound' /\ \A q \in Run : Fits(q)'
<1>1. /\ pc[r] = "compare" /\ pc'[r] = "prune"
      /\ \A q \in Run \ {r} : pc'[q] = pc[q]
      /\ todo'[r] = Unnamed(assets, base[r])
      /\ UNCHANGED <<assets, hosted, served, base>>
      /\ served = hosted /\ base[r] = served["Packages"]
  BY DEF Safe, TypeOK, Compare, Goto, Live, repo
<1>2. RepoSound'
  BY <1>1 DEF Safe, RepoSound
<1>3. Fits(r)'
  BY <1>1 DEF Fits, PruneFits, Unnamed
<1>4. AtWork(r)
  BY <1>1 DEF AtWork
<1> QED
  BY <1>1, <1>2, <1>3, <1>4, OthersFit DEF Safe

\* What goes is no deb either index names.
LEMMA DeleteSafe ==
  ASSUME Safe, NEW r \in Run, NEW d \in todo[r], Delete(r, d)
  PROVE  RepoSound' /\ \A q \in Run : Fits(q)'
<1>1. /\ pc[r] \in {"prune", "expire"} /\ pc' = pc
      /\ assets' = {a \in assets : ~ SameName(a, d)}
      /\ todo'[r] = todo[r] \ {d}
      /\ UNCHANGED <<hosted, served, base, target>>
  BY DEF Safe, TypeOK, Delete
<1>2. AtWork(r)
  BY <1>1 DEF AtWork, Publishing
<1>3. /\ todo[r] = Unnamed(assets, hosted["Packages"])
      /\ served["Packages"] = hosted["Packages"]
  BY <1>1 DEF Safe, Fits, PruneFits, IndexStored, IndexFile
<1>4. d \in assets /\ \A e \in hosted["Packages"] : ~ SameName(d, e)
  BY <1>3 DEF Unnamed
<1>5. \A e \in hosted["Packages"] : ~ SameName(e, d)
  BY <1>4 DEF SameName
<1>6. RepoSound'
  BY <1>1, <1>3, <1>5 DEF Safe, RepoSound, UniqueNames
<1>7. todo'[r] = Unnamed(assets', hosted'["Packages"])
  <2>1. \A a \in assets : SameName(a, d) <=> a = d
    BY <1>4 DEF Safe, RepoSound, UniqueNames, SameName
  <2> QED
    BY <1>1, <1>3, <2>1 DEF Unnamed
<1>8. Fits(r)'
  BY <1>1, <1>3, <1>7 DEF Safe, Fits, PruneFits, IndexStored, IndexFile, Unnamed
<1> QED
  BY <1>1, <1>2, <1>6, <1>8, OthersFit DEF Safe

LEMMA ListMissingSafe ==
  ASSUME Safe, NEW r \in Run, ListMissing(r)
  PROVE  RepoSound' /\ \A q \in Run : Fits(q)'
<1>1. /\ pc[r] = "prune" /\ pc'[r] = "upload" /\ todo[r] = {}
      /\ \A q \in Run \ {r} : pc'[q] = pc[q]
      /\ todo'[r] = {d \in fresh[r] : \A a \in assets : ~ SameName(a, d)}
      /\ UNCHANGED <<assets, hosted, served, base, fresh>>
  BY DEF Safe, TypeOK, ListMissing, Goto, repo
<1>2. AtWork(r)
  BY <1>1 DEF AtWork, Publishing
<1>3. RepoSound'
  BY <1>1 DEF Safe, RepoSound
<1>4. ASSUME NEW d \in fresh[r]
      PROVE  d \in todo'[r]
  \* A new deb is newer than every asset of its package: they are all listed.
  <2>1. PruneFits(r) /\ FreshNew(r)
    BY <1>1 DEF Safe, Fits, Decided, Active, Ended
  <2>2. ASSUME NEW a \in assets
        PROVE  ~ SameName(a, d)
    <3>1. PICK e \in base[r] : SameName(a, e)
      BY <1>1, <2>1 DEF PruneFits, Unnamed
    <3>2. e.pkg = d.pkg => e.ver < d.ver
      BY <2>1 DEF FreshNew
    <3>3. d \in Deb /\ e \in Deb
      BY DEF Safe, TypeOK
    <3> QED
      BY <3>1, <3>2, <3>3 DEF SameName, Deb
  <2> QED
    BY <1>1, <2>2
<1>5. Fits(r)'
  BY <1>1, <1>4 DEF Safe, Fits, PruneFits, UploadFits
<1> QED
  BY <1>1, <1>2, <1>3, <1>5, OthersFit DEF Safe

LEMMA UploadSafe ==
  ASSUME Safe, NEW r \in Run, NEW d \in todo[r], Upload(r, d)
  PROVE  RepoSound' /\ \A q \in Run : Fits(q)'
<1>1. /\ pc[r] = "upload" /\ pc' = pc
      /\ \A a \in assets : ~ SameName(a, d)
      /\ assets' = assets \cup {d}
      /\ todo'[r] = todo[r] \ {d}
      /\ UNCHANGED <<hosted, served, base, fresh>>
  BY DEF Safe, TypeOK, Upload
<1>2. AtWork(r)
  BY <1>1 DEF AtWork, Publishing
<1>3. RepoSound'
  BY <1>1 DEF Safe, RepoSound, UniqueNames, SameName
<1>4. Fits(r)'
  BY <1>1 DEF Safe, Fits, UploadFits
<1> QED
  BY <1>1, <1>2, <1>3, <1>4, OthersFit DEF Safe

LEMMA StartIndexSafe ==
  ASSUME Safe, NEW r \in Run, StartIndex(r)
  PROVE  RepoSound' /\ \A q \in Run : Fits(q)'
<1>1. /\ pc[r] = "upload" /\ pc'[r] = "index" /\ todo[r] = {}
      /\ \A q \in Run \ {r} : pc'[q] = pc[q]
      /\ files'[r] = IndexFile
      /\ UNCHANGED <<assets, hosted, served, base, fresh, target>>
  BY DEF Safe, TypeOK, StartIndex, Goto, repo
<1>2. AtWork(r)
  BY <1>1 DEF AtWork, Publishing
<1>3. RepoSound'
  BY <1>1 DEF Safe, RepoSound
<1>4. Fits(r)'
  BY <1>1 DEF Safe, RepoSound, Fits, UploadFits, IndexFits
<1> QED
  BY <1>1, <1>2, <1>3, <1>4, OthersFit DEF Safe
LEMMA RemoveSafe ==
  ASSUME Safe, NEW r \in Run, NEW f \in IndexFile, Remove(r, f)
  PROVE  RepoSound' /\ \A q \in Run : Fits(q)'
<1>1. /\ pc[r] = "index" /\ pc' = pc /\ f \in files[r]
      /\ hosted' = [hosted EXCEPT ![f] = {}]
      /\ UNCHANGED <<assets, served, base, fresh, target, files>>
  BY DEF Remove, work
<1>2. AtWork(r)
  BY <1>1 DEF AtWork, Publishing
<1>3. RepoSound'
  BY <1>1 DEF Safe, TypeOK, RepoSound, IndexFile
<1>4. Fits(r)'
  BY <1>1 DEF Safe, TypeOK, Fits, IndexFits, IndexFile
<1> QED
  BY <1>1, <1>2, <1>3, <1>4, OthersFit DEF Safe

LEMMA ReplaceSafe ==
  ASSUME Safe, NEW r \in Run, NEW f \in IndexFile, Replace(r, f)
  PROVE  RepoSound' /\ \A q \in Run : Fits(q)'
<1>1. /\ pc[r] = "index" /\ pc' = pc /\ f \in files[r]
      /\ hosted' = [hosted EXCEPT ![f] = target[r]]
      /\ files'[r] = files[r] \ {f}
      /\ UNCHANGED <<assets, served, base, fresh, target>>
  BY DEF Safe, TypeOK, Replace
<1>2. AtWork(r)
  BY <1>1 DEF AtWork, Publishing
<1>3. IndexFits(r) /\ TargetSound(r)
  BY <1>1 DEF Safe, Fits, Decided, Active, Ended
<1>4. RepoSound'
  BY <1>1, <1>3 DEF Safe, TypeOK, RepoSound, IndexFits, TargetSound, IndexFile
<1>5. IndexFits(r)'
  BY <1>1, <1>3 DEF Safe, TypeOK, IndexFits, IndexFile
<1>6. Fits(r)'
  BY <1>1, <1>5 DEF Fits
<1> QED
  BY <1>1, <1>2, <1>4, <1>6, OthersFit DEF Safe

LEMMA AwaitServedSafe ==
  ASSUME Prompt, Safe, NEW r \in Run, AwaitServed(r)
  PROVE  RepoSound' /\ \A q \in Run : Fits(q)'
<1>1. /\ pc[r] = "index" /\ pc'[r] = "verify" /\ files[r] = {}
      /\ \A q \in Run \ {r} : pc'[q] = pc[q]
      /\ served["Packages"] = target[r]
      /\ UNCHANGED <<assets, hosted, served, target>>
  BY DEF Safe, TypeOK, AwaitServed, Goto, repo, work
<1>2. AtWork(r)
  BY <1>1 DEF AtWork, Publishing
<1>3. RepoSound'
  BY <1>1 DEF Safe, RepoSound
<1>4. Fits(r)'
  BY <1>1 DEF Safe, Fits, IndexFits, IndexStored, IndexFile
<1> QED
  BY <1>1, <1>2, <1>3, <1>4, OthersFit DEF Safe

LEMMA VerifySafe ==
  ASSUME Safe, NEW r \in Run, Verify(r)
  PROVE  RepoSound' /\ \A q \in Run : Fits(q)'
<1>1. /\ pc[r] = "verify" /\ pc'[r] = "expire"
      /\ \A q \in Run \ {r} : pc'[q] = pc[q]
      /\ todo'[r] = Unnamed(assets, target[r])
      /\ UNCHANGED <<assets, hosted, served, target>>
  BY DEF Safe, TypeOK, Verify, Goto, repo
<1>2. AtWork(r)
  BY <1>1 DEF AtWork, Publishing
<1>3. RepoSound'
  BY <1>1 DEF Safe, RepoSound
<1>4. Fits(r)'
  BY <1>1 DEF Safe, Fits, IndexStored, Unnamed
<1> QED
  BY <1>1, <1>2, <1>3, <1>4, OthersFit DEF Safe

LEMMA RefreshSafe ==
  ASSUME Safe, NEW f \in IndexFile, Refresh(f)
  PROVE  Safe'
<1>1. /\ served' = [served EXCEPT ![f] = hosted[f]]
      /\ UNCHANGED <<assets, hosted, last, past, pc, base, reused, fresh, target,
                     todo, files, waits>>
  BY DEF Refresh, work
<1>2. served'["Packages"] \in {served["Packages"], hosted["Packages"]}
  BY <1>1 DEF Safe, TypeOK, IndexFile
<1>3. TypeOK'
  BY <1>1 DEF Safe, TypeOK
<1>4. Exclusive'
  BY <1>1 DEF Safe, Exclusive, AtWork, Active
<1>5. RepoSound'
  BY <1>1, <1>2 DEF Safe, RepoSound
<1>6. ASSUME NEW q \in Run
      PROVE  Decided(q)'
  BY <1>1 DEF Safe, Decided, Active, FreshNew, TargetSound
<1>7. ASSUME NEW q \in Run
      PROVE  Fits(q)'
  BY <1>1, <1>2 DEF Safe, Fits, PruneFits, UploadFits, IndexFits, IndexStored
<1> QED
  BY <1>3, <1>4, <1>5, <1>6, <1>7 DEF Safe

LEMMA RunSafe ==
  ASSUME Prompt, Answered, Outlasts, Safe, NEW r \in Run, Plan(r) \/ Step(r) \/ Fail(r)
  PROVE  Safe'
<1>1. TypeOK'
  BY PlanType, StepType, EndType DEF Safe, TypeOK, Fail, repo, Ended
<1>2. Exclusive'
  BY PlanExclusive, StepExclusive DEF Safe
<1>3. \A q \in Run : Decided(q)'
  BY StepDecides DEF Safe
<1>4. RepoSound' /\ \A q \in Run : Fits(q)'
  <2>1. CASE \/ Plan(r) \/ Assemble(r) \/ NothingNew(r) \/ CheckRuns(r)
             \/ Finish(r) \/ Refuse(r) \/ Fail(r)
    <3>1. UNCHANGED <<assets, hosted, served>>
      BY <2>1 DEF Plan, Assemble, NothingNew, CheckRuns, Finish, Refuse, Fail, repo
    <3>2. pc'[r] \notin Publishing
      BY <2>1 DEF Safe, TypeOK, Plan, Assemble, NothingNew, CheckRuns, Finish,
                  Refuse, Fail, Goto, End, Publishing
    <3>3. ASSUME NEW q \in Run \ {r}
          PROVE  UNCHANGED <<pc[q], base[q], fresh[q], target[q], todo[q], files[q]>>
      BY <2>1 DEF Safe, TypeOK, Plan, Assemble, NothingNew, CheckRuns, Finish,
                  Refuse, Fail, Goto, End, work
    <3> QED
      BY <3>1, <3>2, <3>3, QuietStep
  <2> QED
    BY <2>1, CompareSafe, DeleteSafe, ListMissingSafe, UploadSafe, StartIndexSafe,
       RemoveSafe, ReplaceSafe, AwaitServedSafe, VerifySafe DEF Step
<1> QED
  BY <1>1, <1>2, <1>3, <1>4 DEF Safe

LEMMA InitSafe == Init => Safe
<1> SUFFICES ASSUME Init PROVE Safe
  OBVIOUS
<1>1. TypeOK
  BY SeedIsDebs DEF Init, TypeOK, Stage
<1>2. \A r \in Run : pc[r] = "idle"
  BY DEF Init
<1>3. Exclusive /\ \A r \in Run : Decided(r) /\ Fits(r)
  BY <1>2 DEF Exclusive, Decided, Fits, Active, Run
<1>4. RepoSound
  BY SeedSound DEF Init, RepoSound, IndexFile
<1> QED
  BY <1>1, <1>3, <1>4 DEF Safe

\* The inductive invariant of the calls that change the repository (publish.sh:39-65):
\* at each stage the publisher finds what it left, and both indexes are hosted.
THEOREM AlwaysSafe == ASSUME Prompt, Answered, Outlasts PROVE Spec => []Safe
<1>1. Safe /\ [Next]_vars => Safe'
  <2> SUFFICES ASSUME Safe, [Next]_vars PROVE Safe'
    OBVIOUS
  <2>1. CASE UNCHANGED vars
    BY <2>1 DEF vars, Safe, TypeOK, Exclusive, AtWork, Active, Decided, FreshNew,
                TargetSound, RepoSound, Fits, PruneFits, UploadFits, IndexFits,
                IndexStored
  <2> QED
    BY <2>1, RunSafe, RefreshSafe DEF Next
<1> QED
  BY <1>1, InitSafe, PTL DEF Spec

\* Prune, upload and index in that order, whatever runs fail between two gh
\* calls: the stored index never names a deb that is not there. Of comparisons
\* with what is stored (Prompt, Answered): one that fails to download compares as
\* equal with a plan made while the index was being replaced (publish.sh:41).
THEOREM IndexedStayHosted ==
  ASSUME Prompt, Answered, Outlasts PROVE Spec => []IndexedDebsHosted
<1>1. Safe => IndexedDebsHosted
  BY DEF Safe, RepoSound, IndexedDebsHosted
<1> QED
  BY <1>1, AlwaysSafe, PTL

\* The same of the index a box still gets between a replacement and its being
\* served, if that is before the poll for it gives up (Prompt).
THEOREM ServedStayHosted ==
  ASSUME Prompt, Answered, Outlasts PROVE Spec => []ServedDebsHosted
<1>1. Safe => ServedDebsHosted
  BY DEF Safe, RepoSound, ServedDebsHosted
<1> QED
  BY <1>1, AlwaysSafe, PTL

\* A publication that ends well leaves what its index names and no more, under
\* the same hypotheses.
THEOREM SuccessLeavesExact ==
  ASSUME Prompt, Answered, Outlasts PROVE Spec => SuccessIsExact
<1> DEFINE Exact ==
      \A r \in Run :
        pc[r] = "expire" /\ pc'[r] = "done" =>
          /\ hosted'["InRelease"] = hosted'["Packages"]
          /\ assets' = hosted'["Packages"]
<1>1. Safe /\ [Next]_vars => [Exact]_vars
  <2> SUFFICES ASSUME Safe, Next, NEW r \in Run, pc[r] = "expire", pc'[r] = "done"
               PROVE  /\ hosted'["InRelease"] = hosted'["Packages"]
                      /\ assets' = hosted'["Packages"]
    BY DEF Next
  <2>1. Finish(r)
    <3>1. PICK q \in Run : Plan(q) \/ Step(q) \/ Fail(q)
      BY DEF Next, Refresh, work
    <3>2. q = r
      BY <3>1, OtherKept DEF Safe
    <3>3. pc[q] = "expire" /\ pc'[q] = "done"
      BY <3>2
    <3>4. ~ Plan(q) /\ ~ Fail(q)
      BY <3>3 DEF Safe, TypeOK, Plan, Fail, End, Goto
    <3>5. \A d \in todo[q] : ~ Delete(q, d) /\ ~ Upload(q, d)
      BY <3>3 DEF Delete, Upload
    <3>6. \A f \in IndexFile : ~ Remove(q, f) /\ ~ Replace(q, f)
      BY <3>3 DEF Remove, Replace
    <3>7. /\ ~ Assemble(q) /\ ~ NothingNew(q) /\ ~ CheckRuns(q) /\ ~ Compare(q)
          /\ ~ ListMissing(q) /\ ~ StartIndex(q) /\ ~ AwaitServed(q)
          /\ ~ Verify(q) /\ ~ Refuse(q)
      BY <3>3 DEF Assemble, NothingNew, CheckRuns, Compare, ListMissing,
                  StartIndex, AwaitServed, Verify, Refuse
    <3> QED
      BY <3>1, <3>2, <3>4, <3>5, <3>6, <3>7 DEF Step
  <2>2. UNCHANGED <<assets, hosted>> /\ todo[r] = {}
    BY <2>1 DEF Finish, repo
  <2>3. /\ todo[r] = Unnamed(assets, hosted["Packages"])
        /\ hosted["InRelease"] = hosted["Packages"]
    BY DEF Safe, Fits, IndexStored, IndexFile
  <2>4. assets = hosted["Packages"]
    <3>1. ASSUME NEW a \in assets
          PROVE  a \in hosted["Packages"]
      BY <2>2, <2>3 DEF Safe, RepoSound, Unnamed, UniqueNames
    <3> QED
      BY <3>1 DEF Safe, RepoSound
  <2> QED
    BY <2>2, <2>3, <2>4
<1> QED
  BY <1>1, AlwaysSafe, PTL DEF Spec, SuccessIsExact

-----------------------------------------------------------------------------
(* When gh replaces the index whole, the pipeline implements AptRepo: what *)
(* a box relies on holds whatever is interleaved and whatever else fails.  *)
(* `last` and the stored Packages differ only inside the one replacement.  *)

\* The index being replaced: the one a stop between the two calls would lose.
Replacing(r) == pc[r] = "index" /\ "Packages" \in files[r]

\* Who publishes planned against the last index, until the new one is stored.
LastFits(r) ==
  /\ pc[r] \in {"prune", "upload"} \/ Replacing(r) => last = base[r]
  /\ pc[r] = "index" /\ ~ Replacing(r) => last = target[r]
  /\ pc[r] \in {"verify", "expire"} => last = target[r]

LastStored == hosted["Packages"] # last => \E r \in Run : Replacing(r)

History ==
  /\ last \subseteq past
  /\ UniqueNames(past)
  /\ NewestKept(past, last)

RInv ==
  /\ Safe
  /\ \A r \in Run : LastFits(r)
  /\ LastStored
  /\ History

LEMMA OthersLastFit ==
  ASSUME TypeOK, Exclusive, NEW r \in Run, AtWork(r),
         NEW q \in Run \ {r}, pc'[q] = pc[q]
  PROVE  LastFits(q)'
<1>1. pc'[q] \notin Publishing
  BY ExclusiveAtWork DEF AtWork
<1> QED
  BY <1>1 DEF LastFits, Replacing, Publishing

\* The comparison finds the last index, for nobody else is replacing it.
LEMMA CompareLast ==
  ASSUME Prompt, Answered, RInv, NEW r \in Run, Compare(r)
  PROVE  (\A q \in Run : LastFits(q)') /\ LastStored'
<1>1. /\ pc[r] = "compare" /\ pc'[r] = "prune"
      /\ \A q \in Run \ {r} : pc'[q] = pc[q]
      /\ UNCHANGED <<hosted, last, base>>
      /\ base[r] = hosted["Packages"]
  BY DEF RInv, Safe, TypeOK, Compare, Goto, Live, repo
<1>2. AtWork(r)
  BY <1>1 DEF AtWork
<1>3. \A q \in Run : ~ Replacing(q)
  BY <1>1, <1>2, ExclusiveAtWork DEF RInv, Safe, Replacing, AtWork, Publishing
<1>4. hosted["Packages"] = last
  BY <1>3 DEF RInv, LastStored
<1>5. LastFits(r)'
  BY <1>1, <1>4 DEF LastFits, Replacing
<1> QED
  BY <1>1, <1>2, <1>4, <1>5, OthersLastFit DEF RInv, Safe, LastStored

\* Steps of a publication that leave the index as it is.
LEMMA AlongLast ==
  ASSUME RInv, NEW r \in Run,
         \/ ListMissing(r) \/ StartIndex(r) \/ AwaitServed(r) \/ Verify(r)
         \/ \E d \in todo[r] : Delete(r, d) \/ Upload(r, d)
  PROVE  (\A q \in Run : LastFits(q)') /\ LastStored'
<1>1. UNCHANGED <<hosted, last, base, target>> /\ AtWork(r)
  BY DEF ListMissing, StartIndex, AwaitServed, Verify, Delete, Upload, repo, work,
         AtWork, Publishing
<1>2. \A q \in Run \ {r} : pc'[q] = pc[q]
  BY DEF RInv, Safe, TypeOK, ListMissing, StartIndex, AwaitServed, Verify, Delete,
         Upload, Goto
<1>3. LastFits(r)'
  <2>1. CASE \E d \in todo[r] : Delete(r, d) \/ Upload(r, d)
    BY <2>1 DEF RInv, LastFits, Replacing, Delete, Upload
  <2>2. CASE ListMissing(r)
    BY <1>1, <2>2 DEF RInv, Safe, TypeOK, LastFits, Replacing, ListMissing, Goto
  <2>3. CASE StartIndex(r)
    BY <1>1, <2>3 DEF RInv, Safe, TypeOK, LastFits, Replacing, StartIndex, Goto,
                      IndexFile
  <2>4. CASE AwaitServed(r)
    BY <1>1, <2>4 DEF RInv, Safe, TypeOK, LastFits, Replacing, AwaitServed, Goto
  <2>5. CASE Verify(r)
    BY <1>1, <2>5 DEF RInv, Safe, TypeOK, LastFits, Replacing, Verify, Goto
  <2> QED
    BY <2>1, <2>2, <2>3, <2>4, <2>5
<1>4. \A q \in Run : ~ Replacing(q)
  <2>1. ~ Replacing(r)
    BY DEF ListMissing, StartIndex, AwaitServed, Verify, Delete, Upload, Replacing
  <2> QED
    BY <1>1, <2>1, ExclusiveAtWork DEF RInv, Safe, Replacing, AtWork, Publishing
<1> QED
  BY <1>1, <1>2, <1>3, <1>4, OthersLastFit DEF RInv, Safe, LastStored

LEMMA RemoveLast ==
  ASSUME RInv, NEW r \in Run, NEW f \in IndexFile, Remove(r, f)
  PROVE  (\A q \in Run : LastFits(q)') /\ LastStored'
<1>1. UNCHANGED <<pc, files, last, base, target>> /\ pc[r] = "index" /\ f \in files[r]
  BY DEF Remove, work
<1>2. f # "Packages" => hosted'["Packages"] = hosted["Packages"]
  BY DEF RInv, Safe, TypeOK, Remove, IndexFile
<1> QED
  BY <1>1, <1>2 DEF RInv, LastFits, LastStored, Replacing

LEMMA ReplaceLast ==
  ASSUME RInv, NEW r \in Run, NEW f \in IndexFile, Replace(r, f)
  PROVE  (\A q \in Run : LastFits(q)') /\ LastStored'
<1>1. /\ UNCHANGED <<pc, base, target>> /\ pc[r] = "index" /\ f \in files[r]
      /\ files'[r] = files[r] \ {f}
      /\ \A q \in Run \ {r} : files'[q] = files[q]
  BY DEF RInv, Safe, TypeOK, Replace
<1>2. AtWork(r)
  BY <1>1 DEF AtWork, Publishing
<1>3. CASE f = "Packages"
  <2>1. last' = target[r] /\ hosted'["Packages"] = target[r]
    BY <1>3 DEF RInv, Safe, TypeOK, Replace
  <2>2. LastFits(r)'
    BY <1>1, <1>3, <2>1 DEF LastFits, Replacing
  <2> QED
    BY <1>1, <1>2, <2>1, <2>2, OthersLastFit DEF RInv, Safe, LastStored
<1>4. CASE f # "Packages"
  <2>1. last' = last /\ hosted'["Packages"] = hosted["Packages"]
    BY <1>4 DEF RInv, Safe, TypeOK, Replace
  <2>2. \A q \in Run : Replacing(q)' <=> Replacing(q)
    BY <1>1, <1>4 DEF Replacing
  <2> QED
    BY <1>1, <2>1, <2>2 DEF RInv, LastFits, LastStored
<1> QED
  BY <1>3, <1>4

\* Steps outside a publication, and those that end one. A run that stops while
\* it replaces the index has replaced nothing, or Packages as well.
LEMMA AwayLast ==
  ASSUME Whole, RInv, NEW r \in Run,
         \/ Plan(r) \/ Assemble(r) \/ NothingNew(r) \/ CheckRuns(r)
         \/ Finish(r) \/ Refuse(r) \/ Fail(r)
  PROVE  (\A q \in Run : LastFits(q)') /\ LastStored'
<1>1. UNCHANGED <<hosted, last>>
  BY DEF Plan, Assemble, NothingNew, CheckRuns, Finish, Refuse, Fail, repo
<1>2. pc'[r] \notin Publishing
  BY DEF RInv, Safe, TypeOK, Plan, Assemble, NothingNew, CheckRuns, Finish,
         Refuse, Fail, Goto, End, Publishing
<1>3. ASSUME NEW q \in Run \ {r}
      PROVE  UNCHANGED <<pc[q], base[q], target[q], files[q]>>
  BY DEF RInv, Safe, TypeOK, Plan, Assemble, NothingNew, CheckRuns, Finish,
         Refuse, Fail, Goto, End, work
<1>4. LastFits(r)'
  BY <1>2 DEF LastFits, Replacing, Publishing
<1>5. ASSUME NEW q \in Run \ {r}
      PROVE  LastFits(q)' /\ (Replacing(q)' <=> Replacing(q))
  BY <1>1, <1>3 DEF RInv, LastFits, Replacing
<1>6. Replacing(r) => hosted["Packages"] = last
  <2> SUFFICES ASSUME Replacing(r) PROVE hosted["Packages"] = last
    OBVIOUS
  <2>1. Fail(r)
    BY DEF Replacing, Plan, Assemble, NothingNew, CheckRuns, Finish, Refuse
  <2>2. base[r] # {} => hosted["Packages"] # {}
    BY <2>1 DEF Fail, Replacing
  <2>3. last = base[r] /\ hosted["Packages"] \in {base[r], {}}
    BY DEF RInv, Safe, LastFits, Fits, IndexFits, Replacing
  <2> QED
    BY <2>2, <2>3
<1> QED
  BY <1>1, <1>4, <1>5, <1>6 DEF RInv, LastStored

-----------------------------------------------------------------------------
(* Each step is a step of AptRepo, or none of it.                          *)

LEMMA LastHosted == ASSUME RInv PROVE last \subseteq assets
<1>1. CASE hosted["Packages"] = last
  BY <1>1 DEF RInv, Safe, RepoSound
<1>2. CASE hosted["Packages"] # last
  <2>1. PICK r \in Run : Replacing(r)
    BY <1>2 DEF RInv, LastStored
  <2> QED
    BY <2>1 DEF RInv, Safe, LastFits, Fits, IndexFits, Replacing
<1> QED
  BY <1>1, <1>2

LEMMA UploadStores ==
  ASSUME RInv, NEW r \in Run, NEW d \in todo[r], Upload(r, d)
  PROVE  Repo!Store
<1>1. d \in Deb
  BY DEF RInv, Safe, TypeOK
<1>2. /\ \A a \in assets : ~ SameName(a, d)
      /\ assets' = assets \cup {d}
      /\ UNCHANGED <<last, past>>
  BY DEF Upload
<1> QED
  BY <1>1, <1>2 DEF Repo!Store, Repo!SameName, Repo!Deb, SameName, Deb

LEMMA DeleteDrops ==
  ASSUME RInv, NEW r \in Run, NEW d \in todo[r], Delete(r, d)
  PROVE  Repo!Drop
<1>1. /\ pc[r] \in {"prune", "expire"}
      /\ assets' = {a \in assets : ~ SameName(a, d)}
      /\ UNCHANGED <<last, past>>
  BY DEF Delete
<1>2. todo[r] = Unnamed(assets, last)
  BY <1>1 DEF RInv, Safe, Fits, PruneFits, LastFits
<1>3. d \in assets \ last
  BY <1>2 DEF Unnamed, SameName
<1>4. \A a \in assets : SameName(a, d) <=> a = d
  BY <1>3 DEF RInv, Safe, RepoSound, UniqueNames, SameName
<1>5. assets' = assets \ {d}
  BY <1>1, <1>4
<1> QED
  BY <1>1, <1>3, <1>5 DEF Repo!Drop

LEMMA ReplaceSwitches ==
  ASSUME RInv, NEW r \in Run, Replace(r, "Packages")
  PROVE  Repo!Switch /\ History'
<1>1. /\ Replacing(r) /\ pc[r] = "index"
      /\ last' = target[r] /\ past' = past \cup target[r]
      /\ UNCHANGED assets
  BY DEF Replace, Replacing
<1>2. /\ last = base[r] /\ FreshNew(r) /\ TargetSound(r)
      /\ base[r] \cup fresh[r] \subseteq assets
  BY <1>1 DEF RInv, Safe, LastFits, Fits, IndexFits, Decided, Active, Ended
<1>3. /\ target[r] \subseteq assets
      /\ NewestKept(last, target[r])
      /\ target[r] \subseteq last \cup fresh[r]
  BY <1>2 DEF TargetSound
<1>4. target[r] \subseteq Deb /\ past \subseteq Deb /\ last \subseteq Deb
  BY DEF RInv, Safe, TypeOK
<1>5. ASSUME NEW d \in target[r] \ last, NEW e \in past, e.pkg = d.pkg
      PROVE  e.ver < d.ver
  \* Something of the package, at least as new as e, is in the last index, and
  \* a new deb is newer than that.
  <2>1. PICK f \in last : f.pkg = e.pkg /\ f.ver >= e.ver
    BY DEF RInv, History, NewestKept
  <2>2. f.ver < d.ver
    BY <1>2, <1>3, <1>5, <2>1 DEF FreshNew
  <2>3. d \in Deb /\ e \in Deb /\ f \in Deb
    BY <1>4
  <2> QED
    BY <2>1, <2>2, <2>3 DEF Deb
<1>6. Repo!Switch
  BY <1>1, <1>3, <1>5 DEF Repo!Switch, Repo!NewestKept, NewestKept
<1>7. last' \subseteq past'
  BY <1>1
<1>8. UniqueNames(past)'
  <2> SUFFICES ASSUME NEW d \in past', NEW e \in past', SameName(d, e)
               PROVE  d = e
    BY DEF UniqueNames
  <2>1. \A a \in past' : a \in past \/ a \in target[r] \ last
    BY <1>1 DEF RInv, History
  <2>2. ASSUME NEW a \in past, NEW b \in target[r] \ last
        PROVE  ~ SameName(a, b) /\ ~ SameName(b, a)
    <3>1. a.pkg = b.pkg => a.ver < b.ver
      BY <1>5
    <3>2. a \in Deb /\ b \in Deb
      BY <1>4
    <3> QED
      BY <3>1, <3>2 DEF SameName, Deb
  <2>3. CASE d \in past /\ e \in past
    BY <2>3 DEF RInv, History, UniqueNames
  <2>4. CASE d \in target[r] \ last /\ e \in target[r] \ last
    BY <1>3, <2>4 DEF RInv, Safe, RepoSound, UniqueNames
  <2> QED
    BY <2>1, <2>2, <2>3, <2>4
<1>9. NewestKept(past, last)'
  <2> SUFFICES ASSUME NEW d \in past'
               PROVE  \E e \in target[r] : e.pkg = d.pkg /\ e.ver >= d.ver
    BY <1>1 DEF NewestKept
  <2>1. CASE d \in past
    <3>1. PICK e \in last : e.pkg = d.pkg /\ e.ver >= d.ver
      BY <2>1 DEF RInv, History, NewestKept
    <3>2. PICK f \in target[r] : f.pkg = e.pkg /\ f.ver >= e.ver
      BY <1>3, <3>1 DEF NewestKept
    <3>3. d \in Deb /\ e \in Deb /\ f \in Deb
      BY <1>4, <2>1
    <3>4. f.ver >= d.ver
      BY <3>1, <3>2, <3>3 DEF Deb
    <3> QED
      BY <3>1, <3>2, <3>4
  <2>2. CASE d \in target[r]
    <3>1. d.ver >= d.ver
      BY <1>4, <2>2 DEF Deb
    <3> QED
      BY <2>2, <3>1
  <2> QED
    BY <1>1, <2>1, <2>2
<1> QED
  BY <1>6, <1>7, <1>8, <1>9 DEF History

LEMMA HistoryKept ==
  ASSUME RInv, UNCHANGED <<last, past>>
  PROVE  History'
BY DEF RInv, History

\* The step of a run, seen by a box.
LEMMA RunSeen ==
  ASSUME RInv, NEW r \in Run, Plan(r) \/ Step(r) \/ Fail(r)
  PROVE  [Repo!Next]_(Repo!vars) /\ History'
<1>1. CASE \/ Plan(r) \/ Assemble(r) \/ NothingNew(r) \/ CheckRuns(r) \/ Compare(r)
           \/ ListMissing(r) \/ StartIndex(r) \/ AwaitServed(r) \/ Verify(r)
           \/ Finish(r) \/ Refuse(r) \/ Fail(r)
  <2>1. UNCHANGED <<assets, last, past>>
    BY <1>1 DEF Plan, Assemble, NothingNew, CheckRuns, Compare, ListMissing,
                StartIndex, AwaitServed, Verify, Finish, Refuse, Fail, repo
  <2> QED
    BY <2>1, HistoryKept DEF Repo!vars
<1>2. ASSUME NEW f \in IndexFile, Remove(r, f)
      PROVE  [Repo!Next]_(Repo!vars) /\ History'
  <2>1. UNCHANGED <<assets, last, past>>
    BY <1>2 DEF Remove
  <2> QED
    BY <2>1, HistoryKept DEF Repo!vars
<1>3. ASSUME NEW f \in IndexFile, Replace(r, f)
      PROVE  [Repo!Next]_(Repo!vars) /\ History'
  <2>1. CASE f = "Packages"
    BY <1>3, <2>1, ReplaceSwitches DEF Repo!Next
  <2>2. CASE f # "Packages"
    <3>1. UNCHANGED <<assets, last, past>>
      BY <1>3, <2>2 DEF Replace
    <3> QED
      BY <3>1, HistoryKept DEF Repo!vars
  <2> QED
    BY <2>1, <2>2
<1>4. ASSUME NEW d \in todo[r], Upload(r, d)
      PROVE  [Repo!Next]_(Repo!vars) /\ History'
  BY <1>4, UploadStores, HistoryKept DEF Repo!Next, Upload
<1>5. ASSUME NEW d \in todo[r], Delete(r, d)
      PROVE  [Repo!Next]_(Repo!vars) /\ History'
  BY <1>5, DeleteDrops, HistoryKept DEF Repo!Next, Delete
<1>6. ASSUME Step(r)
      PROVE  \/ \/ Plan(r) \/ Assemble(r) \/ NothingNew(r) \/ CheckRuns(r) \/ Compare(r)
                \/ ListMissing(r) \/ StartIndex(r) \/ AwaitServed(r) \/ Verify(r)
                \/ Finish(r) \/ Refuse(r) \/ Fail(r)
             \/ \E f \in IndexFile : Remove(r, f) \/ Replace(r, f)
             \/ \E d \in todo[r] : Upload(r, d) \/ Delete(r, d)
  BY <1>6, Zenon DEF Step
<1>7. (\E f \in IndexFile : Remove(r, f) \/ Replace(r, f))
        => [Repo!Next]_(Repo!vars) /\ History'
  BY <1>2, <1>3
<1>8. (\E d \in todo[r] : Upload(r, d) \/ Delete(r, d))
        => [Repo!Next]_(Repo!vars) /\ History'
  BY <1>4, <1>5
<1> QED
  BY <1>1, <1>6, <1>7, <1>8

LEMMA StepRefines ==
  ASSUME Whole, Prompt, Answered, Outlasts, RInv, [Next]_vars
  PROVE  RInv' /\ [Repo!Next]_(Repo!vars)
<1>1. ASSUME NEW r \in Run, Plan(r) \/ Step(r) \/ Fail(r)
      PROVE  (\A q \in Run : LastFits(q)') /\ LastStored'
  BY <1>1, AwayLast, AlongLast, CompareLast, RemoveLast, ReplaceLast DEF Step
<1>2. CASE \E r \in Run : Plan(r) \/ Step(r) \/ Fail(r)
  BY <1>1, <1>2, RunSafe, RunSeen DEF RInv
<1>3. CASE \E f \in IndexFile : Refresh(f)
  <2>1. UNCHANGED <<assets, hosted, last, past, pc, base, target, files>>
    BY <1>3 DEF Refresh, work
  <2>2. (\A q \in Run : LastFits(q)') /\ LastStored'
    BY <2>1 DEF RInv, LastFits, LastStored, Replacing
  <2> QED
    BY <1>3, <2>1, <2>2, RefreshSafe, HistoryKept DEF RInv, Repo!vars
<1>4. CASE UNCHANGED vars
  <2>1. Safe'
    BY <1>4 DEF vars, RInv, Safe, TypeOK, Exclusive, AtWork, Active, Decided,
                FreshNew, TargetSound, RepoSound, Fits, PruneFits, UploadFits,
                IndexFits, IndexStored
  <2>2. (\A q \in Run : LastFits(q)') /\ LastStored'
    BY <1>4 DEF vars, RInv, LastFits, LastStored, Replacing
  <2>3. UNCHANGED <<assets, last, past>>
    BY <1>4 DEF vars
  <2> QED
    BY <2>1, <2>2, <2>3, HistoryKept DEF RInv, Repo!vars
<1> QED
  BY <1>2, <1>3, <1>4 DEF Next

LEMMA InitRefines == Init => RInv /\ Repo!Init
<1> SUFFICES ASSUME Init PROVE RInv /\ Repo!Init
  OBVIOUS
<1>1. Safe
  BY InitSafe
<1>2. (\A r \in Run : LastFits(r)) /\ LastStored
  BY DEF Init, LastFits, LastStored, Replacing, IndexFile
<1>3. History
  BY SeedSound, NewestKeptSelf DEF Init, History
<1>4. Repo!Init
  BY DEF Init, Repo!Init
<1> QED
  BY <1>1, <1>2, <1>3, <1>4 DEF RInv

\* The inductive invariant of the refinement: what a run publishes goes on from the
\* index last stored, and the history agrees with what is hosted.
THEOREM AlwaysRInv == ASSUME Whole, Prompt, Answered, Outlasts PROVE Spec => []RInv
<1>1. Init => RInv
  BY InitRefines
<1>2. RInv /\ [Next]_vars => RInv'
  BY StepRefines
<1> QED
  BY <1>1, <1>2, PTL DEF Spec

\* Whoever runs, a Mac planning while the index is replaced included, and whatever
\* fails but the comparison's download, plan, build and publish together are the
\* abstract repository, under all four hypotheses: index only what is there, drop only
\* what no index names, and move every package only forward.
THEOREM PipelineImplementsRepo ==
  ASSUME Whole, Prompt, Answered, Outlasts PROVE Spec => ImplementsRepo
<1>1. Init => Repo!Init
  BY InitRefines
<1>2. RInv /\ [Next]_vars => [Repo!Next]_(Repo!vars)
  BY StepRefines
<1> QED
  BY <1>1, <1>2, AlwaysRInv, PTL DEF Spec, ImplementsRepo, Repo!Spec

-----------------------------------------------------------------------------
(* The abstract repository's own promises: they hold of every repository   *)
(* that moves only by its steps. None of them is inductive alone: a name   *)
(* keeps its bytes because what is added is newer than everything the      *)
(* package ever had, and the next addition can be newer again because the  *)
(* newest is never dropped.                                                *)

RepoInv ==
  /\ Repo!TypeOK
  /\ Repo!Installable
  /\ Repo!UniqueNames(assets)
  /\ last \subseteq past
  /\ Repo!NamesKeepBytes
  /\ Repo!NoBoxAhead

LEMMA RepoInit == Repo!Init => RepoInv
<1> SUFFICES ASSUME Repo!Init PROVE RepoInv
  OBVIOUS
<1>1. last = Seed /\ assets = Seed /\ past = Seed
  BY DEF Repo!Init
<1>2. Repo!TypeOK /\ Repo!UniqueNames(Seed)
  BY <1>1, SeedSound DEF Repo!TypeOK, Repo!Deb, Deb, Repo!UniqueNames, Repo!SameName,
                         UniqueNames, SameName
<1>3. \A d \in Seed : d.ver >= d.ver
  BY SeedSound DEF Deb
<1>4. Repo!NoBoxAhead
  BY <1>1, <1>3 DEF Repo!NoBoxAhead, Repo!NewestKept
<1> QED
  BY <1>1, <1>2, <1>4 DEF RepoInv, Repo!Installable, Repo!NamesKeepBytes

LEMMA StoreKeeps == RepoInv /\ Repo!Store => RepoInv'
BY DEF RepoInv, Repo!TypeOK, Repo!Installable, Repo!NamesKeepBytes, Repo!NoBoxAhead,
       Repo!NewestKept, Repo!UniqueNames, Repo!SameName, Repo!Store

LEMMA DropKeeps == RepoInv /\ Repo!Drop => RepoInv'
BY DEF RepoInv, Repo!TypeOK, Repo!Installable, Repo!NamesKeepBytes, Repo!NoBoxAhead,
       Repo!NewestKept, Repo!UniqueNames, Repo!SameName, Repo!Drop

LEMMA SwitchKeeps == RepoInv /\ Repo!Switch => RepoInv'
<1> SUFFICES ASSUME RepoInv, Repo!Switch PROVE RepoInv'
  OBVIOUS
<1>1. /\ Repo!TypeOK' /\ Repo!Installable' /\ Repo!UniqueNames(assets)'
      /\ last' \subseteq past'
  BY DEF RepoInv, Repo!TypeOK, Repo!Installable, Repo!UniqueNames, Repo!SameName,
         Repo!Switch
<1>2. ASSUME NEW d \in past, NEW e \in past', e \notin past
      PROVE  ~ Repo!SameName(d, e)
  \* What is added is newer than anything of its package.
  <2>1. e \in last' \ last
    BY <1>2 DEF RepoInv, Repo!Switch
  <2>2. d \in Repo!Deb /\ e \in Repo!Deb
    BY <1>1, <2>1 DEF RepoInv, Repo!TypeOK
  <2>3. e.pkg = d.pkg => d.ver < e.ver
    BY <2>1 DEF Repo!Switch
  <2> QED
    BY <2>2, <2>3 DEF Repo!SameName, Repo!Deb
<1>3. Repo!NamesKeepBytes'
  <2> SUFFICES ASSUME NEW d \in past', NEW e \in past', Repo!SameName(d, e)
               PROVE  d = e
    BY DEF Repo!NamesKeepBytes, Repo!UniqueNames, Repo!SameName
  <2>1. Repo!SameName(e, d)
    BY DEF Repo!SameName
  <2>2. CASE d \in past /\ e \in past
    BY <2>2 DEF RepoInv, Repo!NamesKeepBytes, Repo!UniqueNames
  <2>3. CASE d \notin past /\ e \notin past
    BY <2>3 DEF RepoInv, Repo!Switch, Repo!UniqueNames
  <2> QED
    BY <1>2, <2>1, <2>2, <2>3
<1>4. Repo!NoBoxAhead'
  <2> SUFFICES ASSUME NEW d \in past'
               PROVE  \E e \in last' : e.pkg = d.pkg /\ e.ver >= d.ver
    BY DEF Repo!NoBoxAhead, Repo!NewestKept
  <2>1. CASE d \in past
    <3>1. PICK e \in last : e.pkg = d.pkg /\ e.ver >= d.ver
      BY <2>1 DEF RepoInv, Repo!NoBoxAhead, Repo!NewestKept
    <3>2. PICK f \in last' : f.pkg = e.pkg /\ f.ver >= e.ver
      BY <3>1 DEF Repo!Switch, Repo!NewestKept
    <3>3. d \in Repo!Deb /\ e \in Repo!Deb /\ f \in Repo!Deb
      BY <1>1, <2>1 DEF RepoInv, Repo!TypeOK
    <3>4. f.ver >= d.ver
      BY <3>1, <3>2, <3>3 DEF Repo!Deb
    <3> QED
      BY <3>1, <3>2, <3>4
  <2>2. CASE d \notin past
    <3>1. d \in last' /\ d \in Repo!Deb
      BY <1>1, <2>2 DEF Repo!Switch, Repo!TypeOK
    <3>2. d.ver >= d.ver
      BY <3>1 DEF Repo!Deb
    <3> QED
      BY <3>1, <3>2
  <2> QED
    BY <2>1, <2>2
<1> QED
  BY <1>1, <1>3, <1>4 DEF RepoInv

LEMMA RepoStep == RepoInv /\ [Repo!Next]_(Repo!vars) => RepoInv'
<1> SUFFICES ASSUME RepoInv, [Repo!Next]_(Repo!vars) PROVE RepoInv'
  OBVIOUS
<1>1. CASE UNCHANGED Repo!vars
  BY <1>1 DEF RepoInv, Repo!TypeOK, Repo!Installable, Repo!NamesKeepBytes, Repo!NoBoxAhead,
              Repo!NewestKept, Repo!UniqueNames, Repo!SameName, Repo!vars
<1> QED
  BY <1>1, StoreKeeps, DropKeeps, SwitchKeeps DEF Repo!Next

\* Whoever publishes, and whatever breaks: as long as the repository moves by
\* these steps, what the index names can be downloaded, a name never changes
\* its bytes and no box is left ahead.
THEOREM RepoPromises ==
  Repo!Spec => [](Repo!Installable /\ Repo!NamesKeepBytes /\ Repo!NoBoxAhead)
<1>1. RepoInv => Repo!Installable /\ Repo!NamesKeepBytes /\ Repo!NoBoxAhead
  BY DEF RepoInv
<1> QED
  BY <1>1, RepoInit, RepoStep, PTL DEF Repo!Spec

\* A name once indexed never returns with other bytes, though every run counts
\* revisions from an index some of the history has expired from. A run that
\* planned against a missing index counts from 1: it must not pass the comparison.
THEOREM NamesStay == ASSUME Whole, Prompt, Answered, Outlasts PROVE Spec => []NamesKeepBytes
<1>1. RInv => NamesKeepBytes
  BY DEF RInv, History, NamesKeepBytes
<1> QED
  BY <1>1, AlwaysRInv, PTL

\* A box is never left with a version newer than the newest indexed, under the
\* same hypotheses.
THEOREM BoxesNotAhead == ASSUME Whole, Prompt, Answered, Outlasts PROVE Spec => []NoBoxAhead
<1>1. RInv => NoBoxAhead
  BY DEF RInv, History, NoBoxAhead
<1> QED
  BY <1>1, AlwaysRInv, PTL
=============================================================================
