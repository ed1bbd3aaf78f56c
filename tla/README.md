# TVBian, specified

TLA+ models of TVBian (Armbian-like Debian images for Rockchip and Amlogic TV
boxes): what its own programs do, checked by TLC on small instances, and proved
by TLAPS for instances of any size. Paths below are relative to `src/`.

## The system

TVBian is a build and release tree. Its own code is some 3,500 lines of shell,
Python and C, and patches to a vendor U-Boot and to kernel drivers; the rest is
device trees, configuration, firmware, captured logs and vendored drivers.

| Part | Source | State it keeps | Operations | Interacts with |
|---|---|---|---|---|
| Publication | `release/plan.sh`, `build.sh` (`plan`, `assemble`, `release`), `release/repo.sh`, `release/publish.sh`, `release/verify.py`, `.github/workflows/release.yml` | the assets and index files of the rolling `apt` release; per run `build/out` | plan, build, merge, compare, prune, upload, replace the index, read back, prune again | other runs (CI's, a Mac's), GitHub's download URLs, every box's apt |
| Expiry | `release/expire.py`, `release/repo.sh` | `Packages`, `Contents`, publication stamps | stamp, keep the newest and what was replaced lately, close over Depends and kernel releases, merge `Contents` | Publication (what it may delete), `release/guard.sh` |
| Release guard | `release/guard.sh` | none | refuse a new deb that takes over another package's path | Expiry's `Contents` |
| USB burn tool | `tools/amlcmd/amlcmd.c` | the session with a box's vendor U-Boot or boot ROM, the transfer's place | connect, probe, read, write, backup, restore, drain, boot-ROM read/write/run, pass-through | a box over USB |
| Installer | `boards/common/tvb-install` | the eMMC's partition table, file systems, boot sectors | check, partition, copy, write the boot sectors last | board layouts, `amlcmd` (rescue) |
| Image layouts | `image/build.sh`, `image/aml-layout.py`, `image/aml-mpt.py`, `image/aml-env.py` | partition tables and environments | lay out, pack with checksums | Installer, vendor U-Boot |
| Device-tree tool | `tools/dtcx/dtcx.py` | a tree, its labels and phandles | decompile with symbols and references | board ports |
| Journal on flash | `base/` (`journal-spill` and its units) | journal in RAM and its copy | spill by timer and at shutdown | systemd |
| Video decoder | `patches/linux-meson/0002`, `patches/meson-codecs/` | per session: the queues, the VIFIFO's contents, a job, a drain worker, its flags | queue, feed, decode, STOP, START, seek, close | the m2m core, the microcode, a client |
| MT7668S transmit credit | `patches/mt76-mt7668/0001`, `0003`, `0008`, `0009`, `0012` | two pools of credit, rings of frames | size, charge, refill, poll | the part, the MMC core, mac80211 |
| SWT6621S block-ack | `patches/seekwave-swt6621s/0002` | per peer: which classes have a session, since when | set up, probe, tear down | the module's firmware, mac80211 |
| Other driver patches | `patches/**`, `boards/*/u-boot/` | canvases, firmware loading, vendor storage | | |
| Packaging | `package/*.sh`, `kernel/build.sh`, `release/inputs.sh`, `release/notes.sh` | none between runs | build one deb each, hash its inputs | Publication |

### What is hard, and what makes each part right

* **Publication.** Hours pass between the plan and the first change, several
  runs may be under way, every `gh` call may be the last, a replaced file is
  served minutes late, and GitHub has no transaction. Right means: an index a
  box can read names only debs it can download; a file name never comes back
  with other bytes; no box is left with a version newer than the newest; one
  publisher at a time; every run ends.
* **Expiry.** A fixpoint over Depends and kernel releases, dates, and a merge
  of two lists that may name the same version. Right means: closed under
  Depends, nothing a box upgraded to in the last half year disappears, the
  newest never does, and a second pass over its result changes nothing.
* **USB burn tool.** A transfer is cut in chunks, any of them may fail or the
  process be killed, and what the box has queued outlives it; two gadgets look
  alike; which disk is the eMMC is only inferred. Right means: a file said to be
  read is what the box has, one said to be written is on it; a restore cut short
  is a part of the image in its place, on the eMMC and nowhere else; and the mask
  ROM gets no command that wedges it.
* **Installer.** It may lose power at any write: a box must still boot what it
  booted before, or the card, never half of each.
* **Video decoder.** A client's ioctls, the work that feeds the parser, the
  decoder's interrupt and a drain worker over the same flags. Right means: the
  LAST buffer comes once and last, nothing outlives a close, nobody waits for
  ever.
* **Transmit credit.** Frames of two kinds share rings, pools and a status block,
  and the pool is first seeded with a wrong size. Right means: no credit is lost,
  made up or moved between pools, the part never overrun, and every frame goes.
* **Block-ack.** The firmware drops a session and does not say so. Right means:
  such a session is found, and no other way leaves a claim with nothing behind
  it.

## Modules

| Module | Models |
|---|---|
| `Debs` | The vocabulary: a deb is a name (package, version) and the run whose bytes it holds; sets of debs are the assets and the index files. |
| `AptRepo` | The abstract repository: a deb arrives under a free name, a deb no index names goes, the index moves on over hosted debs. What boxes rely on. |
| `Publish` | The pipeline: one action per step of `plan.sh`, `build.sh assemble`, `publish.sh`, per run. |
| `MCPublish` | Its instances for TLC. |
| `Stanzas` | A package index and what an expiry keeps of it, as operators: merge, stamp, roots, what a stanza wants, the least closed set. |
| `Expire` | One call of `expire()`, its loop step by step; `MCExpire` gives its small indexes. |
| `Catalog` | The repository over weeks: plan, build, guard, merge, expire, publish, one release at a time; `MCCatalog` gives its instances. |
| `Install`, `MCInstall` | `tvb-install`, every step of it cut short. |
| `AmlBurn`, `MCAmlBurn` | `amlcmd`: its verbs, between a host that is killed and a box that fails, resets or loses power; `MCAmlBurn` gives the boxes. |
| `VdecDrain` | One decoding session of the legacy codecs, every task's steps interleaved. |
| `SdioCredit` | `mt76s_txrx_worker` and its credit, against a part that frees frames when it likes. |
| `SkwTxBa` | The block-ack sessions the driver claims, and those the firmware has. |
| `PublishProofs` | Theorems of the pipeline, and of the abstract repository it implements. |
| `ExpireProofs`, `CatalogProofs` | Theorems of one expiry, and of release after release. |
| `InstallProofs`, `AmlBurnProofs`, `VdecDrainProofs`, `SdioCreditProofs`, `SkwTxBaProofs` | Theorems of those five. |

`Publish` is composed with `AptRepo` by refinement; `Expire` and `Catalog` share
`Stanzas`; `Publish` and `AptRepo` share `Debs`. The others interact with nothing
of this tree but what stands around them, which each models itself.

### Publication: state and actions

`assets` is the list of `.deb` assets of the `apt` release. `hosted[f]` and
`served[f]` are an index file as stored and as the download URL answers; a file
is the set of debs it names, the empty set a missing file. `InRelease` stands
for the five files replaced beside `Packages` and signs the `Packages` it was
made with. Per run: `base` is `build/out/release/Packages.published`, `reused`
the debs the plan fetched, `fresh` the debs it builds, `target`
`build/out/repo/Packages`, `todo` and `files` what its current loop has left.
`last` and `past` record what was indexed and exist for the properties only.

| Action | Code |
|---|---|
| `Plan` | `plan.sh`: read the served index, choose a reused deb or the next revision for each group |
| `Assemble` | `build.sh assemble`, `repo.sh`, `expire.py`: build, merge, expire |
| `NothingNew`, `CheckRuns`, `Compare` | `publish.sh:67`, `35-38`, `40-46` |
| `Delete`, `ListMissing`, `Upload`, `StartIndex` | `20-25`, `48-51`, `52`, `53` |
| `Remove`, `Replace` | `gh release upload --clobber`, `53-54` |
| `AwaitServed`, `Verify`, `Finish` | `56-59`, `60-64`, the last prune |
| `Refuse`, `Fail` | the checks that exit 1; any call failing under `set -e`, a job timed out or cancelled |
| `Refresh` | GitHub serving what is stored, some time later |

A package of the model is a package group of one upstream version: its
revisions count up from 1. What `expire.py` keeps is any set it may keep: all
that was built or reused, and of the rest anything that leaves each package its
newest. The inputs hash is any choice of a published deb to reuse. A deb's size
is all `verify.py` compares; the instances give all debs the same size, so that
nothing is told apart by accident.

### Assumptions about the surroundings

Four constants name what the scripts rely on and cannot enforce. With `Whole`
FALSE `publish_gap` ends in a finding; with `Prompt` FALSE TLC shows
`ServedDebsHosted` violated (the poll gives up, the old index verifies, its
debs are deleted); with `Answered` FALSE `IndexedDebsHosted`, `NamesKeepBytes`,
`NoBoxAhead` and `ImplementsRepo` (below); a workflow run does not look for a
Mac's, so with `Outlasts` FALSE two may publish at once.

* `Outlasts`: a workflow run planned while a Mac publishes is still building
  when the Mac is done. A run builds for hours (`timeout-minutes: 360`), a
  publication takes minutes.
* `Prompt`: a file replaced is served before the next publisher compares and
  before this one has polled `SERVED_TRIES` times (five minutes;
  `publish.sh:15` says a minute or two).
* `Answered`: the comparison gets the live index. `publish.sh:41` takes a failed
  download for an empty index, as a repository that has none yet needs, and a run
  planned in the gap of a replacement, or while that is still served after it, has
  an empty base: if both happen the comparison passes, and every deb is deleted
  under an index that names it. It takes no stop of `gh`, so `Whole` does not
  exclude it, and no Mac.
* `Whole`: `gh` is not stopped between deleting the old asset of an index file
  and uploading the new.

A machine's runs are taken one at a time: they share one `build/out`.

### Expiry, versions and the guard: state and actions

`Publish` asks whether a publication goes through, and lets `expire.py` keep
anything it may. `Stanzas`, `Expire` and `Catalog` ask what it does keep. They
share the operators of `Stanzas`, so what `Expire` checks of the loop holds of
the loop in `Catalog`.

A stanza is a package, a version (upstream and revision, in dpkg's order), its
Depends, its inputs hash and its publication day. A package is named by its
group, and for a kernel's image and headers also by the kernel release. A kernel's
image stands for its drivers' debs (`modules/build.sh`) too: the kernel release is
in their name, the metapackage pins them, they are built and fetched together and
every image has them. `Ships` gives each deb's paths, kernels' included. `Board`
are the groups whose packages Provide and Conflict with `tvb-board`
(`package/board.sh:62-63`), `MadeOf` what each one's image is made of.
`contents` is the published `Contents`, `tree` the state of the sources,
`shipped` the debs of the images last released.

| Action | Code |
|---|---|
| `Expire!KeepRoots`, `Grow`, `Stop` | `expire.py:90-105` |
| `Assemble` | `plan.sh:31-74` for every group, `kernel/build.sh:84-116` and `package/*.sh`, `guard.sh` unless it is skipped, dpkg's own refusal in each board's image (`image/build.sh:24-46`), `repo.sh:12-26`, `expire.py:81-96` |
| `Grow`, `Publish` | `expire.py:97-105`; `108-122` and the publication |
| `Reissue` | a release with nothing new to publish |
| `Pass` | a day |

`past` and `newestTill` record what was indexed, and until when a version was
its package's newest; they exist for the properties only.

`MovesAnnounced` asks of each new deb, as the guard does, that it Replaces and
Breaks the published owner of every path it ships, or Conflicts with it: two
boards' packages may ship one name (`usr/lib/tvb/board.dtb`), for they never share
a box or an image. An older kernel copied in for another's version
(`repo.sh:18`) counts as rebuilt, so its lines replace the newer one's in
`Contents` (`expire.py:118-122`): of a kernel's package `ContentsOfNewest` says
only that they are one deb's, whole.

Two constants: `Forward` says that a kernel's upstream does not go back: after
its debs have expired, its revisions would start over. `Guarded` says that no
release skips the guard, as `TVB_RELEASE_GUARD=0` and the workflow's
`unguarded` let one (`build.sh:207-208`); with it FALSE TLC shows
`UpgradesUnpack` violated, which is why such a release is for one "no box
upgrades into" (`docs/build.md:113`). Nothing else rests on it.

Left out: `Depends` with any relation but `=` or none (no package of the tree
uses another), what a hash is made of. A change that is taken back is released
under the older version its inputs were published with (`plan.sh:41-52`); no
property says that apt takes a box back to it, and it does not.

### Installer: state and actions

The target's `table`, the rootfs as its medium holds it (`root`) and as its
mounted file system shows it (`mounted`), and which sectors before it hold the
source's (`boot`) or are being written (`piece`). `k` and `pos` are the loop's
place in `preserve-sectors`.

| Action | Code (`boards/common/tvb-install`) |
|---|---|
| `Begin`, `Partition`, `MakeRoot`, `CopyRoot`, `RenameRoot`, `Unmount` | `80-122`, `126`, `134-140`, `141`, `142`, `143` |
| `Skip`, `Write`, `Sync`, `Finish` | the loop, `147-152`, and `153` |
| `Fail`, `PowerLoss`, `Again` | `set -e` and the trap; anything not synced may or may not be written; another call |

A board's ranges lie between the table and the rootfs and ascend
(`BoardsAscend`), as those of all four boards do.

### USB burn tool: state and actions

The box: the sectors of each port's disk (`disk`), the staging memory (`stage`),
what it has queued on the bulk IN (`pipe`), whether the key window may be read
(`open`), whether it is `away`, `waiting` for a moment of its start to be
identified, in the burning `gadget` or in the mask `rom` (`mode`), and where a
reset goes (`usbBoot`). `host` is one `amlcmd` process: its place, its verb's
arguments, the device and size it made out, the file it writes. All but `host`
outlive it.

| Action | Code (`tools/amlcmd/amlcmd.c`) |
|---|---|
| `Begin`, `Connect`, `NoBox`, `Identify` | `check_arity`, `main`, `connect_box`, `is_mask_rom` and the dispatch on it |
| `Lift`, `AskSize`, `SizeRefused`, `Probe` | `disprotect_key`, `emmc_sectors`, `discover_mmc_dev`, `resolve_mmc_dev`, `cmd_probe` |
| `ReadWindow`, `ArmUpload`, `Header`, `EmptyHeader`, `Bulk` | `cmd_backup`'s loop, `cmd_read`, `upload`, `read_bulk` |
| `ArmDownload`, `Send`, `Verdict`, `WriteWindow` | `cmd_restore`'s loop, `cmd_write`, `stage_reads_back`, `download` |
| `RomMoves`, `RomRuns` | `rom_read`, `rom_write`, `cmd_rom` |
| `Passed` | `passthrough`, of `set_usb_boot` and `reset` |
| `CommandFails`, `TransferFails`, `FileFails` | `run`, `die` (which drains), `fail` |
| `Kill`, `Drain`, `PowerLoss`, `Waits`, `Abandons` | the process killed, `amlcmd drain`, the box unplugged, starting, and booting on |

A chunk stands for a sector; packets and the checksum's arithmetic are left out:
a chunk arrives whole or is answered with a bad verdict. A failed command may
have been done or not. What the model takes for granted:

* `AllAnswer`: a disk that can read a sector says so when it is asked. With it
  FALSE TLC shows `OnlyEmmcWritten` violated: a restore goes to the card that
  answers when the eMMC does not, against `amlcmd.c:378`, "a write never proceeds
  on a guess".
* `FileReads`: the image can be read to its end. With it FALSE TLC shows
  `TargetIsFile` violated: `cmd_restore` (511) takes a read error in the last
  window for the file's end.
* `FileTakes`: what `rom read` writes to its file is written. `rom_read` (423) does
  not look at `fwrite`'s result and `cmd_rom` (533) at `fclose`'s alone, so the file
  of one that ends well may be short. `FileIsSource` is about a backup or a read in
  any case, and about a `rom read` if the file takes what it is given.
* After a kill the owner drains before the next verb, as
  `docs/amlogic-burning-mode.md:70` has it, and one who names a device by
  `AML_MMC_DEV` names the eMMC's.

Left out: `AML_MODE`, which overrides what `identify` says; passed-on commands
whose effect is the box's own; a command longer than the 63 bytes
`passthrough` cuts it to; an empty upload header in the middle of a transfer of
memory, which the box has no reason to send.

### Video decoder: state and actions

`src` and `fifo` are the inputs queued and parsed, `queued` and `done` the CAPTURE
buffers on the driver's side and on the client's. `job` and `trans` are the
driver's and the m2m core's view of the job; `feedAt` and `drainAt[t]` where the
feeding work and each task that may find itself draining are. The flags have
their names of the code. `lasts` counts the LAST buffers for the properties.

| Action | Code (`vdec.c`, `esparser.c`, `vdec_helpers.c` as patched) |
|---|---|
| `QueueInput`, `Return`, `Stop`, `Start`, `SeekOff`, `SeekOn`, `Close`, `Release`, `Free` | the client's ioctls: `vdec_vb2_buf_queue`, `vdec_decoder_cmd`, `vdec_stop_streaming`, `vdec_close` |
| `FeedBegin`, `FeedOne`, `FeedYield`, `FeedComplete` | `esparser_queue_all_src`, `amvdec_m2m_begin_yield`, `vdec_m2m_complete_started_job` |
| `DrainBegin`, `DrainCheck`, `DrainEos`, `DrainInactive`, `DrainLast`, `DrainMark`, `DrainEnd` | `vdec_m2m_drain_work`, `vdec_m2m_finish_drain`, `vdec_wait_inactive`, `amvdec_drain_empty_last` |
| `PictureDone`, `GiveLast` | the interrupt: `dst_buf_done`, `amvdec_dst_buf_done_empty_last` |
| `Cancel`, `AbortEnd`, `JobFinish` | `vdec_m2m_job_abort`, the job's completion |

Three constants name what the driver relies on. With any of them the other
way TLC shows a property violated, and the hazards in `PROJECT.json` say which:
`Prompt`, a client that may returns its buffers, and what is in the VIFIFO decodes,
within the 50 ms that end the drain's wait; not `Hasty`, no client restarts the
stream while its drain is under way; `Restarts`, a client that seeks says START.

### Transmit credit and block-ack: state and actions

In `SdioCredit` a frame is its port bit. `ring` holds what is queued, `mcu` and
`data` the two pools, `held` what the part holds, `freed` what its status block
returns. Of `mt76s_txrx_worker` one round is `RunQueue` for each ring, then
`ReadStatus`, in the code's order; `Begin` disables the interrupt, `End`
enables it; `Sized` and `Up` are the answers of the two commands that size the
part. Assumed: the first seed is no smaller than the command queue (`Seed`, 32
and 7 in `docs/h96max-m20/worklog-wifi.md`), and a command's credit returns
before its answer. And `SizesTold`: the part's answer has its totals. One
without them, or with too short an element, is no error (`0008:633-653`): the
pool of commands stays at its seed with no cap, and the part is overrun; with
`SizesTold` FALSE TLC shows `ChargedIsOutstanding` and `NeverOverrun` violated.
Of a data frame and a management frame only the port differs; sizes in pages,
other parts' accounting, and what a failed write leaves are out.

In `SkwTxBa` `claim` is the driver's bit and its age, `session` what the firmware
has. `Frame` is `skw_setup_txba`, `ProbeAsks` and `ProbeJudges` the probe's work
before and after the command it waits for, `SetupSent` and `SetupFails` the
set-up's. Time is a deadline that may pass at any moment (`Passes`). That a frame
without a session goes at a legacy rate, while the peer's downlink runs HE (`He`),
is what the patch and the notes measured of the firmware. The check is on:
`txba_stale_sec=0`, which the parameter allows, turns it off, and then nothing
finds a session dropped in silence.

## Runs

| Run | Instance | Shows |
|---|---|---|
| `publish_calls` | two workflow runs and a Mac's, one package, `Whole` FALSE, under fairness | one publisher; the index, stored or served, names only hosted debs; success leaves exactly those; every run ends |
| `publish_groups` | two workflow runs, two packages (one published before) | names keep their bytes, no box ahead, and `Publish` implements `AptRepo` |
| `publish_gap` | `Whole` FALSE | finding: a 404 during a replacement is planned against as an empty repository |
| `publish_unrepaired` | all four TRUE | finding: images go out over a repository a failed run left unreadable |
| `expire_loop` | 2,700 calls: two kernels with headers and metapackage, three board versions, each missing or of two days, four sets of shipped debs | the loop ends, at the least set that has the roots and all they want; every Depends finds what it found before |
| `catalog_days` | two kernel families, three and two builds over two upstreams, one family's second without a module its first had, or a base and two boards, which share a path and an image each, with another path that moves with or without notice; no release skips the guard; a window of one day, five days | every Depends resolves; what was replaced stays for the window, whole, and no longer; none is orphaned; publication days do not move; a name keeps its inputs; `Contents` follows what was published; no upgrade of a box that takes every release is stopped at an overwrite |
| `catalog_moves` | the path only | finding: a path dropped in one release and taken in the next is not announced |
| `install_cuts` | every ascending list of up to two ranges over five sectors | the unit's sectors are kept; the loader comes last; what is reported installed is whole |
| `amlburn_copies` | three verbs, windows of two sectors over an eMMC of three with one guarded, a partition of one; on the other port no disk, a smaller, a like or a larger one | what is said to be read or written is; a restore cut short is the image so far, on the eMMC only; nothing stays queued; the mask ROM gets no command |
| `vdec_drain` | three inputs, two STOPs, a seek, two CAPTURE buffers, under fairness | the LAST comes once per STOP, after every picture; nothing outlives a close; a STOP is answered and input parsed |
| `sdio_credit` | two data rings and the commands', two frames on each port, five frames, under fairness | credit is conserved in each pool, the part not overrun, what is queued is sent |
| `skw_txba` | two classes of one peer, two works and one event under way, under fairness | only a session dropped in silence is claimed with nothing to end it, and it is asked for again |

Two workflow runs are enough for one to fail at any step and the next to meet
what it left; the third actor is the one of the other kind. One package with
one published version meets every step; the second package, unpublished, adds
runs that reuse one group and build another. Each run of the instance publishes
once, so versions reach 3 and no other bound is needed. Runs are finite, so a
state where all have ended is no deadlock.

In `Catalog` a window of one day with five days lets a version be published,
replaced, kept, expired and its number looked for again; two families at shared
versions are what copies one's debs into the other's release, an older build's
among them, whose paths then stand in `Contents`. The model stops
at `LastDay`, so a state with no step left is no deadlock. In `Install` five
sectors and two ranges give every way two ranges may lie: at the table, at the
rootfs, touching, apart. Its behaviours have no bound. In `AmlBurn` three
sectors make a whole and a short window; three verbs (`Verbs`, its one bound) let
one be cut short, the next run over what it left, and a third read it. A start past
the disk's end makes a backup's count wrap, at eight sectors for 2^64 (`Width`).

In `VdecDrain` two CAPTURE buffers let the LAST find none queued; a second STOP
and a seek meet what the first drain left. In `SdioCredit` a seed of three over a
part of two has the excess the real one has, batches of two are cut by either
pool, and five frames (`Frames`) fill both and wait. In `SkwTxBa` two classes are
what a probe may confuse; the queue of two works is full often, and two events
under way instead of one keep `ClaimIsBacked` but make its liveness too long to
check. None of the three is expected to go on for ever: a session is closed, the
frames of the bound are sent, and the rest is a state with nothing to do.

Fairness: a run of the pipeline under way is driven by its script, so each of its
steps is weakly fair; GitHub does serve what is stored, so `Refresh` is. Nothing
is assumed to start a run, to fail it or not to. `Expire` is a program on its own
and runs on. In `VdecDrain` the kernel runs its works, the decoder decodes, the
client takes pictures and returns buffers, and a close or a seek it began goes on;
nobody has to stop, seek or close. In `SdioCredit` the worker runs, the host looks
at the card's interrupt, the part sends what it holds and answers. In `SkwTxBa`
works run and events are handled, deadlines pass, the firmware answers; of works
that may fail again and again not all of a kind do (strong fairness of `ProbeAsks`
and `SetupSent`). `DroppedIsAskedAgain` is of a class that goes on sending and is
alone in it: a rate is that of the peer's last frame, so another class whose
frames are always the last hides the loss. `Catalog`, `Install` and
`AmlBurn` have no liveness properties.

## Proofs

What each theorem assumes of the constants is in its statement; the constants that
are hypotheses are explained above, with what breaks without them. For any sets of
runs, packages and published debs:

1. `PublishProofs`, in four parts. Types, and one publisher at a time: a Mac's
   look proves nothing about workflow runs that start later, so `Exclusive` says
   that such a run is still `planned` and waits for the Mac (`Outlasts`). With one
   publisher, `Fits` says what it finds at each stage: while it prunes, the stored
   and the served index are the one it planned against; while it uploads, everything
   of its new debs is either hosted or still to do; while it replaces the index, old
   and new debs are both hosted. From that, the stored and the served index name
   only hosted debs, and success is exact: with `Prompt` and `Answered`, since a
   comparison that passes must mean that the base is what is stored. With `Whole`,
   the index last stored is
   the stored one except inside a replacement; so every step of the pipeline is a
   step of `AptRepo` or none, names keep their bytes and no box is left ahead.
   Last, whatever moves only by the steps of `AptRepo` keeps its promises
   (`RepoInv` adds that the index is part of the past and that hosted names are
   unique).
2. `ExpireProofs` - for any indexes of finitely many stanzas. Nothing that can go
   together is ever kept (`NoneTooMany`): what is wanted of some is wanted of more,
   so no pass of the loop reaches into a set that the rest does not want; and once
   the loop stops, what is left out can go. That a Depends finds in what is kept
   what it found before takes a newest deb among those it allows: the one with the
   fewest newer than it.
3. `CatalogProofs` - for any groups, inputs, window and days, invariants that
   build on each other. `CatalogInv`: every Depends of what is published or
   merged is met there, a pinned one by the image built with it; a kernel's
   debs are kept with their metapackage, a metapackage with its image and
   headers; a package has a newest version, since revisions are bounded, and
   upstreams in each group. `WindowInv` (`GoBack`): all that is newer than a
   version was published since that version was replaced, and something newer
   stays, since the newest always does. `OwnersInv` (`ContentsOfNewest`,
   `UpgradesUnpack`): the debs a release copies in or builds are one of a
   package, of a plain one newer than all published, and all stay, since the
   images are made of them; and, if the guard is not skipped (`Guarded`), what
   is added announced what it takes from a plain package. `NamesInv`
   (`NamesKeepInputs`, under `Forward`): no group ever had a version newer than
   the newest it has, so what is added is newer than all it ever had, though
   counted from what is left. `OldInv` (`OldOnesGo`, under `Forward`): what
   first replaces an indexed version is of the day it was replaced, or, when
   that one has gone, of before the window: the last to go before it went
   because of it. And `PublishesLeast`: what a release publishes of what it
   merged is `Kept`, the answer `LeastIsKept` gives for `expire()`.
4. `InstallProofs` - for any place of the rootfs and any ascending ranges. The
   invariant's `Covered` says that every sector before the loop's place is
   copied or the unit's; `Places`, that no later range begins before the piece
   being written ends; and while the loop runs the rootfs is whole and unmounted.
5. `AmlBurnProofs` - for any ports, disks, windows and verbs. `Quiet` says that
   the bulk IN is empty but for the one chunk a transfer waits for, or after a
   kill; `Identified`, that past its dispatch a verb other than `rom` talks to
   the gadget; `SizeIsEmmcs`, that the size on its way to the host is the
   eMMC's, in memory, queued or read; `Aimed`, that a restore past its
   discovery has the eMMC's port, which needs `AllAnswer`. What is moved is a
   second invariant, `DataInv`. Up: `Filed`, that the file so far is what the
   box has there, `Fetched`, that the window in the staging memory and the
   chunk queued are what comes next; of a `rom read`, if the file takes it
   (`FileTakes`). Down, if the file can be read: `Arrived`, that the window's
   chunks up to the one at hand are in their places, that one if the verdict
   queued is good, and that those places exist; `Staged`, that a window to be
   written is the image's; `Stored`, that the windows before it are on the
   disk. Each rests on `Fresh` and `Ranged`, that nothing is moved before a
   verb's discovery is over and no more than asked after. A wrapped count needs
   no hypothesis: such a backup never ends well.
6. `VdecDrainProofs` - for any number of inputs, STOPs, seeks and CAPTURE
   buffers. `JobInv` says who holds the m2m job and what a close has still to
   wait for, which is all `NothingAfterRelease` takes. That a STOP has one
   LAST, and that it comes last, take `DrainInv`: nothing of a drain is left
   while the client plays or seeks (`Restarted`); whoever took the drain on
   told the parser and then the decoder to stop (`Stopping`); once the LAST is
   out or about to be, no picture is left that will come out (`Over`); what
   stops has yet to give its LAST or gave it (`Giving`); and a mark left by a
   seek without START keeps its stream from being parsed (`Stale`). Both need a
   client that does not restart under a drain (`~ Hasty`) and a decoder that
   has decoded within the drain's 50 ms (`Prompt`). With two CAPTURE buffers
   one LAST per STOP holds without `Prompt`; with three TLC shows it violated:
   the drain gives up its wait and gives the LAST, and the picture decoded
   after that, the last of a stream that stops, brings a second.
7. `SdioCreditProofs` - for any rings, totals, seeds, batches and polls, and a part
   that tells its sizes (`SizesTold`). While it is being sized the pool of commands
   holds too much, through the second command too: the invariant says that only one
   command is then out at a time, and that the refill with the second's credit,
   before its answer, cuts the excess, so that from `Up` on credit is conserved.
8. `SkwTxBaProofs` - for any classes and queues of any length: `Backed` says of
   each class of a joined peer what `ClaimIsBacked` says of all; the proof is about
   what a queue still holds when a work is appended to it or its first is taken.

Only model-checked: `RunsEnd`, `Ends`, `StopIsAnswered`, `InputIsParsed`,
`QueuedIsSent` and `DroppedIsAskedAgain`: liveness is out of the prover's reach.
Every safety property of a passing run is a theorem. No property says that a box
whose installation lost power inside the copy of the loaders boots from that
disk: it need not, and boots from the card.

## Not modelled

* `research/seekwave-tx-latch-bug/decomp/decomp-iram.c`: 64,012 lines of a
  decompiler's output from the Wi-Fi module's firmware. It is evidence of a
  third party's program, not this tree's; counted by lines it is most of the
  tree's C, so most of the tree's C is not modelled. What the notes on it say of
  block-ack sessions is the firmware in `SkwTxBa`; its rate control is not.
* The drivers the patches change, but for what the patches show or use. Patches
  that show too little of theirs (firmware loading, canvases, encoders, vendor
  storage) are left out.
* Image layouts, `dtcx`: sequential programs that write a file, with nothing
  to interleave; they are tested by their output.
* The journal's spill: six lines around systemd-journald, whose behaviour is the
  question.
* Packaging, but for the versions and Depends it yields; boards; captures.

## Plan

Done, in this order: `Debs`, `AptRepo`, `Publish`; `Stanzas`, `Expire`, `Catalog`;
`Install`; `AmlBurn`; `VdecDrain`, `SdioCredit`, `SkwTxBa`, and the theorems above.

Left, in the order of what it would add: the canvases of queued buffers, once the
patched driver is at hand; layouts that do not overlap.
