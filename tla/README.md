# bdmount: a verification project

bdmount serves a decrypted view of a Blu-ray disc. It opens the disc through
libmmbd (MakeMKV), scans the file tree, exports it over NFS on `127.0.0.1`,
mounts that export with `mount_nfs`, and decrypts AACS units while NFS reads
them. This directory holds TLA+ modules that model its moving parts, the TLC
configurations that check them, and TLAPS proofs. Each definition that stands
for code is listed in `PROJECT.json` under `map` with the lines it translates.

## 1. Inventory

| Component (source) | State it keeps | Operations | Hard behaviours |
| --- | --- | --- | --- |
| Decrypting read path (`decrypt.rs`) | `mmbd` mutex over the libmmbd context, unit LRU, `last_end`, `shutting_down` | `read`, `shutdown`, `kick_prefetch` | NFS threads race each other and a teardown; windows longer than requests; errors in the middle of a window; detached prefetch threads |
| Raw UDF reader (`rawudf.rs`) | open device, `ahead` and `next` windows, metadata cache | `read_at`, `prefetch`, `open`, `lookup`, `list_dir`, device discovery | prefetches that arrive late, twice or for another file; extents and partition maps |
| NFS file system (`vfs.rs`) | the tree, the engine | lookup, getattr, read, readdir | directory pagination, end of file, errors |
| Disc tree (`disc.rs`) | nodes | `scan`, `scan_udf`, `classify`, `find_bd_volumes_except` | which files are encrypted and under which `name_flags`; scan errors |
| Mounted disc (`mount.rs`) | `mounted`, `torn_down`, `REGISTRY`, `RELEASED`, kernel mount table | `mount`, `teardown`, `unmount_path`, hold-off | teardown from two threads at once; failure between two steps of `mount`; stale NFS mounts |
| Watch mode (`watch.rs`, eject hook of `da.rs`) | `active`, `failed` | the poll loop, `on_unmount_request` | the DiskArbitration callback runs on its own thread beside the loop |
| Mount mode (`main.rs`) | `live` | the 1 s loop, eject requests, take-over | discs that vanish, partial failure, several processes |
| Claims and tray eject (`da.rs`) | `CLAIMED`, `claimed.json` | `on_mount_request`, `eject_after_release_filter`, `eject_whole_disk` | persisted claims of an earlier process, reused BSD names, one failing eject of several |
| Idle verdict and mailbox (`idle.rs`) | `status.json`, `eject-request.json` | `observe`, `wait_until_idle_for`, `is_safe_to_eject`, `take_eject_request` | processes that come and go while they are listed, a mailbox of one slot |
| Drive inventory (`drives.rs`) | none | `list_drives` | parsing of the I/O registry |
| libmmbd wrapper (`mmbd.rs`) | the C context | `open`, `decrypt_unit`, `close` | pure FFI |
| Command line (`main.rs`) | none | `list`, `status`, `probe`, `unmount`, `eject` | `eject` talks to another process through files |

How they meet: the NFS server's threads call `BdFs`, which calls
`DecryptEngine::read`, which calls `RawUdf::read_at` (raw mode) or the file
system (volume mode) and libmmbd. A poll loop (watch or mount mode) owns the
`MountedDisc`s; DiskArbitration callbacks run on their own dispatch queues and
reach them through `REGISTRY`. A second `bdmount` process (`eject`, `status`)
sees only the files `status.json`, `eject-request.json`, `claimed.json` and the kernel's
mount table.

## 2. Plan

Order: the read path first (it is what bdmount is for, and where threads meet),
then the reader below it, the life of a mounted disc, the two loops that own
mounted discs, and the tree.

| Module | Models | State | State of the plan |
| --- | --- | --- | --- |
| `ReadService` | what the engine promises the NFS server | requests and answers | written; refined by `DecryptEngine` |
| `DecryptEngine` | `decrypt.rs` | readers, closers, the two mutexes, the LRU, prefetch threads | written, checked, safety and refinement proved |
| `RawUdfWindow` | `RawUdf::read_at`, `prefetch` | two windows, waiting prefetches | written, checked, safety proved |
| `UdfExtents` | `RawUdf::open`, `meta`, `read_extents`, `read_abs` | spaces, extents, the transfer under way | written, checked, safety proved |
| `MountedDisc` | `mount.rs` | registry, hold-off, views, sessions, helpers, calls of each thread | written, checked and proved through the three below |
| `Watch` | `watch.rs`, the unmount hook of `da.rs` | the loop, the hook, the system | written, checked, safety proved |
| `MountMode` | the loop of `cmd_mount`, the mailbox, the claims | the loop, the request, claims, drives | written, checked, safety proved |
| `DiscTree` | `disc.rs`, `vfs.rs`, `RawUdf::lookup` | the walk, the tree, an NFS client | written, checked, safety proved |
| `Vectors` | what the code does with its vectors | none | written, its operator proved |
| `EjectCommand` | `take_over_os_bd_if_needed`, `eject_after_release_filter`, the `eject` command, crash and restart | two processes, the files they share, orphaned helpers, Finder mounts | written, checked, safety proved |
| `IdleVerdict` | the other fields of `status.json` and who gets listed as a holder | processes, snapshot | not written (section 7) |

`Watch` and `MountMode` extend `MountedDisc`; each adds the loop and the callers
of one mode, and interleaves its own steps with those of `MountedDisc`.
`EjectCommand` extends `MountMode` with the life of the process that runs the
loop, and with a second process beside it.
`DecryptEngine` uses the interface that `RawUdfWindow` and `UdfExtents` give
(`read_at` returns the bytes of the range); the split keeps each small enough to
be checked exhaustively.

The theorems of a module are in a `...Proofs` module beside it (section 6); those of
`MountMode` are in `EjectCommandProofs`, with those of the module that extends it.

## 3. The modules and the code

**DecryptEngine.** A reader is a `spawn_blocking` thread of the NFS server in
`DecryptEngine::read`; its program counter says which shared thing it touches
next: `fast` (the all-cached pass over the LRU), `lock` (waiting for the `mmbd`
mutex), `loop` (the outer loop), `src` and `io` (before and during
`read_source`), `dec` (the decrypt loop), `note` (`note_read`). Offsets are whole
units, because the engine aligns everything to units of 6144 bytes and clips
requests in `append_slice`. A unit's bytes are a record of file, number and form,
which is all the properties tell apart. What a chunk is like is a constant of the
disc: it decrypts (`ts`), libmmbd accepts it and yet it is no clear TS (`noise`, which is
served and cached with a warning), libmmbd refuses it (`bad`), it has no sync byte
(`pad`), it ends the file (`tail`), or the source ends in it (`cut`). A source may give less
than the size of its node (`Given`, `Size`): a window that comes back short ends the read
(`EndOfSource`), as if it were the end of the file. What the engine promises, `ReadService`,
is therefore all of the request that the source gives, and no more can be promised:
`ShortOnlyAtEnd`, which the comment of `read` says (`decrypt.rs:114`), does not hold. The LRU evicts any entry: every hit reorders
it, and a property that holds for any victim holds for the least recent one.

**RawUdfWindow.** One mutex covers `read_at` and `prefetch`, so each is a single
step. The reads are those the engine makes: windows of whole units, followed by
a prefetch thread, and passthrough reads of any range.

**UdfExtents.** `BuildSpaces`, `Resolve` and `ExtentsAbs` turn the descriptors of
a disc into absolute extents; a read then goes through them transfer by transfer
and the device may return less than was asked for. `Disc` is what the parsers can
return. `FileByte` is the reference: where the disc has a byte of a file by the format,
each block looked up by itself (`At`, `MetadataSector`), while the code looks up the first
block of an extent and reads on from there. It goes by the descriptors alone (`CopyOf`,
`FileRuns`) and uses none of the code's tables; a block of the metadata file that is not
recorded is a block to it, where the code leaves it out. The two agree on an extent that
does not run over the end of an extent of the metadata file (`Unbroken`); `Readable` says
this of every extent of the file, and that neither the file nor a metadata file has holes
(`NoHoles`), the extents hold all of the file, and the device has them. `ReadsFile` is
about such files. `Outcome` is what the open comes to; a file set behind the last map is an
index out of bounds (`rawudf.rs:600`).

**MountedDisc.** `mount` and `teardown` as procedures that any thread may be in,
one step for each thing another thread can see. `Failures` names the steps that
may fail in a run. Waiting for `umount`, `mount_nfs` and helpers is a step that
may come late; the hold-off of 15 s is two steps of a clock (`Settle`, then
`Swept`).

**Watch.** The loop's round is split where it looks at shared state: the tick
(which views are gone), one teardown at a time, the scan, one mount at a time.
The hook runs between any two of them. The system inserts discs, asks for
approval of an unmount, unmounts what was approved, and may lose a disc.

**MountMode.** One tick is: take the request (read, then remove), release and
eject what it names, drop what is gone, poll, mount one disc. `persist_claimed`
is one step. `bdmount eject` is another process that writes the mailbox in two steps,
as `std::fs::write` does: `OpenMailbox` cuts off what was in the file, `WriteMailbox`
writes the request. Between them the file is `Torn`; a loop that reads it then removes it
(`Parse`) and finds nothing in it. Requests read whole are in the history `wanted`, the
others in `unheard`. `Insert`
and `Vanish` are what hands do to a drive. A disc is a Blu-ray, one that libmmbd
cannot open, or a DVD with a `BDMV` directory.

**EjectCommand.** Two processes that share nothing but files and the kernel's
tables. `bdmount mount` starts (`Start`), takes over what Finder has mounted
(`TakeOverCheck` to `TakeOverDone`, one step for each volume looked at, unmounted,
claimed and probed), runs the loop of `MountMode` and ends, by itself or by
`Crash`, which may come at any step. What it leaves behind is the state of the
next start: views of dead servers in the mount table, makemkvcon helpers without a
parent (`orphans`), a claims file (`persisted`), a pid in the snapshot
(`statusPid`) and perhaps a request in the mailbox. `bdmount eject` reads the
snapshot (`EjectBegin`) and either writes the mailbox (`EjectOpen`, `EjectWrite`) or, when no mount
process seems to live, unmounts and ejects by itself (`EjectDirect`,
`EjectUnmount`, `EjectHelpers`, `EjectWait`, `EjectDisk`, `EjectForget`), while a
mount process may be starting. Another program opens and closes files of a volume
Finder has mounted; it need not be one the list of holders knows. That `umount` without
force and DiskArbitration refuse a volume that is in use is an assumption.
`HeldAt` says who is seen at a device, the process's own device file included.
A mount's number is used again once nothing of the mount is left.

**DiscTree.** The recursion of `walk` is a stack of frames, one per directory.
`walk` (volume) and `walk_udf` (raw device) share their actions; where they
differ (a `stat` that fails, a size that cannot be read, a name that differs in
case) the action says which of the two it is about. On a raw device the walk
takes an entry from the listing but lists, sizes and later reads it by its path,
and `RawUdf::lookup` takes the first entry of a name whatever its case. `Find` is
that lookup, used wherever the code goes by a path. An entry with another before
it that differs in case only is a `Namesake`: it is shown under its own name with
the size and the entries of the other. `.DS_Store` counts as one too, because the walk
passes over it and the lookup does not. `PathsLead` and `Mirror` are about all
other nodes; nothing holds of namesakes, and the run has such discs. A disc
(`Wellformed`) gives no two entries of a directory the same name, letter for
letter, as UDF requires; deleted ones aside. `skipped` remembers what was left out, for `Mirror`. A file has a size and as many bytes as
there really are (`data`); a reply has what the engine has of the range, which ends at the
first of the two (`Ends`), and a read may be answered with an error (`ReadFails`).

**Vectors.** `Kept` is `Vec::retain`, and a filter that collects; `MountedDisc` and
`DiscTree` use it.

A definition whose comment begins with "Mutant:" is not part of the model. It is
a plausible bug of the definition next to it, and `PROJECT.json` names the
property that finds it when it takes that definition's place.

## 4. The runs

| Run | Question | Bounds, and why they are enough |
| --- | --- | --- |
| `engine_udf` | Do two readers, a teardown and the prefetch threads keep the cache, the windows and the drive in order on a raw device, and do `shutdown` and the engine come to an end while reads keep arriving? | Requests of one unit, a stream of 2 units whose source ends inside the second, one of 1 and a passthrough file, cache of 2, windows of 2 and 1: windows longer than the request, short windows, eviction inside a window, two readers in one window |
| `engine_volume` | Does the engine implement `ReadService`, and is libmmbd used safely, when two teardowns race? | A stream of 4 units (one that decrypts, one that does not, one refused, one cut off), windows of 2 and 1, requests of up to 2, a cache of 1, and a passthrough file of 2 units whose source gives 1 |
| `udf_windows` | Can the two windows be seen in the bytes? | Files of 9, 4, 6 and 2 bytes, read-ahead of 5, units of 2: 2 does not divide 5, as 6144 does not divide 16 MiB |
| `udf_prefetch` | Does a prefetch pay? | A stream of 18, read-ahead of 5, units of 2. **Violated** |
| `udf_extents` | Are the right bytes read? | Seventeen discs of 24 sectors of two bytes: no map, type 1, metadata in several extents, a mirror, broken ones, a hole in the metadata file and one in the file, a file longer than its extents, an extent that runs over the end of an extent of the metadata file, a truncated image |
| `watch_eject` | Do registry, views and sessions stay in step over eject and reinsertion? | Two sources, three mounts, three insertions: one disc twice with another one in between; `open` and `mount_nfs` may fail |
| `watch_gone` | Is everything let go in the end, whatever fails? | One source, two mounts, every failure, discs that vanish, asked by source and by view |
| `watch_release` | Is a disc always released before its volume is unmounted? | One source. **Violated** |
| `mount_eject` | Does the loop keep, release and serve what it should? | Two drives, each with or without a disc of any kind at the start, one more insertion, discs that leave by hand, one request for the second or both, an eject that may be refused |
| `eject_pair` | Do a process that crashes and starts again, what it left behind, and an eject process beside it go together? | Two drives with Blu-rays (`mount_eject` has the DVDs), two starts of the mount process (one crash), one insertion, one `eject` for one disc or for all, every eject and every look for holders may fail: the second start meets all that the first can leave |
| `claims_lost` | Does the claims file keep what an earlier process claimed? | The same two drives. **Violated** |
| `disc_tree` | Does the view mirror the disc, and does a client get all of it? | Seven discs of up to four levels with hidden, deleted, special and namesake entries, directories among them, and one whose streams have fewer bytes than their size; pages of 1 and 2, reads that fail |

A disc that stops existing, a signal and an exit are ends of the system, so
`Watch` and `MountMode` have a step `Exited`, and `EjectCommand` a step `Over`, that
change nothing. In `DiscTree` a scan
that failed is such an end, and its run does not check for deadlock.

What the failing runs show:

- `udf_prefetch` (`PrefetchPays`). A sequential window of the engine is
  2730 units, 4096 bytes less than the 16 MiB window of the reader. The offset
  behind it is therefore still in the current window, `prefetch` takes that to
  mean it has nothing to do, and the next window waits for the drive.
- `watch_release` (`ReleaseBeforeUnmount`). A disc enters the registry only when
  `mount_nfs` has succeeded. An unmount request before that finds nothing and is
  approved while libmmbd has the disc open.
- `claims_lost` (`ClaimsSurvive`). `persist_claimed` writes the claims of the
  process that calls it and nothing else. The first disc that a new process
  claims drops the claim of an earlier one from the file while its disc is still
  in the drive, so a later `bdmount eject` does not know it.

Known limits of the passing runs, most of them also in `PROJECT.json` under `hazards`:

- `watch_eject` leaves out the failure of `prepare_mountpoint`, after which the
  session and the server stay in no list; `AllLiveMounts` does not hold with it.
- `watch_eject` has no disc that vanishes: if one is pulled and put back while its
  teardown takes longer than the hold-off, `OneSession` does not hold.
- A signal while the hook tears a disc down ends the process with the view mounted.
- `mount_eject` has one request. With two, the second overwrites the first or is
  removed unread, and `RequestHonoured` does not hold.
- `NoOrphan` leaves out discs that left by hand: `live.retain` drops them as they
  are.
- `RequestHonoured` is about requests the loop reads whole. The mailbox is truncated and then
  written (`idle.rs:94`; the snapshot is written to a temporary file and renamed). A
  loop that reads it in between removes the file and drops the parse error, and the request
  is lost. `EveryRequestHonoured`, which counts such a request, does not hold: TLC finds it violated with
  Blu-rays only, no insertion, one request and no failure.
- `ServedUnlessHidden` leaves out two kinds of runs. A disc that libmmbd cannot open and that
  stays in: the loop mounts at most one disc in a tick, the first in the list with a
  `BDMV`, and does not remember failures, so such a disc starves the drives behind it.
  And a disc that is swapped by hand between two ticks (`Swapped`): the loop keeps a mount as
  long as there is something at its device path, takes the new disc for the old one, passes its drive
  over and never serves it. That every drive is served (`EveryDriveServed`, as `main.rs:53`
  says) does not hold: TLC finds it violated with Blu-rays only, one insertion and no
  request.
- `RepliesSound` and `ServiceSpec` hold a reply against what the source gives. `read` takes a
  window that comes back short for the end of the file: of a file whose extents hold less
  than its length, or on a device that ends early, a read in mid-file succeeds with fewer
  bytes than were asked for, or none. `ShortOnlyAtEnd` is what `decrypt.rs:114` says instead; as an
  invariant of `engine_volume` it is violated.
- A drive with a claim that an earlier disc left behind is opened with a DVD in
  it; no property of the runs is about it.
- `HelperKept` is of mount mode, where one thread mounts and releases. In watch mode
  the hook may release the last disc while the loop mounts the next, and kill the
  helper of that one.
- `ServedAgain` leaves out the runs in which an eject process unmounts views
  beside a live mount process; the loop does not miss them, and the disc is not
  served again. It also leaves out swapped discs.
- `eject_pair` has no `umount` that fails, no second mount process, and one eject process
  at a time. A volume in use stays mounted there because `umount` without force and
  DiskArbitration are assumed to refuse it, whatever the look for holders before it found.
- `ClientEnds` leaves out a file whose bytes end before its size (`Stranded`): there every reply is
  empty and a success, and none says that the file is at its end (`vfs.rs:113`), so that a
  client that asks again is left where it was. A client whose read failed ends there.
- `RawUdfWindow` gives every range of a file whole: a short read is modelled in `UdfExtents`,
  which has no windows, and in `DecryptEngine`.
- `CacheSound` and `RepliesSound` rest on streams with different name flags. Names on a volume that differ
  in case only have the same flags, and their streams share cache keys; see `FlagsOwn`.
- `ReadsFile` leaves out files that are not `Readable`: of an extent that runs over the
  end of an extent of the metadata file only the first block is mapped, and holes
  are left out instead of read as zeros, in the file as in the metadata file, where all blocks
  behind them move up. `udf_extents` has such files; what it shows of
  them is that reads stay in range (`TypeOK`) and end (`ReadEnds`).

## 5. Fairness

`DecryptEngine`: a thread that can go on does, including one that wants a mutex
nobody holds. Weak fairness of each thread is enough for `ShutdownReturns`
because a read that begins after the flag went up never asks for the mutex
again, so the mutex is free for good once the reads before it are done; the
code's own `shutting_down` test before the lock is what makes this true, and
`EntryUnchecked` shows it. Starting a read or a teardown is not fair: nobody has to.

`Watch`: the loop, the hook, the clock and an approved unmount go on. Commands
(`umount`, `mount_nfs`) are assumed to return, with success or an error: the loop
waits for them with `Command::output()` and no timeout, so a command that hangs
hangs the loop (only the unmount of an OS UDF volume, `mount.rs:463-500`, has one). Insertions, unmount requests, vanishing discs and signals are not fair.

`MountMode`: the loop and the approval callback go on; inserting, asking and
signals are not fair. `EjectCommand`: each of the two processes goes on while it
runs, and DiskArbitration calls the approval callback; nobody has to start a process, to
crash one, or to open a file. `ServedAgain` therefore speaks of the runs in
which a mount process is in the end there to stay. `DiscTree`: the walk and the client go on.

## 6. What is proved

A run checks one small instance; a theorem holds for every value of the
constants that satisfies the module's named assumptions. An assumption of a theorem that is
not one of the constants' (`ASSUME ... PROVE`) is one of these four:

| Hypothesis | Means | Why it is needed |
| --- | --- | --- |
| `UseUdf` | the disc is read raw | over a volume nothing keeps two passthrough reads apart |
| `LeakFree` | `prepare_mountpoint` cannot fail (neither `"prepare"` nor `"umount"` is in `Failures`) | its error leaves an open session in no list (`mount.rs:247`): a defect listed under `hazards` |
| `Calm` | `LeakFree`, no disc is yanked, and the user ejects discs and not views | a disc that is pulled and put back during a slow teardown is opened twice: see the known limits |
| `OwnMountpoints` | no two sources have the same label | mounting the second of two discs with one label unmounts the first (`mount.rs:413`) |

None of them leaves out more than the runs of section 4 do. `watch_eject` is
an instance of `Calm` and `OwnMountpoints`, so the theorems that assume them
speak of the same system with any number of sources, mounts and insertions.

| Module | Theorem | Statement |
| --- | --- | --- |
| `DecryptEngineProofs` | `TypeCorrect` | `Spec => []TypeOK` |
| | `CacheCorrect` | `Spec => []CacheSound` |
| | `RepliesCorrect` | `Spec => []RepliesSound` |
| | `LibmmbdSafe` | `Spec => []LibmmbdExclusive` |
| | `NoLateRead` | `Spec => []NoEncryptedReadAfterClose` |
| | `WindowsReadOnce` | `Spec => []NoReadOfCachedUnit` |
| | `DriveExclusive` | `UseUdf`: `Spec => []OneReader` |
| | `Implementation` | `Spec => ServiceSpec` |
| `RawUdfWindowProofs` | `TypeCorrect` | `Spec => []TypeOK` |
| | `WindowsCorrect` | `Spec => []WindowsSound` |
| | `ReadsCorrect` | `Spec => []ReadsTransparent` |
| `UdfExtentsProofs` | `TypeCorrect` | `Spec => []TypeOK` |
| | `ReadsCorrect` | `Spec => []ReadsFile` |
| `WatchProofs` | `TypeCorrect` | `Spec => []TypeOK` |
| | `ViewsServed` | `Spec => []ViewServed` |
| | `LiveListed` | `LeakFree`: `Spec => []AllLiveMounts` |
| | `SessionsExclusive` | `Calm`: `Spec => []OneSession` |
| | `MountsReady` | `Calm`: `Spec => MountOnlyReady` |
| | `LiveViews` | `Calm`, `OwnMountpoints`: `Spec => []LiveHasView` |
| `EjectCommandProofs` | `TypeCorrect` | `Spec => []TypeOK` (`MountMode`) |
| | `DrivesApart` | `Spec => []OnePerDrive` |
| | `NoneForgotten` | `Spec => []NoOrphan` |
| | `NoneLeaked` | `LeakFree`: `Spec => []AllLiveMounts` |
| | `HelpersKept` | `EjectSpec => []HelperKept` |
| | `NoOrphanBesideSession` | `EjectSpec => []OrphansReaped` |
| | `StaleReleasesNothing` | `EjectSpec => StaleRequestHarmless` |
| | `NoneLeakedByCrash` | `LeakFree`: `EjectSpec => []AllLiveMounts` |
| `DiscTreeProofs` | `TypeCorrect` | `Spec => []TypeOK` |
| | `AlwaysMirrors` | `Spec => []Mirror` |
| | `PathsAlwaysLead` | `Spec => []PathsLead` |
| | `FlagsAlwaysOwn` | `Spec => []FlagsOwn` |
| | `ClientsComplete` | `Spec => []ClientComplete` |

### The read path

For any number of readers and closers, any disc, window and cache size
(`ThreadsAssumption`, `DiscAssumption`, `SizesAssumption`). The inductive invariant
`IInv` is the conjunction of

- `TypeOK`;
- `EngineInv`: whoever is between acquiring and dropping the `mmbd` mutex is its
  holder and the context is open; `LibmmbdExclusive` alone is not inductive,
  because it says nothing of a reader that is about to decrypt;
- `CacheSound`, needed for the units a read takes out of the LRU;
- `FrameInv`: the locals of a read agree with its reply so far (the reply is the
  run of what the source shows, from the first unit to the one before the next), so that
  appending the next chunk keeps it a run; this is where an off-by-one in a window
  would show;
- `RepliesSound`.

There is one lemma per conjunct (`TypeStep`, `EngineStep`, `CacheStep`,
`FrameStep`, `RepliesStep`), each with a step per action, and the frame lemmas
treat the acting reader (`OwnFrame`) and the others (`OthersKeepFrame`) apart.
`NoReadOfCachedUnit` is inductive relative to `IInv`: only the holder of the
mutex puts units into the cache, and a reader in `src` or `io` is that holder. `OneReader`
follows from `UdfInv`, that a reader on a raw disc holds the mutex of `RawUdf`.

`Implementation` is the refinement that `engine_volume` checks: the abstract
state is a state function of the engine's, the initial states are mapped to
initial states (`InitRefines`), and each action is a step of `ReadService` or a
stutter (`StepRefines`, from `CallRefines` for a call and `ReadStepRefines` for a
step of a read). The abstract service is asked with a clipped request, then
answers with exactly the units of it that the source gives or refuses; so the step that answers
needs `RepliesSound`, and the call that finds the flag up is refused at once.
`Entry` is a nested `IF`, in the order of the tests in `decrypt.rs:115-124`, so
that a request is given one entry whatever the constants are.

`DiscAssumption` has no two streams with the same name flags; it rests on
`FlagsOwn` of `DiscTree`, which is proved: two streams have the same flags only
when their names differ in case only.

### The windows of the raw reader

`IInv` is `TypeOK`, `WindowsSound`, `ReadsTransparent` and `ThreadsClipped`: a
prefetch that waits ends within its file, because `kick_prefetch` clips it before
it starts the thread; so the window it leaves starts within the file
(`NewWindow`). `SliceOfWindow` is the lemma that the cases of a read share: a
range that lies in a sound window is read out of it.

### The bytes of a file

For every disc of `Disc`, every size of sector and transfer, every range, and a device that
gives as few sectors at a time as it likes. `IInv` is

- `TypeOK`;
- `Resolves`: once the spaces are built, `Resolve` finds the sector that the format names, or
  an error, where the metadata file has no holes. `LengthOf` sums extents by a recursive function; that it does not
  decrease, and that the slot found by the first sum above an offset is the one found by
  counting blocks (`HitIsSlot`), is proved by `Induction` and the division lemmas;
- `Located`: the extents of a file without holes are those of its descriptors, in order,
  each at the sector of its first block;
- `Reading`: the range is within the file, and `pos` is the length of the extents
  before the one a read has come to;
- `Transfers`: whole sectors have been transferred, from the sector of the first wanted byte
  on and up to the end of the device at most. It is needed because a transfer that the end
  of the device cuts short is closed like any other;
- `Collected`: if the device has the extents and they hold all of the file (`OnDevice`), `out` is
  what the extents give for the range so far (`Bytes(SoFar)`). `ReadsFile` alone is not inductive, because
  it says nothing before a read is done.

`CoverFacts` and `PreadFacts` are the arithmetic of `read_abs`, `PieceFacts` that of the
part of an extent that is wanted; `BytesJoined` appends one part to the next. `ByteIsFileByte` is
the step from extents to the reference, and the only place where `Unbroken` is used.

### Mounted discs

`MountedDiscProofs` has what the modes share, for any set of threads,
mounts and sources: what each step of a call of `mount` or `teardown` keeps.

- `DiscInv`: types, and `CallsInv`: a mount being mounted is in no list and not torn
  down; one being torn down is marked; no mount is in two calls at once; a registered one
  is open and not marked. It is what `torn_down` and the registry's mutex are for.
- `ViewInv`: a view is at the mountpoint of its mount, and served or left; with
  it, `ViewServed`.
- `OpenInv`: an open, unmarked mount is in the registry or being mounted; with
  `DiscInv` it implies `AllLiveMounts`. It is the part that needs `LeakFree`.
- `LiveInv`: what is registered, or about to be, is what is mounted.

`Vec::retain` is the recursive function `Kept`; `KeptFacts` in
`VectorsProofs` says what it keeps. Its proof needs induction, which the library offers only for
an operator parameter; the lemma `Induction` states it for sets of
numbers instead (a set with 0 and with the successor of each of its members has all of
`Nat`), proved from the least element of the complement.

### Watch mode

`IInv` is `DiscInv`, `ViewInv` and `LoopInv`: what the loop lists is a mount of that source
in the registry or torn down (`ActiveInv`), it goes through views it
still lists (`TodoInv`), its call is the one its round waits for
(`RoundInv`), and the hook mounts nothing. `SessionInv` adds what makes
`OneSession` inductive: a volume the hook releases is still mounted and held off
(`ReleaseInv`), every open disc has an owner, either the loop's list or its call
(`OwnerInv`), what is on the list to be mounted is not in the loop's (`ScanInv`), and neither open nor held
off (`ReadyInv`). The last says why the list of volumes may be old when it is
used: nothing but the hook starts a hold-off, and only of a disc that the loop has.

### Mount mode and the eject command

`BInv` is `DiscInv` and the `LoopInv` of mount mode: what the loop lists is
registered, what it releases is no longer listed, and its call is the one its step waits for.
`DriveInv` makes `OnePerDrive` and `NoOrphan` inductive: a disc the loop has is
in its drive unless it left by hand, and the drive being mounted is in no list.
The first half of `EjectCommandProofs` proves them step by step for `Spec`, the
specification of `MountMode`; the second half uses the steps again, for the same loop under crashes, a take-over before it and another process beside it
(`EInv`): whoever releases all helpers has found the registry empty (`LastInv`),
and while the mailbox is older than the process there is no disc to release (`StaleInv`).
`StaleRequestHarmless` is an action property and follows from `StaleInv`.

### The tree

For every set of discs, every tree however deep, every failure of the walk and
every size of page and request. `IInv` is

- `Made`: each node is what its entry makes of it (its kind, its flags);
- `Named`: each name the walk has noted leads to a node below its directory;
- `Walking`: what is left to a frame is the end of the listing of its directory,
  and the frames are at directories that were found one after the other, so that
  no directory is walked twice at once;
- `Mirrors`: `Walked` for every directory, as far as its frame is (`Past`), or to the end of
  its listing when no frame is at it. `Walked` says of the first `k` entries of a
  directory that the nodes below it are those that are to be seen, each once and each found by
  its name. It is `Mirror` for a walk that is not done, and the number `k` is what makes it
  inductive: a node is added exactly when its entry is gone past;
- `Skips`: what was left out lies behind the frame of its directory, so that the
  entry at hand is not among it;
- `PathsLead`;
- `Clients`: what a client has had of a directory is its first `k` entries, and its cookie
  is the last of them; so the page behind the cookie goes on where the last one ended
  (`PageGoesOn`).

`GoesPast` and `GoesOn` are the two kinds of steps of the walk: one that
leaves an entry out and one that adds a node for it. `Inserted` is where `PathsLead` is kept: the
path of a new node leads to the first entry of its name (`FindListed`); if
that is not its own then it lies before it in the listing, and is a node
before it or a `.DS_Store`. The other directories keep theirs
(`WalkedElsewhere`) because a new node has a new number and a new name.
`Find` is a recursive function over the path; `FindAppend`, that one component
more leads one step further, is proved by `Induction` as `KeptFacts` is. `Mirror` then needs that as many
nodes lie below a directory as entries are to be seen: the nodes and the entries
correspond one to one.

### Assumptions the proofs made explicit

`Order`, the order in which the drives are listed, is a sequence of sources. The
program counter of a loop is a name of a step or, while it mounts, the
source; `RoundsAssumption`, `StepsAssumption` and `TakeOverAssumption` say
that no source has the name of a step. `DiscsAssumption` of `DiscTree` says what a disc is (`Wellformed`) and
that no entry is called `.` or `..`, which `BdFs::lookup` answers before it looks
at the tree. `ClipsAssumption` says that names with the same five-digit clip
number and the same extension differ in case only. `DiscsAssumption` of `UdfExtents` is what the parsers return: numbers that are
not negative, and at least one partition descriptor, since `RawUdf::open` refuses a disc
without one (`rawudf.rs:257`). It has one clause that no code checks: an extent of the
metadata file is whole blocks, as the format asks for. With another one the
blocks behind it would begin in the middle of a sector for `resolve`. That `DiscBytes` is
whole sectors is in `SizesAssumption`.

### Only model-checked

Liveness under fairness, which is out of the prover's reach: `ShutdownReturns`, `EngineDrains`,
`GoneIsForgotten`, `EjectAnswered`, `RequestHonoured`, `ServedUnlessHidden`,
`ServedAgain`, `ReadEnds`, `ClientEnds`. Every other property of a passing run is
the subject of a theorem above.

## 7. What is not modelled

- `drives.rs`, `mmbd.rs` and the printing commands of `main.rs`: parsers, FFI and
  output. What `mmbd.rs` needs of its caller is `LibmmbdExclusive`.
- The fields of `status.json` other than the pid: the verdict `safe_to_eject`, the
  drives and the names of the holders. What the runs use of a look for holders is
  that somebody is seen, nobody, or that `lsof` did not answer.
- A second `bdmount mount` beside the first, `bdmount unmount` by hand beside a mount
  process, and a pid that the system gives to another program.
- Parsing of UDF descriptors (the crate `oxideav_bluray::udf` does it) and CRCs; `UdfExtents`
  starts from parsed descriptors.
- Attributes of files, the statistics counters, caches of metadata (a disc does not
  change), and poisoned mutexes (a panic in a reader).
- Time. Delays are steps that come when they come; a bound in seconds is never
  a property.
