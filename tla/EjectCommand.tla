---------------------------- MODULE EjectCommand ----------------------------
(***************************************************************************)
(* `bdmount mount` and `bdmount eject` as two processes (src/src/main.rs,  *)
(* src/src/da.rs, src/src/idle.rs).  The mount process takes over what     *)
(* Finder has mounted, runs the loop of MountMode, may crash at any step   *)
(* and be started again; the eject process leaves a request for a live     *)
(* mount process, or unmounts and ejects by itself.  They share            *)
(* status.json, eject-request.json, claimed.json, the mount table and the  *)
(* makemkvcon helpers.  Other programs may have a volume open.             *)
(***************************************************************************)
EXTENDS MountMode

CONSTANT MaxStarts      \* a bound on the mount processes of a run

ASSUME StartsAssumption == MaxStarts \in Nat

\* The steps of the take-over, before the loop; no device has such a path.
TakeOver == {"takeover", "polite", "claim", "probe"}
ASSUME TakeOverAssumption == TakeOver \cap Sources = {}

VARIABLES
    pid,        \* of the mount process, 0 while none runs
    starts,     \* the pids given so far
    statusPid,  \* mount_pid in status.json
    found,      \* volumes the mount process has yet to take over
    orphans,    \* makemkvcon helpers whose mount process has died
    finder,     \* drives whose disc the OS has mounted under /Volumes
    busy,       \* those that another program has open there
    cli,        \* `bdmount eject`
    stale       \* history: the mailbox is older than the mount process

processVars == <<pid, starts, statusPid, found>>
systemVars  == <<finder, busy>>
allVars     == <<vars, processVars, orphans, systemVars, cli, stale>>

NoCommand == [pc |-> "none", only |-> {}, views |-> {}, disks |-> {}, ejected |-> {}]

\* No mount process runs yet.  A disc in a drive is mounted by Finder, or an
\* earlier process has claimed the drive.
EjectInit ==
    /\ \E left \in SUBSET Sources : DiscInit(left)
    /\ media \in [Sources -> Kinds] /\ \A d \in Sources \ volumes : media[d] = "bd"
    /\ finder \in SUBSET {d \in volumes : media[d] # "avchd"}
    /\ persisted = volumes \ finder
    /\ live = {} /\ step = "exited" /\ todo = {} /\ taken = None
    /\ mailbox = None /\ writing = None /\ approving = {} /\ claimed = <<>>
    /\ inserts = 0 /\ requests = 0 /\ wanted = {} /\ unheard = {} /\ lost = {}
    /\ pid = 0 /\ starts = 0 /\ statusPid = 0 /\ found = <<>>
    /\ orphans = {} /\ busy = {} /\ cli = NoCommand /\ stale = FALSE

-----------------------------------------------------------------------------
(* The mount process comes and goes *)

Dead(m) == [disc[m] EXCEPT !.engine = "closed", !.server = FALSE, !.mounted = FALSE,
                           !.tornDown = TRUE, !.left = TRUE]

\* What a process leaves behind, however it ends: its views in the mount
\* table, its files, and the children of the sessions it had open.  A mount
\* that has left nothing is free for the next process.  DiskArbitration mounts
\* what it was asking it about.
ProcessEnds ==
    /\ pid' = 0 /\ step' = "exited"
    /\ live' = {} /\ todo' = {} /\ taken' = None /\ found' = <<>>
    /\ claimed' = <<>>
    /\ registry' = <<>> /\ released' = [s \in Sources |-> "no"]
    /\ call' = [t \in Threads |-> Idle]
    /\ orphans' = orphans \cup {m \in helpers : disc[m].engine = "open"}
    /\ disc' = [m \in Mounts |-> IF m \in orphans' \/ \E l \in Labels : view[l] = m
                                  THEN Dead(m) ELSE Unused]
    /\ helpers' = {}
    /\ approving' = {} /\ finder' = finder \cup approving
    /\ UNCHANGED <<volumes, view, persisted, media, inserts, lost, userVars,
                   starts, statusPid, busy, cli, stale>>

Crash == pid # 0 /\ ProcessEnds

\* Mutant: the loop looks for discs before it looks into the mailbox.
TakeOverDoneAtPoll ==
    /\ step = "takeover" /\ found = <<>>
    /\ statusPid' = pid
    /\ step' = "poll"
    /\ UNCHANGED <<discVars, live, todo, taken, claimVars, osVars, userVars,
                   pid, starts, found, orphans, systemVars, cli, stale>>

\* cmd_mount: the claim hook is in, and what Finder has mounted is listed.
Start ==
    /\ step = "exited" /\ starts < MaxStarts
    /\ starts' = starts + 1 /\ pid' = starts + 1
    /\ step' = "takeover"
    /\ found' = Kept(Order, {d \in finder : media[d] # "avchd"})
    /\ stale' = (mailbox # None)
    /\ UNCHANGED <<discVars, live, todo, taken, claimVars, osVars, userVars,
                   statusPid, orphans, systemVars, cli>>

\* Nothing is left to take over: the first snapshot, then the loop.
TakeOverDone ==
    /\ step = "takeover" /\ found = <<>>
    /\ statusPid' = pid
    /\ step' = "tick"
    /\ UNCHANGED <<discVars, live, todo, taken, claimVars, osVars, userVars,
                   pid, starts, found, orphans, systemVars, cli, stale>>

\* holders_on, is_hard_os_udf_holder: the command ends if a holder is seen that
\* is in the list, which not every program is.
TakeOverCheck ==
    /\ step = "takeover" /\ found # <<>>
    /\ \/ /\ Head(found) \in busy \/ "holder" \in Failures
          /\ ProcessEnds
       \/ /\ step' = "polite"
          /\ UNCHANGED <<discVars, live, todo, taken, claimVars, osVars, userVars,
                         processVars, orphans, systemVars, cli, stale>>

\* unmount_os_volume_polite: whoever has opened the volume since keeps it.
TakeOverUnmount ==
    /\ step = "polite"
    /\ \/ /\ Head(found) \in busy \/ "umount" \in Failures
          /\ ProcessEnds
       \/ /\ Head(found) \notin busy
          /\ finder' = finder \ {Head(found)}
          /\ step' = "claim"
          /\ UNCHANGED <<discVars, live, todo, taken, claimVars, osVars, userVars,
                         processVars, orphans, busy, cli, stale>>

TakeOverClaim ==
    /\ step = "claim"
    /\ Claims(IF Head(found) \in ToSet(claimed) THEN claimed ELSE Append(claimed, Head(found)))
    /\ step' = "probe"
    /\ UNCHANGED <<discVars, live, todo, taken, osVars, userVars,
                   processVars, orphans, systemVars, cli, stale>>

\* open_bd_rdisk_for_bsd: the raw device can be read within 20 s, or not.
TakeOverProbe ==
    /\ step = "probe"
    /\ \/ /\ Head(found) \notin volumes \/ "open" \in Failures
          /\ ProcessEnds
       \/ /\ Head(found) \in volumes
          /\ found' = Tail(found)
          /\ step' = "takeover"
          /\ UNCHANGED <<discVars, live, todo, taken, claimVars, osVars, userVars,
                         pid, starts, statusPid, orphans, systemVars, cli, stale>>

\* The end of cmd_mount, behind the last teardown of Drain.
ExitProcess == step = "drain" /\ todo = {} /\ ProcessEnds

-----------------------------------------------------------------------------
(* The loop, with what it does to orphans, Finder's mounts and history *)

LoopQuiet ==
    /\ \/ TakeRequest \/ Released \/ EndRequest \/ PollNothing \/ Drained
       \/ \E m \in Mounts : Release(m) \/ Drain(m)
       \/ \E d \in Sources : EndMount(d)
    /\ UNCHANGED <<orphans, finder, stale>>

LoopRemove == RemoveRequest /\ stale' = FALSE /\ UNCHANGED <<orphans, finder>>

\* Mutant: open_disc leaves the helpers of a crashed process alone.
LoopOpenUnreaped ==
    /\ \E d \in Sources : StartMount(d)
    /\ UNCHANGED <<orphans, finder, stale>>

\* open_disc reaps orphans before libmmbd starts a helper of its own.
LoopOpen ==
    /\ \E d \in Sources : StartMount(d) /\ orphans' = IF media[d] = "locked" \/ disc' # disc
                                                      THEN {} ELSE orphans
    /\ UNCHANGED <<finder, stale>>

\* So do release_our_helpers and every wait for holders.
LoopCall ==
    /\ Step(Main)
    /\ orphans' = IF call[Main].pc \in {"helpers", "wait"} THEN {} ELSE orphans
    /\ UNCHANGED <<loopVars, claimVars, osVars, userVars, finder, stale>>

LoopEject ==
    /\ (EjectTray /\ Target \notin busy) \/ EjectRefused
    /\ orphans' = {}
    /\ finder' = finder \cap volumes'
    /\ UNCHANGED stale

ServerStep ==
    \/ TakeOverDone \/ TakeOverCheck \/ TakeOverUnmount \/ TakeOverClaim \/ TakeOverProbe
    \/ ExitProcess
    \/ /\ LoopQuiet \/ LoopRemove \/ LoopOpen \/ LoopCall \/ LoopEject
       /\ UNCHANGED <<processVars, busy, cli>>

\* The callback: a DVD is approved and the OS mounts it.
ApprovalStep ==
    /\ \E d \in Sources :
        /\ ApproveMount(d)
        /\ finder' = IF media[d] = "avchd" THEN finder \cup {d} ELSE finder
    /\ UNCHANGED <<processVars, orphans, busy, cli, stale>>

-----------------------------------------------------------------------------
(* `bdmount eject` *)

EjectKeeps == UNCHANGED <<registry, released, disc, call, loopVars, media,
                          inserts, requests, wanted, unheard, processVars>>

EjectSame == EjectKeeps /\ UNCHANGED lost

All == cli.only = Sources

\* cmd_eject: is the process that wrote the snapshot alive?
EjectBegin(r) ==
    /\ cli.pc = "none" /\ requests < MaxRequests
    /\ requests' = requests + 1
    /\ cli' = [NoCommand EXCEPT !.only = r,
                    !.pc = IF statusPid # 0 /\ statusPid = pid THEN "write" ELSE "direct"]
    /\ UNCHANGED <<discVars, loopVars, claimVars, osVars, mailbox, writing, wanted,
                   unheard, processVars, orphans, systemVars, stale>>

\* write_eject_request: with the file opened, what was in it is gone.
EjectOpen ==
    /\ cli.pc = "write"
    /\ OpenMailbox(cli.only)
    /\ stale' = (stale /\ step = "remove")
    /\ UNCHANGED <<volumes, view, helpers, claimVars, approving, orphans, systemVars, cli>>
    /\ EjectSame

\* The request is written.  The command then waits, at most 45 s, and ends with
\* the same words whatever has come of it.
EjectWrite ==
    /\ cli.pc = "write"
    /\ WriteMailbox
    /\ stale' = (stale /\ step = "remove")
    /\ cli' = NoCommand
    /\ UNCHANGED <<volumes, view, helpers, claimVars, approving, orphans, systemVars>>
    /\ EjectSame

\* Nothing claimed, or all views are listed to be unmounted; a single device
\* leaves the others' views alone.
EjectDirect ==
    /\ cli.pc = "direct"
    /\ cli' = IF persisted = {} \/ (~All /\ cli.only \cap persisted = {}) THEN NoCommand
              ELSE IF All THEN [cli EXCEPT !.pc = "unmount", !.views = {l \in Labels : view[l] # None}]
              ELSE [cli EXCEPT !.pc = "idle", !.disks = cli.only \cap persisted]
    /\ UNCHANGED <<volumes, view, helpers, claimVars, approving, mailbox, writing, orphans,
                   systemVars, stale>>
    /\ EjectSame

EjectUnmount(l) ==
    /\ cli.pc = "unmount" /\ l \in cli.views
    /\ Unmounted(l) \/ UnmountFailed(l)
    /\ cli' = [cli EXCEPT !.views = @ \ {l}]
    /\ UNCHANGED <<volumes, helpers, claimVars, approving, mailbox, writing, orphans,
                   systemVars, stale>>
    /\ EjectSame

\* Mutant: whose child a helper is, is not looked at.
EjectHelpersAll ==
    /\ cli.pc = "unmount" /\ cli.views = {}
    /\ orphans' = {} /\ helpers' = {}
    /\ cli' = IF persisted = {} THEN NoCommand ELSE [cli EXCEPT !.pc = "idle", !.disks = persisted]
    /\ UNCHANGED <<volumes, view, claimVars, approving, mailbox, writing, systemVars, stale>>
    /\ EjectSame

\* release_our_helpers of this process: orphans only.  Then the discs.
EjectHelpers ==
    /\ cli.pc = "unmount" /\ cli.views = {}
    /\ orphans' = {}
    /\ cli' = IF persisted = {} THEN NoCommand ELSE [cli EXCEPT !.pc = "idle", !.disks = persisted]
    /\ UNCHANGED <<volumes, view, helpers, claimVars, approving, mailbox, writing,
                   systemVars, stale>>
    /\ EjectSame

\* What lsof finds on a drive that no orphan holds: the device file of the
\* mount process, which it has until teardown is back, or that process's helper.
HeldAt(d) ==
    \E m \in Mounts :
        /\ disc[m].src = d
        /\ disc[m].engine = "open" \/ m \in helpers \/ call[Main].disc = m

\* wait_until_idle on the first of the discs: it reaps orphans, and goes on
\* when nobody is seen.  After 20 s a holder, or another program's, is an error.
EjectWait ==
    /\ cli.pc = "idle"
    /\ orphans' = {}
    /\ \E first \in cli.disks :
        \/ /\ ~HeldAt(first) \/ "lsof" \in Failures
           /\ cli' = [cli EXCEPT !.pc = "eject"]
        \/ (HeldAt(first) \/ "holder" \in Failures) /\ cli' = NoCommand
    /\ UNCHANGED <<volumes, view, helpers, claimVars, approving, mailbox, writing,
                   systemVars, stale>>
    /\ EjectSame

\* One of the discs: passed over if it is a DVD, else ejected.
EjectDisk(d) ==
    /\ cli.pc = "eject" /\ d \in cli.disks
    /\ \/ /\ d \in volumes /\ media[d] = "avchd"
          /\ cli' = [cli EXCEPT !.disks = @ \ {d}]
          /\ UNCHANGED <<volumes, approving, lost, systemVars>>
       \/ /\ d \in volumes /\ media[d] # "avchd"
          /\ volumes' = volumes \ {d}
          /\ approving' = approving \ {d}
          /\ lost' = lost \cup {m \in Mounts : SourceOf(m) = d /\ disc[m].engine = "open"}
          /\ d \notin busy
          /\ finder' = finder \ {d}
          /\ UNCHANGED busy
          /\ cli' = [cli EXCEPT !.disks = @ \ {d}, !.ejected = @ \cup {d}]
    /\ UNCHANGED <<view, helpers, claimVars, mailbox, writing, orphans, stale>>
    /\ EjectKeeps

\* DiskArbitration has no such disc, or refuses: `?` leaves the rest undone.
EjectFails(d) ==
    /\ cli.pc = "eject" /\ d \in cli.disks
    /\ d \notin volumes \/ d \in busy \/ (media[d] # "avchd" /\ "eject" \in Failures)
    /\ cli' = NoCommand
    /\ UNCHANGED <<volumes, view, helpers, claimVars, approving, mailbox, writing, orphans,
                   systemVars, stale>>
    /\ EjectSame

\* clear_claimed or persist_claimed: this process has no claims of its own, so
\* claimed.json is removed in either case.
EjectForget ==
    /\ cli.pc = "eject" /\ cli.disks = {}
    /\ persisted' = IF cli.ejected = {} THEN persisted ELSE {}
    /\ cli' = NoCommand
    /\ UNCHANGED <<volumes, view, helpers, claimed, approving, mailbox, writing, orphans,
                   systemVars, stale>>
    /\ EjectSame

EjectStep ==
    \/ EjectOpen \/ EjectWrite \/ EjectDirect \/ EjectHelpers \/ EjectWait \/ EjectForget
    \/ \E l \in Labels : EjectUnmount(l)
    \/ \E d \in Sources : EjectDisk(d) \/ EjectFails(d)

-----------------------------------------------------------------------------
(* The user, the discs and another program *)

\* HandBrake, or a player, opens what Finder has mounted.
ProgramOpens(d) ==
    /\ d \in finder \ busy
    /\ busy' = busy \cup {d}
    /\ UNCHANGED <<vars, processVars, orphans, finder, cli, stale>>

ProgramCloses(d) ==
    /\ d \in busy
    /\ busy' = busy \ {d}
    /\ UNCHANGED <<vars, processVars, orphans, finder, cli, stale>>

World ==
    \/ Start \/ Crash
    \/ \E r \in Requests : EjectBegin(r)
    \/ \E d \in Sources : ProgramOpens(d) \/ ProgramCloses(d)
    \/ /\ \/ Signal
          \/ \E d \in Sources, kind \in Kinds : Insert(d, kind)
          \/ \E m \in Mounts : HelperExits(m) /\ UNCHANGED <<loopVars, claimVars, osVars, userVars>>
       /\ UNCHANGED <<processVars, orphans, systemVars, cli, stale>>

Over == step = "exited" /\ starts = MaxStarts /\ UNCHANGED allVars

EjectNext == ServerStep \/ ApprovalStep \/ EjectStep \/ World \/ Over

EjectSpec == EjectInit /\ [][EjectNext]_allVars

\* Both processes go on while they run, and DiskArbitration calls; nobody has
\* to start them, and nothing has to crash.
FairEjectSpec ==
    EjectSpec /\ WF_allVars(ServerStep) /\ WF_allVars(ApprovalStep) /\ WF_allVars(EjectStep)

-----------------------------------------------------------------------------
(* Properties *)

\* "libmmbd hosts are always their parent while alive": a disc the process
\* serves or is mounting has its makemkvcon helper, whatever an eject process or
\* the release of another disc kills (is_ours, release_our_helpers).
HelperKept ==
    \A m \in Mounts :
        disc[m].engine = "open" /\ (InRegistry(m) \/ call[Main].disc = m) => m \in helpers

\* A helper that a crashed process left behind never runs beside a session: it
\* is gone before libmmbd opens a disc again (open_disc, reap_orphaned_helpers).
OrphansReaped == orphans # {} => \A m \in Mounts : disc[m].engine # "open"

\* A request that a mount process died without taking releases nothing of the
\* process started after it: that one takes it before it has a disc.
StaleRequestHarmless ==
    [][step = "remove" /\ step' = "handle" /\ stale => todo' = {}]_allVars

\* A Blu-ray that stays in a drive is in the end served by the process that
\* runs, at the mountpoint of its label, after any crashes, with any views,
\* helpers and files an earlier process left; unless an eject process that saw
\* no mount process unmounts views beside one that has just started, or its disc
\* is taken for the one before it, which another process had ejected.  Mounts
\* bounds the tries of a run: none is left, and none has come to serve it.
ServedAgain ==
    [](cli.pc = "unmount" => pid = 0) =>
        (<>[](pid # 0 /\ step \notin {"drain", "draining"} /\ \A d \in Sources : ~Swapped(d)) =>
            \A d \in Sources : <>[]Stays(d) =>
                <>[](\/ Fresh = {} /\ \A m \in live : SourceOf(m) # d
                     \/ \E m \in live \ lost : /\ SourceOf(m) = d /\ disc[m].server
                                              /\ view[Mountpoint(m)] = m))

\* "Live claims plus names persisted so `bdmount eject` still knows the disk
\* after the mount process has exited": a drive a mount process has claimed is
\* known to a later eject for as long as the disc is in it.
ClaimsSurvive ==
    [][\A d \in Sources : d \in persisted /\ d \in volumes' => d \in persisted']_allVars
=============================================================================
