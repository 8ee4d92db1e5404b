---------------------------- MODULE MountedDisc ----------------------------
(***************************************************************************)
(* The life of the decrypted discs of one bdmount process                  *)
(* (src/src/mount.rs): MountedDisc::mount and MountedDisc::teardown, the   *)
(* registry of live mounts, the hold-off of released sources, the kernel's *)
(* mount table and the makemkvcon helpers.  Both procedures run on more    *)
(* than one thread at once; each action is what a thread does between two  *)
(* accesses to something another thread sees, or one external command.     *)
(* Watch and MountMode compose this module with the loops that use it.     *)
(***************************************************************************)
EXTENDS Naturals, Sequences, FiniteSets, Vectors

CONSTANTS
    Sources,        \* source volumes (/Volumes/LABEL)
    Labels,         \* mountpoints below the base directory
    LabelOf,        \* the mountpoint of a source's view
    Mounts,         \* MountedDisc instances, a bound on the mounts of a run
    Threads,
    Failures,       \* steps that may fail: "open", "prepare", "nfs", "umount"
    None

ASSUME NamesAssumption ==
    /\ LabelOf \in [Sources -> Labels]
    /\ Sources \cap Labels = {}
    /\ None \notin Sources \cup Labels \cup Mounts

VARIABLES
    volumes,    \* sources in the kernel's mount table
    view,       \* whose NFS export is mounted at each mountpoint
    registry,   \* REGISTRY
    released,   \* RELEASED: a source is settling for HOLD_OFF, then settled
    disc,       \* the Inner of each instance
    helpers,    \* instances whose makemkvcon child runs
    call        \* the mount or teardown each thread is in

discVars == <<volumes, view, registry, released, disc, helpers, call>>

\* left: nobody is to unmount the view any more.  umount(8) failed, or
\* teardown left it to DiskArbitration.
Unused == [src |-> None, engine |-> "none", server |-> FALSE,
           mounted |-> FALSE, tornDown |-> FALSE, left |-> FALSE]

Idle == [pc |-> "idle", disc |-> None, unmountView |-> FALSE, others |-> FALSE, ok |-> TRUE]

DiscInit(present) ==
    /\ volumes = present
    /\ view = [l \in Labels |-> None]
    /\ registry = <<>>
    /\ released = [s \in Sources |-> "no"]
    /\ disc = [m \in Mounts |-> Unused]
    /\ helpers = {}
    /\ call = [t \in Threads |-> Idle]

-----------------------------------------------------------------------------

Mountpoint(m) == LabelOf[disc[m].src]

InRegistry(m) == \E i \in DOMAIN registry : registry[i] = m

Fresh == {m \in Mounts : disc[m] = Unused}

\* find_by_path: the first live mount of a source or a mountpoint.
FindByPath(path) ==
    LET hits == {i \in DOMAIN registry : path \in {disc[registry[i]].src, Mountpoint(registry[i])}} IN
    IF hits = {} THEN None
    ELSE registry[CHOOSE i \in hits : \A j \in hits : i <= j]

\* Mutant: a hold-off is dropped as soon as the settle window is over.
SweptWhenSettled == [s \in Sources |->
    IF released[s] = "settled" THEN "no" ELSE released[s]]

\* sweep_hold_off: a hold-off ends when the volume is gone and has settled.
Swept == [s \in Sources |->
    IF released[s] = "settled" /\ s \notin volumes THEN "no" ELSE released[s]]

MarkReleased(s) == released' = [released EXCEPT ![s] = "settling"]

\* HOLD_OFF has passed since the source was last released.
Settle(s) ==
    /\ released[s] = "settling"
    /\ released' = [released EXCEPT ![s] = "settled"]
    /\ UNCHANGED <<volumes, view, registry, disc, helpers, call>>

\* The child of a closed libmmbd context exits by itself.
HelperExits(m) ==
    /\ m \in helpers /\ disc[m].engine = "closed"
    /\ helpers' = helpers \ {m}
    /\ UNCHANGED <<volumes, view, registry, released, disc, call>>

At(t, pc)      == call[t].pc = pc
Goto(t, pc)    == call' = [call EXCEPT ![t].pc = pc]
Return(t, ok)  == call' = [call EXCEPT ![t] = [@ EXCEPT !.pc = "returned", !.ok = ok]]

\* unmount_path: whatever is mounted there goes, unless every attempt fails.
Unmounted(l)     == view' = [view EXCEPT ![l] = None]
UnmountFailed(l) == "umount" \in Failures /\ view[l] # None /\ UNCHANGED view

-----------------------------------------------------------------------------
(* MountedDisc::mount *)

\* Scan, libmmbd session and NFS server; a failure drops what there was.
Open(t, s) ==
    /\ At(t, "idle")
    /\ \/ /\ "open" \in Failures \/ s \notin volumes
          /\ call' = [call EXCEPT ![t] = [Idle EXCEPT !.pc = "returned", !.ok = FALSE]]
          /\ UNCHANGED <<disc, helpers>>
       \/ /\ s \in volumes
          /\ \E m \in Fresh :
               /\ disc' = [disc EXCEPT ![m] = [@ EXCEPT !.src = s, !.engine = "open", !.server = TRUE]]
               /\ helpers' = helpers \cup {m}
               /\ call' = [call EXCEPT ![t] = [Idle EXCEPT !.pc = "prepare", !.disc = m]]
    /\ UNCHANGED <<volumes, view, registry, released>>

\* prepare_mountpoint.  Its error leaves the session and the server running.
PrepareMountpoint(t) ==
    LET l == Mountpoint(call[t].disc) IN
    /\ At(t, "prepare")
    /\ \/ Unmounted(l) /\ Goto(t, "nfs")
       \/ UnmountFailed(l) /\ Return(t, FALSE)
       \/ "prepare" \in Failures /\ Unmounted(l) /\ Return(t, FALSE)
    /\ UNCHANGED <<volumes, registry, released, disc, helpers>>

\* Mutant: the exit status of mount_nfs is not looked at.
RunMountNfsUnchecked(t) ==
    LET m == call[t].disc IN
    /\ At(t, "nfs")
    /\ Goto(t, "publish")
    /\ \/ /\ view' = [view EXCEPT ![Mountpoint(m)] = m]
          /\ UNCHANGED <<disc, helpers>>
       \/ /\ "nfs" \in Failures
          /\ disc' = [disc EXCEPT ![m] = Unused]
          /\ helpers' = helpers \ {m}
          /\ UNCHANGED view
    /\ UNCHANGED <<volumes, registry, released>>

\* run_mount_nfs.
RunMountNfs(t) ==
    LET m == call[t].disc IN
    /\ At(t, "nfs")
    /\ \/ /\ view' = [view EXCEPT ![Mountpoint(m)] = m]
          /\ Goto(t, "publish")
          /\ UNCHANGED <<disc, helpers>>
       \/ /\ "nfs" \in Failures
          /\ disc' = [disc EXCEPT ![m] = Unused]
          /\ helpers' = helpers \ {m}
          /\ Return(t, FALSE)
          /\ UNCHANGED view
    /\ UNCHANGED <<volumes, registry, released>>

Publish(t) ==
    LET m == call[t].disc IN
    /\ At(t, "publish")
    /\ disc' = [disc EXCEPT ![m].mounted = TRUE]
    /\ registry' = Append(registry, m)
    /\ Return(t, TRUE)
    /\ UNCHANGED <<volumes, view, released, helpers>>

-----------------------------------------------------------------------------
(* MountedDisc::teardown *)

\* Mutant: who comes second waits for the first, which tells nobody.
TeardownWaits(t, m, unmountView) ==
    /\ At(t, "idle")
    /\ MarkReleased(disc[m].src)
    /\ disc' = [disc EXCEPT ![m].tornDown = TRUE]
    /\ call' = [call EXCEPT ![t] = [Idle EXCEPT
                    !.pc = IF disc[m].tornDown THEN "joining" ELSE "deregister",
                    !.disc = m, !.unmountView = unmountView]]
    /\ UNCHANGED <<volumes, view, registry, helpers>>

\* Only the thread that swaps torn_down goes on; any other returns at once.
Teardown(t, m, unmountView) ==
    /\ At(t, "idle")
    /\ MarkReleased(disc[m].src)
    /\ disc' = [disc EXCEPT ![m].tornDown = TRUE]
    /\ call' = [call EXCEPT ![t] = [Idle EXCEPT
                    !.pc = IF disc[m].tornDown THEN "returned" ELSE "deregister",
                    !.disc = m, !.unmountView = unmountView]]
    /\ UNCHANGED <<volumes, view, registry, helpers>>

\* Mutant: the mount stays in the registry.
DeregisterNobody(t) ==
    /\ At(t, "deregister")
    /\ call' = [call EXCEPT ![t].pc = "unmount", ![t].others = registry # <<>>]
    /\ UNCHANGED <<volumes, view, registry, released, disc, helpers>>

\* Mutant: the server is stopped before the view is unmounted.
DeregisterStopped(t) ==
    LET rest == Kept(registry, Mounts \ {call[t].disc}) IN
    /\ At(t, "deregister")
    /\ registry' = rest
    /\ call' = [call EXCEPT ![t].pc = "unmount", ![t].others = rest # <<>>]
    /\ disc' = [disc EXCEPT ![call[t].disc].server = FALSE]
    /\ UNCHANGED <<volumes, view, released, helpers>>

Deregister(t) ==
    LET rest == Kept(registry, Mounts \ {call[t].disc}) IN
    /\ At(t, "deregister")
    /\ registry' = rest
    /\ call' = [call EXCEPT ![t].pc = "unmount", ![t].others = rest # <<>>]
    /\ UNCHANGED <<volumes, view, released, disc, helpers>>

\* The view goes first, while its server still answers.
UnmountView(t) ==
    LET m == call[t].disc
        l == Mountpoint(m) IN
    /\ At(t, "unmount")
    /\ \/ /\ disc[m].mounted /\ call[t].unmountView
          /\ \/ /\ Unmounted(l)
                /\ disc' = [disc EXCEPT ![m].mounted = FALSE]
                /\ Goto(t, "shutdown")
             \/ /\ UnmountFailed(l)
                /\ disc' = [disc EXCEPT ![m].mounted = FALSE, ![m].left = TRUE]
                /\ call' = [call EXCEPT ![t].pc = "shutdown", ![t].ok = FALSE]
       \/ /\ ~(disc[m].mounted /\ call[t].unmountView)
          /\ disc' = [disc EXCEPT ![m].mounted = FALSE, ![m].left = TRUE]
          /\ Goto(t, "shutdown")
          /\ UNCHANGED view
    /\ UNCHANGED <<volumes, registry, released, helpers>>

\* Mutant: the engine is shut down with the helpers, by the last mount only.
ShutdownLastOnly(t) ==
    LET m == call[t].disc IN
    /\ At(t, "shutdown")
    /\ disc' = [disc EXCEPT ![m].server = FALSE,
                            ![m].engine = IF call[t].others THEN @ ELSE "closed"]
    /\ Goto(t, IF call[t].others THEN "wait" ELSE "helpers")
    /\ UNCHANGED <<volumes, view, registry, released, helpers>>

\* server.abort() and engine.shutdown(); the helper may linger.
Shutdown(t) ==
    LET m == call[t].disc IN
    /\ At(t, "shutdown")
    /\ disc' = [disc EXCEPT ![m].server = FALSE, ![m].engine = "closed"]
    /\ Goto(t, IF call[t].others THEN "wait" ELSE "helpers")
    /\ UNCHANGED <<volumes, view, registry, released, helpers>>

\* release_our_helpers: within 5 s none of our children is left, or all that
\* are left are killed.
ReleaseHelpers(t) ==
    /\ At(t, "helpers")
    /\ helpers' = {}
    /\ Goto(t, "wait")
    /\ UNCHANGED <<volumes, view, registry, released, disc>>

\* remove_dir and wait_until_idle_for.  The error of umount is the result.
Wait(t) ==
    /\ At(t, "wait")
    /\ Return(t, call[t].ok)
    /\ UNCHANGED <<volumes, view, registry, released, disc, helpers>>

Step(t) ==
    \/ PrepareMountpoint(t) \/ RunMountNfs(t) \/ Publish(t)
    \/ Deregister(t) \/ UnmountView(t) \/ Shutdown(t) \/ ReleaseHelpers(t) \/ Wait(t)

-----------------------------------------------------------------------------
(* Properties of both modes *)

Inner == [src : Sources \cup {None}, engine : {"none", "open", "closed"}, server : BOOLEAN,
          mounted : BOOLEAN, tornDown : BOOLEAN, left : BOOLEAN]

Call == [pc : {"idle", "prepare", "nfs", "publish", "deregister", "unmount", "shutdown",
               "helpers", "wait", "returned"},
         disc : Mounts \cup {None}, unmountView : BOOLEAN, others : BOOLEAN, ok : BOOLEAN]

\* Every variable keeps to its type, and a call in progress works on a mount.
DiscTypeOK ==
    /\ volumes \subseteq Sources
    /\ view \in [Labels -> Mounts \cup {None}]
    /\ registry \in Seq(Mounts) /\ \A m \in Mounts : InRegistry(m) => disc[m].src # None
    /\ released \in [Sources -> {"no", "settling", "settled"}]
    /\ disc \in [Mounts -> Inner]
    /\ helpers \subseteq Mounts
    /\ call \in [Threads -> Call]
    /\ \A t \in Threads : call[t].pc \notin {"idle", "returned"} => call[t].disc # None

Busy(m) == \E t \in Threads : call[t].disc = m /\ ~At(t, "idle") /\ ~At(t, "returned")

\* A registered mount is what is mounted at its mountpoint: neither a sibling
\* nor a teardown takes the view of a disc that is being served
\* (prepare_mountpoint, unmount_path).
LiveHasView == \A m \in Mounts : InRegistry(m) => view[Mountpoint(m)] = m

\* "All live mounts ... for the eject hook": a disc that is open in libmmbd
\* is in the registry, or a thread is mounting it or tearing it down.
AllLiveMounts ==
    \A m \in Mounts : disc[m].engine = "open" => InRegistry(m) \/ Busy(m)

\* No source is opened while a session of ours has it open: watch mode relies
\* on the hold-off, which lasts until the volume is gone, and mount mode on its
\* list of live discs.
OneSession ==
    \A m, n \in Mounts : disc[m].engine = "open" /\ disc[n].engine = "open" /\ m # n
        => disc[m].src # disc[n].src
=============================================================================
