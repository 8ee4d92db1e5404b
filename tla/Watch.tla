------------------------------- MODULE Watch -------------------------------
(***************************************************************************)
(* Background mode: the poll loop of src/src/watch.rs and the unmount      *)
(* approval callback of src/src/da.rs, which DiskArbitration runs on a     *)
(* queue of its own, over the discs of MountedDisc.  The system inserts    *)
(* discs, loses them, and asks for approval before it unmounts a volume or *)
(* a view; the loop ends on a signal.                                      *)
(***************************************************************************)
EXTENDS MountedDisc

CONSTANTS
    Loop, Hook,     \* the two threads
    MaxInserts,     \* a bound on the insertions of a run
    Asks,           \* paths the system asks to unmount
    Yanks           \* discs vanish without anybody being asked

ASSUME ThreadsAssumption == Threads = {Loop, Hook} /\ Loop # Hook
ASSUME InsertsAssumption == MaxInserts \in Nat /\ Yanks \in BOOLEAN
ASSUME AsksAssumption == Asks \subseteq Sources \cup Labels

\* Where the loop can be, besides mounting a source; no volume has such a path.
Rounds == {"tick", "gone", "unmounting", "mount", "drain", "draining", "exited"}
ASSUME RoundsAssumption == Rounds \cap Sources = {}

VARIABLES
    active,     \* the mount of each source the loop knows
    failed,     \* sources to leave alone for 60 s
    todo,       \* what is left of the list the loop goes through
    round,      \* where the loop is
    asked,      \* the unmount DiskArbitration waits to have approved
    approved,   \* the callback has returned
    inserts

loopVars == <<active, failed, todo, round>>
osVars   == <<asked, approved, inserts>>
vars     == <<discVars, loopVars, osVars>>

Init ==
    /\ DiscInit({})
    /\ active = [s \in Sources |-> None]
    /\ failed = {}
    /\ todo = {}
    /\ round = "tick"
    /\ asked = None
    /\ approved = FALSE
    /\ inserts = 0

-----------------------------------------------------------------------------
(* The poll loop *)

Active == {s \in Sources : active[s] # None}

\* Mutant: only the views the eject hook tore down count as gone.
TickHookOnly ==
    /\ round = "tick"
    /\ todo' = {s \in Active : disc[active[s]].tornDown}
    /\ round' = "gone"
    /\ UNCHANGED <<discVars, active, failed, osVars>>

\* A tick: which views are gone.  The mount table only, never the disc.
Tick ==
    /\ round = "tick"
    /\ todo' = {s \in Active : disc[active[s]].tornDown \/ s \notin volumes}
    /\ round' = "gone"
    /\ UNCHANGED <<discVars, active, failed, osVars>>

\* One view that is gone.  Whoever tore it down marked its source as well.
Forget(s) ==
    LET m == active[s] IN
    /\ round = "gone" /\ s \in todo
    /\ todo' = todo \ {s}
    /\ active' = [active EXCEPT ![s] = None]
    /\ IF disc[m].tornDown
       THEN /\ MarkReleased(s)
            /\ UNCHANGED <<volumes, view, registry, disc, helpers, call, round>>
       ELSE Teardown(Loop, m, TRUE) /\ round' = "unmounting"
    /\ UNCHANGED <<failed, osVars>>

\* m.unmount() is back; the hold-off starts again from here.
Forgotten ==
    /\ round = "unmounting" /\ At(Loop, "returned")
    /\ MarkReleased(disc[call[Loop].disc].src)
    /\ call' = [call EXCEPT ![Loop] = Idle]
    /\ round' = "gone"
    /\ UNCHANGED <<volumes, view, registry, disc, helpers, active, failed, todo, osVars>>

\* Mutant: sources we released a moment ago are looked at as well.
ScanHeldOff ==
    /\ round = "gone" /\ todo = {}
    /\ released' = Swept
    /\ todo' = volumes \ Active
    /\ round' = "mount"
    /\ UNCHANGED <<volumes, view, registry, disc, helpers, call, active, failed, osVars>>

\* find_bd_volumes_except(skip), for discs the options let us mount.
Scan ==
    /\ round = "gone" /\ todo = {}
    /\ released' = Swept
    /\ todo' = {s \in volumes \ Active : Swept[s] = "no"}
    /\ round' = "mount"
    /\ UNCHANGED <<volumes, view, registry, disc, helpers, call, active, failed, osVars>>

\* A source in its backoff is passed over, and all are when Mounts is used up.
PassOver(s) ==
    /\ round = "mount" /\ s \in todo
    /\ s \in failed \/ Fresh = {}
    /\ todo' = todo \ {s}
    /\ UNCHANGED <<discVars, active, failed, round, osVars>>

StartMount(s) ==
    /\ round = "mount" /\ s \in todo
    /\ s \notin failed /\ Fresh # {}
    /\ Open(Loop, s)
    /\ todo' = todo \ {s}
    /\ round' = s
    /\ UNCHANGED <<active, failed, osVars>>

\* MountedDisc::mount is back.
EndMount(s) ==
    /\ round = s /\ At(Loop, "returned")
    /\ IF call[Loop].ok
       THEN active' = [active EXCEPT ![s] = call[Loop].disc] /\ failed' = failed \ {s}
       ELSE failed' = failed \cup {s} /\ UNCHANGED active
    /\ call' = [call EXCEPT ![Loop] = Idle]
    /\ round' = "mount"
    /\ UNCHANGED <<volumes, view, registry, released, disc, helpers, todo, osVars>>

EndRound ==
    /\ round = "mount" /\ todo = {}
    /\ round' = "tick"
    /\ UNCHANGED <<discVars, active, failed, todo, osVars>>

\* 60 s have passed since the mount failed.
BackoffOver(s) ==
    /\ s \in failed
    /\ failed' = failed \ {s}
    /\ UNCHANGED <<discVars, active, todo, round, osVars>>

\* SIGINT, SIGTERM or SIGHUP; the loop looks at it between two rounds.
Signal ==
    /\ round = "tick"
    /\ todo' = Active
    /\ round' = "drain"
    /\ UNCHANGED <<discVars, active, failed, osVars>>

Drain(s) ==
    /\ round = "drain" /\ s \in todo
    /\ todo' = todo \ {s}
    /\ active' = [active EXCEPT ![s] = None]
    /\ Teardown(Loop, active[s], TRUE)
    /\ round' = "draining"
    /\ UNCHANGED <<failed, osVars>>

Drained ==
    /\ round = "draining" /\ At(Loop, "returned")
    /\ call' = [call EXCEPT ![Loop] = Idle]
    /\ round' = "drain"
    /\ UNCHANGED <<volumes, view, registry, released, disc, helpers, active, failed, todo, osVars>>

\* run() returns and the process is gone, whatever its other threads do.
Exit ==
    /\ round = "drain" /\ todo = {}
    /\ round' = "exited"
    /\ UNCHANGED <<discVars, active, failed, todo, osVars>>

LoopStep ==
    \/ Tick \/ Forgotten \/ Scan \/ EndRound \/ Drained \/ Exit
    \/ \E s \in Sources : Forget(s) \/ PassOver(s) \/ StartMount(s) \/ EndMount(s) \/ Drain(s)
    \/ round # "exited" /\ Step(Loop) /\ UNCHANGED <<loopVars, osVars>>

-----------------------------------------------------------------------------
(* The system, and the eject hook it calls *)

Insert(s) ==
    /\ s \notin volumes /\ inserts < MaxInserts
    /\ volumes' = volumes \cup {s}
    /\ inserts' = inserts + 1
    /\ UNCHANGED <<view, registry, released, disc, helpers, call, loopVars, asked, approved>>

\* Unplugged, or unmounted by force: nobody is asked.
Vanish(s) ==
    /\ Yanks /\ s \in volumes
    /\ volumes' = volumes \ {s}
    /\ UNCHANGED <<view, registry, released, disc, helpers, call, loopVars, osVars>>

\* on_unmount_request: the mount of that path, if there is one, is torn down;
\* its view stays for DiskArbitration when it is the view that is unmounted.
Ask(path) ==
    /\ round # "exited"
    /\ asked = None /\ At(Hook, "idle")
    /\ IF path \in Sources THEN path \in volumes ELSE view[path] # None
    /\ asked' = path
    /\ LET m == FindByPath(path) IN
       IF m = None
       THEN approved' = TRUE /\ UNCHANGED discVars
       ELSE approved' = FALSE /\ Teardown(Hook, m, path = disc[m].src)
    /\ UNCHANGED <<loopVars, inserts>>

\* The callback returns, and it always approves.
Approve ==
    /\ round # "exited"
    /\ At(Hook, "returned")
    /\ approved' = TRUE
    /\ call' = [call EXCEPT ![Hook] = Idle]
    /\ UNCHANGED <<volumes, view, registry, released, disc, helpers, loopVars, asked, inserts>>

\* DiskArbitration unmounts what it had approved, or finds it busy.
Unmount ==
    /\ approved
    /\ \/ asked \in Sources /\ volumes' = volumes \ {asked} /\ UNCHANGED view
       \/ asked \in Labels /\ Unmounted(asked) /\ UNCHANGED volumes
       \/ "umount" \in Failures /\ UNCHANGED <<volumes, view>>
    /\ asked' = None /\ approved' = FALSE
    /\ UNCHANGED <<registry, released, disc, helpers, call, loopVars, inserts>>

HookStep == Approve \/ (round # "exited" /\ Step(Hook) /\ UNCHANGED <<loopVars, osVars>>)

Clock(s) == (Settle(s) /\ UNCHANGED <<loopVars, osVars>>) \/ BackoffOver(s)

Environment ==
    \/ \E s \in Sources : Insert(s) \/ Vanish(s)
    \/ \E path \in Asks : Ask(path)
    \/ \E m \in Mounts : HelperExits(m) /\ UNCHANGED <<loopVars, osVars>>

\* An exited process leaves a system that has nothing left to do.
Exited == round = "exited" /\ UNCHANGED vars

Next ==
    \/ LoopStep \/ Signal
    \/ HookStep \/ Unmount
    \/ \E s \in Sources : Clock(s)
    \/ Environment
    \/ Exited

Spec == Init /\ [][Next]_vars

\* The interval timer ticks, the commands the threads run come back, and time
\* passes; nobody has to insert, to eject or to send a signal.
FairSpec ==
    /\ Spec
    /\ WF_vars(LoopStep)
    /\ WF_vars(HookStep)
    /\ WF_vars(Unmount)
    /\ \A s \in Sources : WF_vars(Clock(s))

-----------------------------------------------------------------------------
(* Properties *)

\* Every variable keeps to its type, and a call in progress works on a mount.
TypeOK ==
    /\ DiscTypeOK
    /\ active \in [Sources -> Mounts \cup {None}]
    /\ failed \subseteq Sources /\ todo \subseteq Sources
    /\ round \in Rounds \cup Sources
    /\ asked \in Sources \cup Labels \cup {None}
    /\ approved \in BOOLEAN
    /\ inserts \in 0..MaxInserts

\* A hard NFS mount never outlives its server, unless umount failed or the
\* view was left for DiskArbitration to unmount.
ViewServed ==
    round # "exited" => \A l \in Labels :
        view[l] # None => disc[view[l]].server \/ disc[view[l]].left

\* The loop opens no source that is held off when it comes to it, however
\* long the mounts before it took.
MountOnlyReady ==
    [][\A s \in Sources : round # s /\ round' = s => released[s] = "no"]_vars

\* "Release the disc before macOS unmounts it": when the callback approves
\* the unmount of a volume, nothing of ours has that disc open.
ReleaseBeforeUnmount ==
    approved /\ asked \in Sources =>
        \A m \in Mounts : disc[m].src = asked => disc[m].engine # "open"

\* A source that is gone for good is in the end out of the registry, with no
\* teardown left behind, whoever noticed and whatever failed on the way.
GoneIsForgotten ==
    \A s \in Sources : <>[](s \notin volumes) =>
        <>[](round = "exited" \/
            \A m \in Mounts : disc[m].src = s => ~InRegistry(m) /\ ~Busy(m) /\ active[s] # m)

\* The callback comes back and the system gets to unmount, unless the process
\* is gone by then.
EjectAnswered == asked # None ~> asked = None \/ round = "exited"
=============================================================================
