----------------------------- MODULE MountMode -----------------------------
(***************************************************************************)
(* Mount mode: the one-second loop of cmd_mount (src/src/main.rs) over the *)
(* raw devices of all drives, the mailbox `bdmount eject` writes to, the   *)
(* claims of src/src/da.rs, which a DiskArbitration callback adds to and   *)
(* an eject takes from, and the eject of a tray.  A source is a whole disk *)
(* (/dev/rdiskN), and `volumes` are the drives with a disc in them.        *)
(***************************************************************************)
EXTENDS MountedDisc, SequencesExt

CONSTANTS
    Main,           \* the loop, the one thread that mounts and releases
    Order,          \* the drives in the order diskutil lists them
    Kinds,          \* of discs: "bd", "locked", "avchd"
    Requests,       \* what `bdmount eject` asks for, as sets of drives
    Torn,           \* a request that is not written to its end
    MaxInserts,     \* bounds on the discs and the requests of a run
    MaxRequests

\* "locked" is a Blu-ray that libmmbd cannot open, "avchd" a DVD with a BDMV
\* directory.
ASSUME DrivesAssumption ==
    /\ Threads = {Main}
    /\ Order \in Seq(Sources) /\ \A s \in Sources : \E i \in DOMAIN Order : Order[i] = s
    /\ Kinds \subseteq {"bd", "locked", "avchd"}
    /\ Requests \subseteq SUBSET Sources /\ Torn \notin Requests \cup {None}
    /\ MaxInserts \in Nat /\ MaxRequests \in Nat

\* Where the loop can be, besides mounting a source; no device has such a path.
Steps == {"tick", "remove", "handle", "releasing", "eject", "poll", "drain", "draining", "exited"}
ASSUME StepsAssumption == Steps \cap Sources = {}

VARIABLES
    live,       \* the mounts of the loop
    step,       \* where the loop is; a source while it is being mounted
    todo,       \* mounts it is about to release
    mailbox,    \* eject-request.json
    writing,    \* what an eject process has opened it to write
    taken,      \* the request the loop has read
    media,      \* what is, or was last, in each drive
    approving,  \* drives whose mount DiskArbitration has yet to have approved
    claimed,    \* CLAIMED
    persisted,  \* claimed.json
    inserts, requests,
    wanted,     \* history: the mounts a request named while they were live
    unheard,    \* history: those whose request the loop read half-written
    lost        \* history: the mounts whose disc left by hand

loopVars  == <<live, step, todo, taken>>
claimVars == <<claimed, persisted>>
osVars    == <<media, approving, inserts, lost>>
userVars  == <<mailbox, writing, requests, wanted, unheard>>
vars      == <<discVars, loopVars, claimVars, osVars, userVars>>

\* An earlier process may have left discs in, and its claims on them.
Init ==
    /\ \E left \in SUBSET Sources : DiscInit(left) /\ persisted = left
    /\ live = {} /\ step = "tick" /\ todo = {} /\ taken = None
    /\ mailbox = None /\ writing = None
    /\ media \in [Sources -> Kinds] /\ \A s \in Sources \ volumes : media[s] = "bd"
    /\ approving = {}
    /\ claimed = <<>>
    /\ inserts = 0 /\ requests = 0
    /\ wanted = {} /\ unheard = {} /\ lost = {}

-----------------------------------------------------------------------------
(* Claims *)

\* all_claimed_bsd_names.
AllClaimed == ToSet(claimed) \cup persisted

\* persist_claimed: the file then has the names of this process only.
Claims(names) == claimed' = names /\ persisted' = ToSet(names)

\* on_mount_request: the mount of a Blu-ray is refused and its drive claimed,
\* that of a DVD approved.
ApproveMount(d) ==
    /\ d \in approving /\ step # "exited"
    /\ approving' = approving \ {d}
    /\ IF media[d] = "avchd" THEN UNCHANGED claimVars
       ELSE Claims(IF d \in ToSet(claimed) THEN claimed ELSE Append(claimed, d))
    /\ UNCHANGED <<discVars, loopVars, media, inserts, lost, userVars>>

-----------------------------------------------------------------------------
(* The loop: eject requests *)

SourceOf(m) == disc[m].src

\* take_eject_request: the file is read as it is, and removed in a second step.
TakeRequest ==
    /\ step = "tick"
    /\ taken' = mailbox
    /\ step' = IF mailbox = None THEN "poll" ELSE "remove"
    /\ UNCHANGED <<discVars, live, todo, claimVars, osVars, userVars>>

\* What the request names: one that does not parse is none.
Named == IF taken = Torn THEN {} ELSE {m \in live : SourceOf(m) \in taken}

\* The file is gone before its text is parsed.
Parse ==
    /\ step = "remove"
    /\ mailbox' = None
    /\ taken' = None
    /\ step' = IF taken = Torn THEN "poll" ELSE "handle"
    /\ UNCHANGED <<discVars, claimVars, osVars, writing, requests, wanted, unheard>>

\* Mutant: the discs that are to stay are not put back.
RemoveRequestDrained == Parse /\ todo' = Named /\ live' = {}

\* Mutant: one of the discs asked for is taken, the rest stays.
RemoveRequestOne ==
    /\ Parse
    /\ todo' = IF Named = {} THEN {} ELSE {CHOOSE m \in Named : TRUE}
    /\ live' = live \ todo'

\* handle_eject_request splits the live discs.
RemoveRequest == Parse /\ todo' = Named /\ live' = live \ Named

Release(m) ==
    /\ step = "handle" /\ m \in todo
    /\ todo' = todo \ {m}
    /\ Teardown(Main, m, TRUE)
    /\ step' = "releasing"
    /\ UNCHANGED <<live, taken, claimVars, osVars, userVars>>

\* md.unmount() is back; after an error the tray is left alone.
Released ==
    /\ step = "releasing" /\ At(Main, "returned")
    /\ IF call[Main].ok
       THEN step' = "eject" /\ UNCHANGED call
       ELSE step' = "handle" /\ call' = [call EXCEPT ![Main] = Idle]
    /\ UNCHANGED <<volumes, view, registry, released, disc, helpers, live, todo, taken,
                   claimVars, osVars, userVars>>

Target == SourceOf(call[Main].disc)

\* Our own device file keeps the drive busy for as long as its engine is open.
HeldByUs(d) == \E m \in Mounts : SourceOf(m) = d /\ disc[m].engine = "open"

\* eject_after_release_filter: the drive is ours, idle and no DVD.
EjectTray ==
    /\ step = "eject"
    /\ Target \in volumes \cap AllClaimed /\ media[Target] # "avchd" /\ ~HeldByUs(Target)
    /\ volumes' = volumes \ {Target}
    /\ approving' = approving \ {Target}
    /\ Claims(Kept(claimed, Sources \ {Target}))
    /\ call' = [call EXCEPT ![Main] = Idle]
    /\ step' = "handle"
    /\ UNCHANGED <<view, registry, released, disc, helpers, live, todo, taken, media,
                    inserts, lost, userVars>>

\* It is gone, not claimed, not idle within 20 s, or DiskArbitration refuses.
EjectRefused ==
    /\ step = "eject"
    /\ \/ Target \notin volumes \cap AllClaimed \/ media[Target] = "avchd" \/ HeldByUs(Target)
       \/ Failures \cap {"holder", "eject"} # {}
    /\ call' = [call EXCEPT ![Main] = Idle]
    /\ step' = "handle"
    /\ UNCHANGED <<volumes, view, registry, released, disc, helpers, live, todo, taken,
                   claimVars, osVars, userVars>>

EndRequest ==
    /\ step = "handle" /\ todo = {}
    /\ step' = "poll"
    /\ UNCHANGED <<discVars, live, todo, taken, claimVars, osVars, userVars>>

-----------------------------------------------------------------------------
(* The loop: discs that came and went *)

\* live.retain: what is gone is dropped as it is.
Retained == {m \in live : ~disc[m].tornDown /\ SourceOf(m) \in volumes}

\* Mutant: only the drives this process has claimed are looked at.
OpticalDisksClaimed == claimed

\* find_optical_rdisks: claimed drives as they are, others unless they hold a
\* DVD or a CD.
OpticalDisks == claimed \o Kept(Order, {d \in Sources : media[d] # "avchd"})

\* Mutant: only the first drive is looked at.
BdDisksFirst == SelectSeq(OpticalDisks, LAMBDA d :
    d = Head(OpticalDisks) /\ d \in volumes /\ \A m \in Retained : SourceOf(m) # d)

\* Mutant: drives with a live disc are not passed over.
BdDisksLiveToo == Kept(OpticalDisks, volumes)

\* poll_bd_rdisk: those that have a disc with a BDMV and are not live.
BdDisks == Kept(OpticalDisks, {d \in volumes : \A m \in Retained : SourceOf(m) # d})

PollNothing ==
    /\ step = "poll" /\ (BdDisks = <<>> \/ Fresh = {})
    /\ live' = Retained
    /\ step' = "tick"
    /\ UNCHANGED <<discVars, todo, taken, claimVars, osVars, userVars>>

\* libmmbd cannot open it: MountedDisc::mount fails with nothing begun.
OpenLocked ==
    /\ call' = [call EXCEPT ![Main] = [Idle EXCEPT !.pc = "returned", !.ok = FALSE]]
    /\ UNCHANGED <<volumes, view, registry, released, disc, helpers>>

\* One mount in a tick, of the first disc there is.
StartMount(d) ==
    /\ step = "poll" /\ BdDisks # <<>> /\ Fresh # {}
    /\ d = Head(BdDisks)
    /\ live' = Retained
    /\ IF media[d] = "locked" THEN OpenLocked ELSE Open(Main, d)
    /\ step' = d
    /\ UNCHANGED <<todo, taken, claimVars, osVars, userVars>>

\* Mutant: whether it succeeded is not looked at.
EndMountUnchecked(d) ==
    /\ step = d /\ At(Main, "returned")
    /\ live' = live \cup {call[Main].disc}
    /\ call' = [call EXCEPT ![Main] = Idle]
    /\ step' = "tick"
    /\ UNCHANGED <<volumes, view, registry, released, disc, helpers, todo, taken,
                   claimVars, osVars, userVars>>

\* MountedDisc::mount is back; an error is logged.
EndMount(d) ==
    /\ step = d /\ At(Main, "returned")
    /\ live' = IF call[Main].ok THEN live \cup {call[Main].disc} ELSE live
    /\ call' = [call EXCEPT ![Main] = Idle]
    /\ step' = "tick"
    /\ UNCHANGED <<volumes, view, registry, released, disc, helpers, todo, taken,
                   claimVars, osVars, userVars>>

Signal ==
    /\ step = "tick"
    /\ todo' = live /\ live' = {}
    /\ step' = "drain"
    /\ UNCHANGED <<discVars, taken, claimVars, osVars, userVars>>

Drain(m) ==
    /\ step = "drain" /\ m \in todo
    /\ todo' = todo \ {m}
    /\ Teardown(Main, m, TRUE)
    /\ step' = "draining"
    /\ UNCHANGED <<live, taken, claimVars, osVars, userVars>>

Drained ==
    /\ step = "draining" /\ At(Main, "returned")
    /\ call' = [call EXCEPT ![Main] = Idle]
    /\ step' = "drain"
    /\ UNCHANGED <<volumes, view, registry, released, disc, helpers, live, todo, taken,
                   claimVars, osVars, userVars>>

Exit ==
    /\ step = "drain" /\ todo = {}
    /\ step' = "exited"
    /\ UNCHANGED <<discVars, live, todo, taken, claimVars, osVars, userVars>>

LoopStep ==
    \/ TakeRequest \/ RemoveRequest \/ Released \/ EjectTray \/ EjectRefused
    \/ EndRequest \/ PollNothing \/ Drained \/ Exit
    \/ \E m \in Mounts : Release(m) \/ Drain(m)
    \/ \E d \in Sources : StartMount(d) \/ EndMount(d)
    \/ Step(Main) /\ UNCHANGED <<loopVars, claimVars, osVars, userVars>>

ClaimStep == \E d \in Sources : ApproveMount(d)

-----------------------------------------------------------------------------
(* Discs and the user *)

\* A disc goes in, and DiskArbitration asks whether it may be mounted.
Insert(d, kind) ==
    /\ d \notin volumes /\ inserts < MaxInserts /\ step # "exited"
    /\ volumes' = volumes \cup {d}
    /\ media' = [media EXCEPT ![d] = kind]
    /\ approving' = approving \cup {d}
    /\ inserts' = inserts + 1
    /\ UNCHANGED <<view, registry, released, disc, helpers, call, loopVars, claimVars,
                   lost, userVars>>

\* The button of the drive, or its cable.
Vanish(d) ==
    /\ d \in volumes /\ step # "exited"
    /\ volumes' = volumes \ {d}
    /\ approving' = approving \ {d}
    /\ lost' = lost \cup {m \in Mounts : SourceOf(m) = d /\ disc[m].engine = "open"}
    /\ UNCHANGED <<view, registry, released, disc, helpers, call, loopVars, claimVars,
                   media, inserts, userVars>>

\* write_eject_request of another process, a plain fs::write: it opens the file,
\* and with that cuts off any request in it,
OpenMailbox(r) ==
    /\ writing = None
    /\ mailbox' = Torn
    /\ writing' = r

\* and then writes its own, to a file the loop may have removed by now.
WriteMailbox ==
    /\ writing # None
    /\ mailbox' = IF mailbox = None THEN None ELSE writing
    /\ writing' = None

\* `bdmount eject`; one such process at a time.
AskEject(r) ==
    /\ requests < MaxRequests /\ step # "exited"
    /\ OpenMailbox(r)
    /\ requests' = requests + 1
    /\ UNCHANGED <<discVars, loopVars, claimVars, osVars, wanted, unheard>>

Asked ==
    /\ WriteMailbox
    /\ LET hits == {m \in live : SourceOf(m) \in writing} IN
       IF mailbox = None \/ taken = Torn
       THEN unheard' = unheard \cup hits /\ UNCHANGED wanted
       ELSE wanted' = wanted \cup hits /\ UNCHANGED unheard
    /\ UNCHANGED <<discVars, loopVars, claimVars, osVars, requests>>

Environment ==
    \/ \E d \in Sources : Vanish(d) \/ \E kind \in Kinds : Insert(d, kind)
    \/ \E r \in Requests : AskEject(r)
    \/ Asked
    \/ \E m \in Mounts : HelperExits(m) /\ UNCHANGED <<loopVars, claimVars, osVars, userVars>>

Exited == step = "exited" /\ UNCHANGED vars

Next == LoopStep \/ Signal \/ ClaimStep \/ Environment \/ Exited

Spec == Init /\ [][Next]_vars

\* The timer ticks and the commands of the loop come back, and DiskArbitration
\* calls; nobody has to insert a disc, to ask or to send a signal.
FairSpec == Spec /\ WF_vars(LoopStep) /\ WF_vars(ClaimStep)

-----------------------------------------------------------------------------
(* Properties *)

\* Every variable keeps to its type, and the loop releases what it mounted.
TypeOK ==
    /\ DiscTypeOK
    /\ live \subseteq Mounts /\ todo \subseteq Mounts
    /\ \A m \in live \cup todo : SourceOf(m) \in Sources
    /\ step \in Steps \cup Sources
    /\ mailbox \in Requests \cup {None, Torn} /\ taken \in Requests \cup {None, Torn}
    /\ writing \in Requests \cup {None}
    /\ media \in [Sources -> Kinds \cup {"bd"}] /\ approving \subseteq volumes
    /\ claimed \in Seq(Sources) /\ persisted \subseteq Sources
    /\ inserts \in 0..MaxInserts /\ requests \in 0..MaxRequests
    /\ wanted \subseteq Mounts /\ unheard \subseteq Mounts /\ lost \subseteq Mounts

\* Of two discs the loop knows no two are of the same drive, however often the
\* drive is listed and its disc swapped (poll_bd_rdisk's skip).
OnePerDrive ==
    \A m, n \in live \cup todo : m # n => SourceOf(m) # SourceOf(n)

\* The loop knows every mount it serves, unless the disc left by hand: an eject
\* of another disc, or one that fails, loses none (handle_eject_request,
\* live.retain).
NoOrphan ==
    step # "exited" => \A m \in Mounts \ lost :
        InRegistry(m) => m \in live \cup todo \/ call[Main].disc = m

\* What a request named while it was live is in the end released, whatever
\* else the loop had to mount or to refuse before, unless its disc had left by
\* hand; if the loop came upon the request when all of it was written.
Honoured(m) == disc[m].engine = "closed" \/ m \in lost \/ step = "exited"

RequestHonoured == []<>(\A m \in wanted : Honoured(m))

\* "Ask a still-running `bdmount mount` to release (per device or all), then
\* eject": whatever the loop was at when it was asked.  It does not hold of a
\* request the loop reads half-written; no run checks it.
EveryRequestHonoured == []<>(\A m \in wanted \cup unheard : Honoured(m))

\* A Blu-ray in the drive, and served: not the disc that was there before it.
\* Mounts bounds the tries of a run.
Stays(d)  == d \in volumes /\ media[d] = "bd"
Served(d) == \/ \E m \in live \ lost : SourceOf(m) = d
             \/ Fresh = {} \/ step \in {"drain", "draining", "exited"}

\* "Serves every Blu-ray drive at once": a Blu-ray that stays in is in the end
\* served, whatever is in the other drives and was in its own.  It does not
\* hold by itself: ServedUnlessHidden says where.
EveryDriveServed == \A d \in Sources : <>[]Stays(d) => <>[]Served(d)

\* A disc put in between two ticks for one the loop still lists.
Swapped(d) == d \in volumes /\ \E m \in live \cap lost : SourceOf(m) = d

\* It is so as long as no disc that cannot be opened stays in a drive listed
\* before it, and no disc is taken for the one that was there before it.
ServedUnlessHidden ==
    <>[](\A d \in volumes : media[d] # "locked" /\ ~Swapped(d)) => EveryDriveServed
=============================================================================
