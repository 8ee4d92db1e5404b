------------------------ MODULE EjectCommandProofs ------------------------
(***************************************************************************)
(* Theorems about mount mode.  First those about MountMode, the loop       *)
(* alone: its types, one mount per drive, and that it loses no mount it    *)
(* serves.  Then those about EjectCommand, the same loop beside crashes    *)
(* and another process: a disc that is served keeps its helper, a dead     *)
(* process's helper runs beside no session, and a request that is older    *)
(* than the process releases nothing.                                      *)
(***************************************************************************)
EXTENDS EjectCommand, MountedDiscProofs

-----------------------------------------------------------------------------
(* MountMode.  The inductive invariant of the loop and its call *)

Ended == call[Main].pc = "returned"

\* What the loop lists, to keep or to release, is in the registry, once.
ListedInv ==
    /\ \A m \in live \cup todo : m \in Mounts /\ InRegistry(m)
    /\ live \cap todo = {}

\* Its call is the one that its step waits for.
CallInv ==
    /\ step \notin {"releasing", "draining", "eject"} \cup Sources => call[Main] = Idle
    /\ step \in {"releasing", "draining", "eject"} =>
          /\ Ended \/ (Tearing(Main) /\ step # "eject")
          /\ call[Main].disc \in Mounts \ (live \cup todo)
          /\ Ended => ~InRegistry(call[Main].disc)
    /\ step \in Sources =>
          /\ Mounting(Main) \/ Ended
          /\ Mounting(Main) \/ call[Main].ok =>
                /\ call[Main].disc \in Mounts /\ disc[call[Main].disc].src = step
          /\ Ended => (InRegistry(call[Main].disc) <=> call[Main].ok)

\* There is something to release only while the loop releases it.
TodoInv == step \notin {"handle", "releasing", "eject", "drain", "draining"} => todo = {}

LoopInv == ListedInv /\ CallInv /\ TodoInv

\* A disc the loop has is in its drive, unless it left by hand.
InDriveInv ==
    \A m \in Mounts \ lost : InRegistry(m) \/ (Mounting(Main) /\ call[Main].disc = m) =>
        SourceOf(m) \in volumes

\* The drive that is being mounted is in no list.
FreeInv == step \in Sources => \A m \in live : SourceOf(m) # step

DriveInv == InDriveInv /\ FreeInv /\ OnePerDrive /\ NoOrphan

-----------------------------------------------------------------------------
(* The steps of the loop keep the mounts and its call *)

BInv == DiscInv /\ LoopInv

\* Mount mode has one thread that mounts and releases.
LEMMA One == Main \in Threads /\ \A t \in Threads : t = Main
BY DrivesAssumption

\* Where the loop waits for a call.
Waiting == {"releasing", "draining", "eject"}

\* Steps of the loop between two calls.
Between == TakeRequest \/ RemoveRequest \/ EndRequest \/ PollNothing \/ Signal \/ Exit

\* A step of the loop between two calls leaves the mounts alone and lists nothing new.
LEMMA BetweenFrame ==
    ASSUME Between, LoopInv
    PROVE  /\ UNCHANGED discVars
           /\ step \in Steps \ Waiting /\ step' \in Steps \ Waiting
           /\ live' \cup todo' \subseteq live \cup todo
           /\ live' \cap todo' = {}
<1>1. UNCHANGED discVars /\ step \in Steps \ Waiting /\ step' \in Steps \ Waiting
  BY DEF Between, TakeRequest, RemoveRequest, Parse, Named, EndRequest, PollNothing, Signal, Exit, Steps, Waiting
<1>2. live' \cup todo' \subseteq live \cup todo /\ live' \cap todo' = {}
  BY DEF Between, TakeRequest, RemoveRequest, Parse, Named, EndRequest, PollNothing, Signal, Exit, Retained,
         LoopInv, ListedInv
<1>3. QED
  BY <1>1, <1>2

\* Such a step keeps what the loop lists.
LEMMA BetweenLoop == ASSUME LoopInv, Between PROVE LoopInv'
<1>1. /\ UNCHANGED discVars
      /\ step \in Steps \ Waiting /\ step' \in Steps \ Waiting
      /\ live' \cup todo' \subseteq live \cup todo
      /\ live' \cap todo' = {}
  BY BetweenFrame
<1>2. UNCHANGED <<registry, call, disc>>
  BY <1>1 DEF discVars
<1>3. ListedInv'
  BY <1>1, <1>2 DEF LoopInv, ListedInv, InRegistry
<1>4. CallInv'
  <2>1. step \notin Waiting \cup Sources /\ step' \notin Waiting \cup Sources
    BY <1>1, StepsAssumption
  <2>2. call'[Main] = Idle
    BY <1>2, <2>1 DEF LoopInv, CallInv, Waiting
  <2>3. QED
    BY <2>1, <2>2 DEF CallInv, Waiting
<1>5. TodoInv'
  BY DEF LoopInv, TodoInv, Between, TakeRequest, RemoveRequest, Parse, Named, EndRequest, PollNothing, Signal, Exit
<1>6. QED
  BY <1>3, <1>4, <1>5 DEF LoopInv

\* Such a step keeps the invariant of the loop.
LEMMA BetweenB == ASSUME BInv, Between PROVE BInv'
<1>1. UNCHANGED discVars
  BY BetweenFrame DEF BInv
<1>2. DiscInv'
  BY <1>1, QuietStep DEF BInv, discVars, DiscInv, DiscTypeOK
<1>3. QED
  BY <1>2, BetweenLoop DEF BInv

\* What the OS, a callback and another process change, the loop does not know.
LEMMA SameLoop ==
    ASSUME LoopInv, UNCHANGED <<registry, call, disc, live, todo, step>>
    PROVE  LoopInv'
<1>1. \A n : InRegistry(n)' <=> InRegistry(n)
  BY DEF InRegistry
<1>2. CallInv'
  BY <1>1 DEF LoopInv, CallInv, Ended, Tearing, Mounting, InRegistry
<1>3. ListedInv' /\ TodoInv'
  BY <1>1 DEF LoopInv, ListedInv, TodoInv
<1>4. QED
  BY <1>2, <1>3 DEF LoopInv

\* So does what happens around the loop.
LEMMA OutsideB ==
    ASSUME BInv, UNCHANGED <<registry, call, disc, released, live, todo, step>>,
           volumes' \subseteq Sources, view' \in [Labels -> Mounts \cup {None}], helpers' \subseteq Mounts
    PROVE  BInv'
<1>1. released' \in [Sources -> {"no", "settling", "settled"}]
  BY DEF BInv, DiscInv, DiscTypeOK
<1>2. DiscInv'
  BY <1>1, QuietStep DEF BInv
<1>3. QED
  BY <1>2, SameLoop DEF BInv

\* What is listed is open and not marked: the one teardown there is, is not of it.
LEMMA ListedUnmarked ==
    ASSUME BInv, NEW m \in live \cup todo
    PROVE  /\ m \in Mounts /\ InRegistry(m) /\ ~disc[m].tornDown
           /\ disc[m].engine = "open" /\ disc[m].src \in Sources
<1>1. m \in Mounts /\ InRegistry(m)
  BY DEF BInv, LoopInv, ListedInv
<1>2. disc[m].engine = "open" /\ disc[m].src \in Sources
  BY <1>1 DEF BInv, DiscInv, CallsInv, RegisteredInv
<1>3. ASSUME disc[m].tornDown PROVE FALSE
  <2>1. call[Main].pc \in {"deregister", "unmount", "shutdown"} /\ call[Main].disc = m
    BY <1>1, <1>2, <1>3, One DEF BInv, DiscInv, CallsInv, TornInv
  <2>2. step \in Waiting
    BY <2>1 DEF BInv, LoopInv, CallInv, Idle, Mounting, Ended, Waiting
  <2>3. QED
    BY <2>1, <2>2 DEF BInv, LoopInv, CallInv, Waiting
<1>4. QED
  BY <1>1, <1>2, <1>3

\* A release takes the mount off the lists before its teardown begins.
LEMMA ReleaseB == ASSUME BInv, NEW m \in Mounts, Release(m) \/ Drain(m) PROVE BInv'
<1>1. /\ m \in todo /\ Teardown(Main, m, TRUE) /\ todo' = todo \ {m} /\ live' = live
      /\ step' \in {"releasing", "draining"}
  BY DEF Release, Drain
<1>2. /\ InRegistry(m) /\ ~disc[m].tornDown /\ Main \in Threads
      /\ DiscInv /\ LoopInv /\ DiscTypeOK /\ step' \notin Sources
  BY <1>1, ListedUnmarked, One, StepsAssumption DEF BInv, DiscInv, Steps
<1>3. DiscInv'
  BY <1>1, <1>2, TeardownStep
<1>4. call'[Main].pc = "deregister" /\ call'[Main].disc = m /\ registry' = registry
  BY <1>1, <1>2 DEF Teardown, DiscTypeOK, Idle
<1>5. ListedInv' /\ TodoInv' /\ m \notin live' \cup todo'
  BY <1>1, <1>2, <1>4 DEF LoopInv, ListedInv, TodoInv, InRegistry
<1>6. CallInv'
  BY <1>1, <1>2, <1>4, <1>5 DEF CallInv, Tearing, Ended
<1>7. QED
  BY <1>3, <1>5, <1>6 DEF BInv, LoopInv

\* The loop goes on from a call that is back, for good or for the eject.
LEMMA EndCall ==
    ASSUME DiscInv, Ended, UNCHANGED <<view, registry, released, disc, helpers>>,
           volumes' \subseteq Sources, call' = [call EXCEPT ![Main] = Idle]
    PROVE  DiscInv' /\ call'[Main] = Idle
<1>1. /\ DiscTypeOK /\ Main \in Threads /\ Idle \in Call /\ Idle.pc = "idle"
      /\ \A t \in Threads : t = Main
  BY One DEF DiscInv, Idle, Call
<1>2. call'[Main] = Idle /\ call'[Main].pc = "idle" /\ call' \in [Threads -> Call]
  BY <1>1 DEF DiscTypeOK
<1>3. \A n : InRegistry(n)' <=> InRegistry(n)
  BY DEF InRegistry
<1>4. DiscTypeOK'
  BY <1>1, <1>2, <1>3 DEF DiscTypeOK
<1>5. MountingInv' /\ TearingInv' /\ ApartInv'
  BY <1>1, <1>2 DEF MountingInv, TearingInv, ApartInv, Mounting, Tearing
<1>6. RegisteredInv' /\ TornInv'
  BY <1>1, <1>2, <1>3 DEF DiscInv, CallsInv, RegisteredInv, TornInv, Ended
<1>7. QED
  BY <1>2, <1>4, <1>5, <1>6 DEF DiscInv, CallsInv

\* A release that is over: nothing of it is in the registry.
LEMMA BackB == ASSUME BInv, Drained \/ EjectTray \/ EjectRefused \/ Released PROVE BInv'
<1>1. /\ step \in Waiting /\ Ended /\ UNCHANGED <<view, registry, released, disc, helpers, live, todo>>
      /\ step \notin Sources
  <2>1. step \in Waiting /\ UNCHANGED <<view, registry, released, disc, helpers, live, todo>>
    BY DEF Drained, EjectTray, EjectRefused, Released, Waiting
  <2>2. step # "eject" => Ended
    BY DEF Drained, EjectTray, EjectRefused, Released, At, Ended
  <2>3. step = "eject" => Ended
    BY DEF BInv, LoopInv, CallInv
  <2>4. QED
    BY <2>1, <2>2, <2>3, StepsAssumption DEF Waiting, Steps
<1>2. volumes' \subseteq Sources
  BY DEF Drained, EjectTray, EjectRefused, Released, BInv, DiscInv, DiscTypeOK
<1>3. ListedInv'
  BY <1>1 DEF BInv, LoopInv, ListedInv, InRegistry
<1>4. TodoInv'
  BY DEF BInv, LoopInv, TodoInv, Drained, EjectTray, EjectRefused, Released
<1>5. CASE call' = [call EXCEPT ![Main] = Idle] /\ step' \in {"handle", "drain"}
  <2>1. DiscInv' /\ call'[Main] = Idle
    BY <1>1, <1>2, <1>5, EndCall DEF BInv
  <2>2. step' \notin Waiting \cup Sources
    BY <1>5, StepsAssumption DEF Waiting, Steps
  <2>3. CallInv'
    BY <2>1, <2>2 DEF CallInv, Waiting
  <2>4. QED
    BY <1>3, <1>4, <2>1, <2>3 DEF BInv, LoopInv
<1>6. CASE call' = call /\ step' = "eject"
  <2>1. step' \notin Sources
    BY <1>6, StepsAssumption DEF Steps
  <2>2. CallInv'
    BY <1>1, <1>6, <2>1 DEF BInv, LoopInv, CallInv, Waiting, Ended, InRegistry
  <2>3. DiscInv'
    BY <1>1, <1>2, <1>6, QuietStep DEF BInv, DiscInv, DiscTypeOK
  <2>4. QED
    BY <1>3, <1>4, <2>2, <2>3 DEF BInv, LoopInv
<1>7. QED
  BY <1>5, <1>6 DEF Drained, EjectTray, EjectRefused, Released

\* A mount that fails at once has no instance.
LEMMA OpenAtMain ==
    ASSUME DiscInv, NEW d \in Sources, Open(Main, d) \/ (call[Main] = Idle /\ OpenLocked)
    PROVE  /\ DiscInv' /\ UNCHANGED <<volumes, view, registry, released>>
           /\ \A n \in Mounts : InRegistry(n) => disc'[n] = disc[n]
           /\ \/ /\ disc' = disc /\ helpers' = helpers
                 /\ call'[Main].pc = "returned" /\ ~call'[Main].ok /\ call'[Main].disc = None
              \/ \E m \in Fresh :
                    /\ call'[Main].pc = "prepare" /\ call'[Main].disc = m /\ ~InRegistry(m)
                    /\ disc'[m].src = d /\ d \in volumes /\ helpers' = helpers \cup {m}
                    /\ \A n \in Mounts \ {m} : disc'[n] = disc[n]
<1>1. Main \in Threads /\ DiscTypeOK /\ \A m \in Fresh : m \in Mounts /\ ~InRegistry(m)
  BY One, FreshUnused DEF DiscInv
<1>2. CASE call' = [call EXCEPT ![Main] = [Idle EXCEPT !.pc = "returned", !.ok = FALSE]]
           /\ UNCHANGED <<volumes, view, registry, released, disc, helpers>>
  <2>1. /\ call' \in [Threads -> Call] /\ \A u \in Threads \ {Main} : call'[u] = call[u]
        /\ call'[Main].pc = "returned" /\ ~call'[Main].ok /\ call'[Main].disc = None
    BY <1>1, <1>2 DEF DiscTypeOK, Idle, Call
  <2>2. call[Main].pc = "idle"
    <3>1. Open(Main, d) => call[Main].pc = "idle"
      BY DEF Open, At
    <3>2. call[Main] = Idle => call[Main].pc = "idle"
      BY DEF Idle
    <3>3. QED
      BY <3>1, <3>2
  <2>3. DiscInv'
    BY <1>1, <1>2, <2>1, <2>2, CallStep DEF Mounting, DiscTypeOK
  <2>4. QED
    BY <1>2, <2>1, <2>3
<1>3. ASSUME Open(Main, d), NEW m \in Fresh, d \in volumes,
             disc' = [disc EXCEPT ![m] = [@ EXCEPT !.src = d, !.engine = "open", !.server = TRUE]],
             helpers' = helpers \cup {m},
             call' = [call EXCEPT ![Main] = [Idle EXCEPT !.pc = "prepare", !.disc = m]]
      PROVE  /\ DiscInv' /\ UNCHANGED <<volumes, view, registry, released>>
             /\ \A n \in Mounts : InRegistry(n) => disc'[n] = disc[n]
             /\ call'[Main].pc = "prepare" /\ call'[Main].disc = m /\ ~InRegistry(m)
             /\ disc'[m].src = d /\ \A n \in Mounts \ {m} : disc'[n] = disc[n]
  <2>1. DiscInv' /\ UNCHANGED <<volumes, view, registry, released>>
    BY <1>1, <1>3, OpenStep DEF Open
  <2>2. call'[Main].pc = "prepare" /\ call'[Main].disc = m
    BY <1>1, <1>3 DEF DiscTypeOK, Idle
  <2>3. disc'[m].src = d /\ \A n \in Mounts \ {m} : disc'[n] = disc[n]
    BY <1>1, <1>3 DEF DiscTypeOK, Fresh, Unused
  <2>4. QED
    BY <1>1, <2>1, <2>2, <2>3
<1>4. CASE OpenLocked
  BY <1>2, <1>4 DEF OpenLocked
<1>5. CASE Open(Main, d)
  BY <1>2, <1>3, <1>5 DEF Open
<1>6. QED
  BY <1>4, <1>5

\* The loop starts a mount: its call is the one its step waits for.
LEMMA StartB == ASSUME BInv, NEW d \in Sources, StartMount(d) PROVE BInv'
<1>1. /\ step = "poll" /\ step' = d /\ todo' = todo /\ live' \subseteq live
      /\ Open(Main, d) \/ OpenLocked
  BY DEF StartMount, Retained
<1>2. d \notin Steps /\ step \notin Sources /\ call[Main] = Idle /\ todo = {}
  BY <1>1, StepsAssumption DEF BInv, LoopInv, CallInv, TodoInv, Steps
<1>3. /\ DiscInv' /\ UNCHANGED <<volumes, view, registry, released>>
      /\ \A n \in Mounts : InRegistry(n) => disc'[n] = disc[n]
      /\ \/ /\ disc' = disc /\ helpers' = helpers
            /\ call'[Main].pc = "returned" /\ ~call'[Main].ok /\ call'[Main].disc = None
         \/ \E m \in Fresh :
               /\ call'[Main].pc = "prepare" /\ call'[Main].disc = m /\ ~InRegistry(m)
               /\ disc'[m].src = d /\ d \in volumes /\ helpers' = helpers \cup {m}
               /\ \A n \in Mounts \ {m} : disc'[n] = disc[n]
  BY <1>1, <1>2, OpenAtMain DEF BInv
<1>4. ListedInv' /\ TodoInv'
  BY <1>1, <1>2, <1>3 DEF BInv, LoopInv, ListedInv, TodoInv, InRegistry
<1>5. ~InRegistry(None)'
  BY <1>3, NamesAssumption DEF DiscInv, DiscTypeOK, InRegistry
<1>6. CallInv'
  <2>1. step' \in Sources /\ step' = d /\ step' \notin Waiting
    BY <1>1, <1>2 DEF Steps, Waiting
  <2>2. Mounting(Main)' \/ Ended'
    BY <1>3 DEF Mounting, Ended
  <2>3. Mounting(Main)' \/ call'[Main].ok => call'[Main].disc \in Mounts /\ disc'[call'[Main].disc].src = d
    BY <1>3 DEF Mounting, Fresh
  <2>4. Ended' => (InRegistry(call[Main].disc)' <=> call'[Main].ok)
    BY <1>3, <1>5 DEF Ended, InRegistry
  <2>5. QED
    BY <2>1, <2>2, <2>3, <2>4 DEF CallInv, Waiting
<1>7. QED
  BY <1>3, <1>4, <1>6 DEF BInv, LoopInv

\* A mount that has succeeded is listed; one that has not is not.
LEMMA EndB == ASSUME BInv, NEW d \in Sources, EndMount(d) PROVE BInv'
<1>1. /\ step = d /\ step' = "tick" /\ todo' = todo /\ Ended /\ call' = [call EXCEPT ![Main] = Idle]
      /\ live' = IF call[Main].ok THEN live \cup {call[Main].disc} ELSE live
      /\ UNCHANGED <<volumes, view, registry, released, disc, helpers>>
  BY DEF EndMount, At, Ended
<1>2. step \notin Steps /\ step' \notin Sources /\ step' \notin Waiting /\ todo = {}
  BY <1>1, StepsAssumption DEF Steps, Waiting, BInv, LoopInv, TodoInv
<1>3. DiscInv' /\ call'[Main] = Idle
  BY <1>1, EndCall DEF BInv, DiscInv, DiscTypeOK
<1>4. call[Main].ok => call[Main].disc \in Mounts /\ InRegistry(call[Main].disc)
  BY <1>1 DEF BInv, LoopInv, CallInv
<1>5. ListedInv' /\ TodoInv'
  BY <1>1, <1>2, <1>4 DEF BInv, LoopInv, ListedInv, TodoInv, InRegistry
<1>6. CallInv'
  BY <1>2, <1>3 DEF CallInv, Waiting
<1>7. QED
  BY <1>3, <1>5, <1>6 DEF BInv, LoopInv

\* A step of the call keeps the invariant of the loop.
LEMMA StepB == ASSUME BInv, Step(Main), UNCHANGED <<live, todo, step>> PROVE BInv'
<1> SUFFICES ASSUME NEW m, m = call[Main].disc PROVE BInv'
  OBVIOUS
<1>1. Main \in Threads /\ DiscInv /\ LoopInv
  BY One DEF BInv
<1>2. /\ Mounting(Main) \/ Tearing(Main)
      /\ call'[Main].disc = m
      /\ \A n \in Mounts \ {m} : disc'[n] = disc[n]
  BY <1>1, StepFrame
<1>3. /\ Mounting(Main)' => Mounting(Main)
      /\ Tearing(Main)' => Tearing(Main)
      /\ Mounting(Main)' \/ Tearing(Main)' \/ call'[Main].pc = "returned"
      /\ \/ disc'[m].tornDown = disc[m].tornDown /\ disc'[m].src = disc[m].src
         \/ disc'[m] = Unused /\ Mounting(Main)
      /\ \A n \in Mounts : InRegistry(n)' <=>
             \/ InRegistry(n) /\ ~(n = m /\ call[Main].pc = "deregister")
             \/ n = m /\ call[Main].pc = "publish"
      /\ Mounting(Main) /\ call'[Main].pc = "returned" /\ call'[Main].ok => call[Main].pc = "publish"
      /\ disc'[m] = Unused => call'[Main].pc = "returned" /\ ~call'[Main].ok
  BY <1>1, StepEffect
<1>4. DiscInv' /\ m \in Mounts
  BY <1>1, <1>2, StepStep, CallOnMount DEF DiscInv
<1>5. /\ Mounting(Main) => step \in Sources /\ step \notin Waiting /\ ~Tearing(Main)
      /\ Tearing(Main) => step \in Waiting /\ step \notin Sources
  <2>1. call[Main].pc # "idle" /\ call[Main].pc # "returned" /\ ~(Mounting(Main) /\ Tearing(Main))
    BY <1>2 DEF Mounting, Tearing
  <2>2. step \in Waiting \cup Sources
    BY <1>1, <2>1 DEF LoopInv, CallInv, Idle, Waiting
  <2>3. Waiting \cap Sources = {}
    BY StepsAssumption DEF Steps, Waiting
  <2>4. QED
    BY <1>1, <2>1, <2>2, <2>3 DEF LoopInv, CallInv, Waiting, Ended
<1>6. ListedInv' /\ TodoInv'
  <2>1. ASSUME NEW n \in live \cup todo PROVE n \in Mounts /\ InRegistry(n)'
    <3>1. n \in Mounts /\ InRegistry(n)
      BY <1>1 DEF LoopInv, ListedInv
    <3>2. Tearing(Main) => n # m
      BY <1>1, <1>5 DEF LoopInv, CallInv, Waiting
    <3>3. Mounting(Main) => call[Main].pc # "deregister"
      BY DEF Mounting
    <3>4. QED
      BY <1>2, <1>3, <3>1, <3>2, <3>3
  <2>2. QED
    BY <1>1, <2>1 DEF LoopInv, ListedInv, TodoInv
<1>7. CASE Tearing(Main)
  <2>1. ~InRegistry(m)'
    <3>1. call[Main].pc # "publish" /\ (call[Main].pc # "deregister" => ~InRegistry(m))
      BY <1>1, <1>7 DEF DiscInv, CallsInv, TearingInv, Tearing
    <3>2. QED
      BY <1>3, <1>4, <3>1
  <2>2. step # "eject"
    BY <1>1, <1>5, <1>7 DEF LoopInv, CallInv, Ended, Tearing
  <2>3. Tearing(Main)' \/ Ended'
    BY <1>3, <1>5, <1>7 DEF Ended
  <2>4. m \notin live \cup todo
    BY <1>1, <1>5, <1>7 DEF LoopInv, CallInv, Waiting
  <2>5. CallInv'
    BY <1>2, <1>4, <1>5, <1>7, <2>1, <2>2, <2>3, <2>4 DEF CallInv, Waiting
  <2>6. QED
    BY <1>4, <1>6, <2>5 DEF BInv, LoopInv
<1>8. CASE Mounting(Main)
  <2>1. ~InRegistry(m) /\ disc[m].src = step
    BY <1>1, <1>5, <1>8 DEF DiscInv, CallsInv, MountingInv, LoopInv, CallInv
  <2>2. call[Main].pc = "publish" => call'[Main].ok
    <3>1. ASSUME call[Main].pc = "publish" PROVE Publish(Main)
      BY <3>1 DEF Step, PrepareMountpoint, RunMountNfs, Deregister, UnmountView, Shutdown, ReleaseHelpers,
                  Wait, At
    <3>2. Publish(Main) => call'[Main].ok
      BY <1>1 DEF Publish, Return, DiscInv, DiscTypeOK, Call
    <3>3. QED
      BY <3>1, <3>2
  <2>3. Ended' => (InRegistry(m)' <=> call'[Main].ok)
    BY <1>3, <1>4, <1>8, <2>1, <2>2 DEF Ended
  <2>4. Mounting(Main)' \/ Ended'
    BY <1>3, <1>5, <1>8 DEF Ended
  <2>5. Mounting(Main)' \/ call'[Main].ok => disc'[m].src = step
    <3>1. disc'[m] = Unused => ~Mounting(Main)' /\ ~call'[Main].ok
      BY <1>3 DEF Mounting
    <3>2. QED
      BY <1>3, <2>1, <3>1
  <2>6. CallInv'
    BY <1>2, <1>4, <1>5, <1>8, <2>3, <2>4, <2>5 DEF CallInv, Waiting
  <2>7. QED
    BY <1>4, <1>6, <2>6 DEF BInv, LoopInv
<1>9. QED
  BY <1>2, <1>7, <1>8

\* What the OS, DiskArbitration and the user do.
Outside ==
    \/ ClaimStep
    \/ \E d \in Sources : Vanish(d) \/ \E kind \in Kinds : Insert(d, kind)
    \/ Asked \/ \E r \in Requests : AskEject(r)
    \/ \E m \in Mounts : HelperExits(m) /\ UNCHANGED <<loopVars, claimVars, osVars, userVars>>
    \/ UNCHANGED vars

\* What the steps around the loop leave alone.
LEMMA OutsideFrame ==
    ASSUME DiscTypeOK, Outside
    PROVE  /\ UNCHANGED <<registry, call, disc, released, live, todo, step, view>>
           /\ volumes' \subseteq Sources /\ helpers' \subseteq Mounts
<1>1. CASE ClaimStep \/ UNCHANGED vars \/ Asked \/ \E r \in Requests : AskEject(r)
  BY <1>1 DEF ClaimStep, ApproveMount, AskEject, Asked, vars, discVars, loopVars, DiscTypeOK
<1>2. CASE \E d \in Sources : Vanish(d) \/ \E kind \in Kinds : Insert(d, kind)
  BY <1>2 DEF Vanish, Insert, loopVars, DiscTypeOK
<1>3. CASE \E m \in Mounts : HelperExits(m) /\ UNCHANGED <<loopVars, claimVars, osVars, userVars>>
  BY <1>3 DEF HelperExits, loopVars, DiscTypeOK
<1>4. QED
  BY <1>1, <1>2, <1>3 DEF Outside

\* The disjuncts of Next by what the lemmas say of them.
LEMMA Split ==
    ASSUME [Next]_vars
    PROVE  \/ Between
           \/ \E m \in Mounts : Release(m) \/ Drain(m)
           \/ Drained \/ EjectTray \/ EjectRefused \/ Released
           \/ \E d \in Sources : StartMount(d)
           \/ \E d \in Sources : EndMount(d)
           \/ Step(Main) /\ UNCHANGED <<loopVars, claimVars, osVars, userVars>>
           \/ Outside
BY DEF Next, LoopStep, Between, Environment, Outside, Exited

\* Every step of mount mode keeps the invariant of the loop.
LEMMA NextB == ASSUME BInv, [Next]_vars PROVE BInv'
<1>1. CASE Between
  BY <1>1, BetweenB
<1>2. CASE \E m \in Mounts : Release(m) \/ Drain(m)
  BY <1>2, ReleaseB
<1>3. CASE Drained \/ EjectTray \/ EjectRefused \/ Released
  BY <1>3, BackB
<1>4. CASE \E d \in Sources : StartMount(d)
  BY <1>4, StartB
<1>5. CASE \E d \in Sources : EndMount(d)
  BY <1>5, EndB
<1>6. CASE Step(Main) /\ UNCHANGED <<loopVars, claimVars, osVars, userVars>>
  BY <1>6, StepB DEF loopVars
<1>7. CASE Outside
  <2>1. DiscTypeOK
    BY DEF BInv, DiscInv
  <2>2. /\ UNCHANGED <<registry, call, disc, released, live, todo, step, view>>
        /\ volumes' \subseteq Sources /\ helpers' \subseteq Mounts
    BY <1>7, <2>1, OutsideFrame
  <2>3. QED
    BY <2>1, <2>2, OutsideB DEF DiscTypeOK
<1>8. QED
  BY <1>1, <1>2, <1>3, <1>4, <1>5, <1>6, <1>7, Split

-----------------------------------------------------------------------------
(* Types *)

\* Of the loop, the claims, the system and the user; the discs are in DiscInv.
OwnTypeOK ==
    /\ step \in Steps \cup Sources
    /\ mailbox \in Requests \cup {None, Torn} /\ taken \in Requests \cup {None, Torn}
    /\ writing \in Requests \cup {None}
    /\ media \in [Sources -> Kinds \cup {"bd"}] /\ approving \subseteq volumes
    /\ claimed \in Seq(Sources) /\ persisted \subseteq Sources
    /\ inserts \in 0..MaxInserts /\ requests \in 0..MaxRequests
    /\ wanted \subseteq Mounts /\ unheard \subseteq Mounts /\ lost \subseteq Mounts

\* The two invariants of types make TypeOK.
LEMMA TypesMeet == ASSUME BInv, OwnTypeOK PROVE TypeOK
<1>1. live \subseteq Mounts /\ todo \subseteq Mounts /\ \A m \in live \cup todo : SourceOf(m) \in Sources
  BY ListedUnmarked DEF SourceOf
<1>2. QED
  BY <1>1 DEF BInv, DiscInv, OwnTypeOK, TypeOK

\* The initial states.
LEMMA InitB == ASSUME Init PROVE BInv /\ OwnTypeOK
<1>1. DiscInv
  BY InitDisc DEF Init
<1>2. LoopInv
  BY One, StepsAssumption
     DEF Init, LoopInv, ListedInv, CallInv, TodoInv, DiscInit, Steps, Idle
<1>3. OwnTypeOK
  <2>1. claimed \in Seq(Sources) /\ step \in Steps
    BY DEF Init, Steps
  <2>2. inserts \in 0..MaxInserts /\ requests \in 0..MaxRequests
    BY DrivesAssumption DEF Init
  <2>3. QED
    BY <2>1, <2>2 DEF Init, OwnTypeOK
<1>4. QED
  BY <1>1, <1>2, <1>3 DEF BInv

\* The claims stay a list of drives, whatever is added and taken.
LEMMA ClaimsType ==
    ASSUME NEW names \in Seq(Sources), Claims(names)
    PROVE  claimed' \in Seq(Sources) /\ persisted' \subseteq Sources
BY DEF Claims, ToSet

\* The loop keeps the types of the claims, the drives and the mailbox.
LEMMA LoopTypes == ASSUME BInv, OwnTypeOK, [Next]_vars, ~Outside PROVE OwnTypeOK'
<1> USE DEF OwnTypeOK
<1>1. CASE Between
  BY <1>1 DEF Between, TakeRequest, RemoveRequest, Parse, Named, EndRequest, PollNothing, Signal, Exit,
              discVars, claimVars, osVars, userVars, Steps
<1>2. CASE \E m \in Mounts : Release(m) \/ Drain(m)
  BY <1>2 DEF Release, Drain, Teardown, claimVars, osVars, userVars, Steps
<1>3. CASE Drained \/ EjectRefused \/ Released
  BY <1>3 DEF Drained, EjectRefused, Released, claimVars, osVars, userVars, Steps
<1>4. CASE EjectTray
  <2>1. Kept(claimed, Sources \ {Target}) \in Seq(Sources)
    BY KeptElements
  <2>2. claimed' \in Seq(Sources) /\ persisted' \subseteq Sources
    BY <1>4, <2>1, ClaimsType DEF EjectTray
  <2>3. QED
    BY <1>4, <2>2 DEF EjectTray, userVars, Steps
<1>5. CASE \E d \in Sources : StartMount(d) \/ EndMount(d)
  BY <1>5 DEF StartMount, Open, OpenLocked, EndMount, claimVars, osVars, userVars, Steps
<1>6. CASE Step(Main) /\ UNCHANGED <<loopVars, claimVars, osVars, userVars>>
  <2>1. volumes' = volumes
    BY <1>6, StepEffect, One DEF BInv
  <2>2. QED
    BY <1>6, <2>1 DEF loopVars, claimVars, osVars, userVars
<1>7. QED
  BY <1>1, <1>2, <1>3, <1>4, <1>5, <1>6, Split

\* So do DiskArbitration, the user and the other programs.
LEMMA OutsideTypes == ASSUME BInv, OwnTypeOK, Outside PROVE OwnTypeOK'
<1> USE DEF OwnTypeOK
<1>1. ASSUME NEW d \in Sources, ApproveMount(d) PROVE OwnTypeOK'
  <2>1. claimed' \in Seq(Sources) /\ persisted' \subseteq Sources
    <3>1. CASE media[d] = "avchd"
      BY <1>1, <3>1 DEF ApproveMount, claimVars
    <3>2. CASE media[d] # "avchd"
      <4>1. (IF d \in ToSet(claimed) THEN claimed ELSE Append(claimed, d)) \in Seq(Sources)
        OBVIOUS
      <4>2. QED
        BY <1>1, <3>2, <4>1, ClaimsType DEF ApproveMount
    <3>3. QED
      BY <3>1, <3>2
  <2>2. QED
    BY <1>1, <2>1 DEF ApproveMount, discVars, loopVars, userVars
<1>2. ASSUME NEW d \in Sources, NEW kind \in Kinds, Insert(d, kind) PROVE OwnTypeOK'
  <2>1. inserts' \in 0..MaxInserts
    BY <1>2, DrivesAssumption DEF Insert
  <2>2. media' \in [Sources -> Kinds \cup {"bd"}] /\ approving' \subseteq volumes'
    BY <1>2 DEF Insert
  <2>3. QED
    BY <1>2, <2>1, <2>2 DEF Insert, loopVars, claimVars, userVars
<1>3. ASSUME NEW d \in Sources, Vanish(d) PROVE OwnTypeOK'
  BY <1>3 DEF Vanish, loopVars, claimVars, userVars
<1>4. ASSUME NEW r \in Requests, AskEject(r) PROVE OwnTypeOK'
  <2>1. requests' \in 0..MaxRequests
    BY <1>4, DrivesAssumption DEF AskEject
  <2>2. QED
    BY <1>4, <2>1 DEF AskEject, OpenMailbox, discVars, loopVars, claimVars, osVars
<1>8. CASE Asked
  <2>1. wanted' \subseteq Mounts /\ unheard' \subseteq Mounts
    BY <1>8 DEF Asked, BInv, LoopInv, ListedInv
  <2>2. mailbox' \in Requests \cup {None, Torn} /\ writing' \in Requests \cup {None}
    BY <1>8 DEF Asked, WriteMailbox
  <2>3. QED
    BY <1>8, <2>1, <2>2 DEF Asked, discVars, loopVars, claimVars, osVars
<1>5. CASE UNCHANGED vars
  BY <1>5 DEF vars, discVars, loopVars, claimVars, osVars, userVars
<1>6. ASSUME NEW m \in Mounts, HelperExits(m) /\ UNCHANGED <<loopVars, claimVars, osVars, userVars>>
      PROVE  OwnTypeOK'
  BY <1>6 DEF HelperExits, loopVars, claimVars, osVars, userVars
<1>7. QED
  BY <1>1, <1>2, <1>3, <1>4, <1>5, <1>6, <1>8 DEF Outside, ClaimStep

\* Every variable keeps to its type, and the loop releases what it mounted, with
\* any drives, discs, failures and requests (cmd_mount, handle_eject_request).
THEOREM TypeCorrect == Spec => []TypeOK
<1>1. Init => BInv /\ OwnTypeOK
  BY InitB
<1>2. BInv /\ OwnTypeOK /\ [Next]_vars => BInv' /\ OwnTypeOK'
  BY NextB, LoopTypes, OutsideTypes
<1>3. BInv /\ OwnTypeOK => TypeOK
  BY TypesMeet
<1>4. QED
  BY <1>1, <1>2, <1>3, PTL DEF Spec

-----------------------------------------------------------------------------
(* One mount per drive, and none forgotten *)

\* The initial states: no drive is mounted.
LEMMA InitDrive == ASSUME Init PROVE DriveInv
<1>1. \A m \in Mounts : ~InRegistry(m)
  BY DEF Init, DiscInit, InRegistry
<1>2. ~Mounting(Main) /\ step \notin Sources
  BY One, StepsAssumption DEF Init, DiscInit, Idle, Mounting, Steps
<1>3. QED
  BY <1>1, <1>2 DEF Init, DriveInv, InDriveInv, FreeInv, OnePerDrive, NoOrphan

\* A registered mount that did not leave by hand survives live.retain.
LEMMA Retains ==
    ASSUME BInv, InDriveInv, NEW m \in live \ lost
    PROVE  m \in Retained
<1>1. m \in Mounts /\ InRegistry(m) /\ ~disc[m].tornDown
  BY ListedUnmarked
<1>2. QED
  BY <1>1 DEF InDriveInv, Retained

\* DriveInv between two calls.
LEMMA BetweenDrive == ASSUME BInv, DriveInv, Between PROVE DriveInv'
<1>1. /\ UNCHANGED discVars /\ lost' = lost
      /\ step \in Steps \ Waiting /\ step' \in Steps \ Waiting
      /\ live' \cup todo' \subseteq live \cup todo
  BY BetweenFrame DEF BInv, Between, TakeRequest, RemoveRequest, Parse, Named, EndRequest, PollNothing, Signal, Exit,
                      osVars
<1>2. UNCHANGED <<volumes, registry, call, disc>>
  BY <1>1 DEF discVars
<1>3. InDriveInv'
  BY <1>1, <1>2 DEF DriveInv, InDriveInv, InRegistry, Mounting, SourceOf
<1>4. FreeInv'
  BY <1>1, StepsAssumption DEF FreeInv
<1>5. OnePerDrive'
  BY <1>1, <1>2 DEF DriveInv, OnePerDrive, SourceOf
<1>6. NoOrphan'
  <2>1. SUFFICES ASSUME step' # "exited", NEW m \in Mounts \ lost, InRegistry(m)
                 PROVE  m \in live' \cup todo' \/ call[Main].disc = m
    BY <1>1, <1>2 DEF NoOrphan, InRegistry
  <2>2. CASE Exit
    BY <2>1, <2>2 DEF Exit
  <2>3. step # "exited" => m \in live \cup todo \/ call[Main].disc = m
    BY <2>1 DEF DriveInv, NoOrphan
  <2>4. CASE TakeRequest \/ RemoveRequest \/ EndRequest \/ Signal
    BY <2>3, <2>4 DEF TakeRequest, RemoveRequest, Parse, Named, EndRequest, Signal, BInv, LoopInv, TodoInv
  <2>5. CASE PollNothing
    BY <2>3, <2>5, Retains DEF PollNothing, DriveInv
  <2>6. QED
    BY <2>2, <2>4, <2>5 DEF Between
<1>7. QED
  BY <1>3, <1>4, <1>5, <1>6 DEF DriveInv

\* DriveInv when a release begins: the disc is still in its drive.
LEMMA ReleaseDrive ==
    ASSUME BInv, DriveInv, NEW m \in Mounts, Release(m) \/ Drain(m) PROVE DriveInv'
<1>1. /\ Teardown(Main, m, TRUE) /\ todo' = todo \ {m} /\ live' = live /\ lost' = lost
      /\ step \notin {"exited"} /\ step' \in {"releasing", "draining"}
  BY DEF Release, Drain, osVars
<1>2. /\ UNCHANGED <<volumes, registry>> /\ call'[Main].disc = m
      /\ call'[Main].pc \in {"returned", "deregister"}
      /\ \A n \in Mounts : disc'[n].src = disc[n].src
  BY <1>1, One DEF Teardown, BInv, DiscInv, DiscTypeOK, Inner, Idle
<1>3. \A n \in live \cup todo : n \in Mounts
  BY ListedUnmarked
<1>4. InDriveInv' /\ OnePerDrive'
  BY <1>1, <1>2, <1>3 DEF DriveInv, InDriveInv, OnePerDrive, InRegistry, Mounting, SourceOf
<1>5. FreeInv'
  BY <1>1, StepsAssumption DEF FreeInv, Steps
<1>6. NoOrphan'
  <2>1. call[Main].disc \notin Mounts
    <3>1. step \in {"handle", "drain"}
      BY DEF Release, Drain
    <3>2. step \notin Waiting \cup Sources
      BY <3>1, StepsAssumption DEF Waiting, Steps
    <3>3. call[Main] = Idle
      BY <3>2 DEF BInv, LoopInv, CallInv, Waiting
    <3>4. QED
      BY <3>3, NamesAssumption DEF Idle
  <2>2. QED
    BY <1>1, <1>2, <2>1 DEF DriveInv, NoOrphan, InRegistry
<1>7. QED
  BY <1>4, <1>5, <1>6 DEF DriveInv

\* DriveInv when a release has ended and its tray opens or not.
LEMMA BackDrive ==
    ASSUME BInv, DriveInv, Drained \/ EjectTray \/ EjectRefused \/ Released PROVE DriveInv'
<1>1. /\ UNCHANGED <<registry, disc, live, todo, lost>>
      /\ step \in Waiting /\ step' \in {"handle", "drain", "eject"}
      /\ call' = call \/ call' = [call EXCEPT ![Main] = Idle]
  BY DEF Drained, EjectTray, EjectRefused, Released, osVars, Waiting
<1>2. step' \notin Sources /\ step \notin Sources
  BY <1>1, StepsAssumption DEF Steps, Waiting
<1>3. ~Mounting(Main) /\ ~InRegistry(call[Main].disc)
  <2>1. Ended
    BY DEF Drained, EjectTray, EjectRefused, Released, At, Ended, BInv, LoopInv, CallInv
  <2>2. QED
    BY <1>1, <2>1 DEF BInv, LoopInv, CallInv, Waiting, Mounting, Ended
<1>4. ~Mounting(Main)'
  <2>1. call'[Main] = call[Main] \/ call'[Main] = Idle
    BY <1>1, One DEF BInv, DiscInv, DiscTypeOK
  <2>2. QED
    BY <1>3, <2>1 DEF Mounting, Idle
<1>5. InDriveInv'
  <2>1. SUFFICES ASSUME NEW m \in Mounts \ lost, InRegistry(m) PROVE SourceOf(m) \in volumes'
    BY <1>1, <1>4 DEF InDriveInv, InRegistry, SourceOf
  <2>2. SourceOf(m) \in volumes /\ disc[m].engine = "open"
    BY <2>1 DEF DriveInv, InDriveInv, BInv, DiscInv, CallsInv, RegisteredInv
  <2>3. CASE EjectTray
    BY <2>2, <2>3 DEF EjectTray, HeldByUs
  <2>4. CASE Drained \/ EjectRefused \/ Released
    BY <2>2, <2>4 DEF Drained, EjectRefused, Released
  <2>5. QED
    BY <2>3, <2>4
<1>6. FreeInv' /\ OnePerDrive'
  BY <1>1, <1>2 DEF DriveInv, FreeInv, OnePerDrive, SourceOf
<1>7. NoOrphan'
  BY <1>1, <1>3 DEF DriveInv, NoOrphan, InRegistry, Waiting
<1>8. QED
  BY <1>5, <1>6, <1>7 DEF DriveInv

\* The drive that is looked at first has a disc, and no mount the loop retains.
LEMMA FirstDisk ==
    ASSUME claimed \in Seq(Sources), BdDisks # <<>>, NEW d, d = Head(BdDisks)
    PROVE  d \in volumes /\ \A m \in Retained : SourceOf(m) # d
<1> DEFINE keep == {s \in volumes : \A m \in Retained : SourceOf(m) # s}
<1>1. Order \in Seq(Sources)
  BY DrivesAssumption
<1>2. Kept(Order, {s \in Sources : media[s] # "avchd"}) \in Seq(Sources)
  BY <1>1, KeptElements
<1>3. OpticalDisks \in Seq(Sources)
  BY <1>2 DEF OpticalDisks
<1>4. BdDisks = Kept(OpticalDisks, keep)
  BY DEF BdDisks
<1>5. /\ BdDisks \in Seq(Sources)
      /\ \A e : (\E i \in DOMAIN BdDisks : BdDisks[i] = e) => e \in keep
  BY <1>3, <1>4, KeptElements
<1>6. 1 \in DOMAIN BdDisks /\ BdDisks[1] = d
  BY <1>5
<1>7. d \in keep
  BY <1>5, <1>6
<1>8. QED
  BY <1>7

\* DriveInv when a mount starts: the loop has no disc of that drive.
LEMMA StartDrive ==
    ASSUME BInv, DriveInv, OwnTypeOK, NEW d \in Sources, StartMount(d) PROVE DriveInv'
<1>1. /\ step = "poll" /\ step' = d /\ todo' = todo /\ live' = Retained /\ lost' = lost
      /\ Open(Main, d) \/ OpenLocked
      /\ BdDisks # <<>> /\ d = Head(BdDisks)
  BY DEF StartMount, osVars
<1>2. step \notin Sources /\ call[Main] = Idle /\ todo = {} /\ live' \subseteq live
  BY <1>1, StepsAssumption DEF BInv, LoopInv, CallInv, TodoInv, Steps, Retained
<1>3. d \in volumes /\ \A m \in Retained : SourceOf(m) # d
  BY <1>1, FirstDisk DEF OwnTypeOK
<1>4. /\ UNCHANGED <<volumes, view, registry, released>>
      /\ \A n \in Mounts : InRegistry(n) => disc'[n] = disc[n]
      /\ \/ /\ disc' = disc /\ helpers' = helpers
            /\ call'[Main].pc = "returned" /\ ~call'[Main].ok /\ call'[Main].disc = None
         \/ \E m \in Fresh :
               /\ call'[Main].pc = "prepare" /\ call'[Main].disc = m /\ ~InRegistry(m)
               /\ disc'[m].src = d /\ d \in volumes /\ helpers' = helpers \cup {m}
               /\ \A n \in Mounts \ {m} : disc'[n] = disc[n]
  BY <1>1, <1>2, OpenAtMain DEF BInv
<1>5. \A n \in live : n \in Mounts /\ InRegistry(n) /\ disc'[n] = disc[n]
  BY <1>4, ListedUnmarked
<1>6. InDriveInv'
  <2>1. SUFFICES ASSUME NEW m \in Mounts \ lost,
                        InRegistry(m) \/ (Mounting(Main)' /\ call'[Main].disc = m)
                 PROVE  disc'[m].src \in volumes
    BY <1>1, <1>4 DEF InDriveInv, InRegistry, SourceOf, Mounting
  <2>2. CASE InRegistry(m)
    BY <1>4, <2>2 DEF DriveInv, InDriveInv, SourceOf
  <2>3. CASE Mounting(Main)' /\ call'[Main].disc = m
    BY <1>3, <1>4, <2>3 DEF Mounting
  <2>4. QED
    BY <2>1, <2>2, <2>3
<1>7. FreeInv'
  BY <1>1, <1>2, <1>3, <1>5 DEF FreeInv, SourceOf
<1>8. OnePerDrive'
  BY <1>1, <1>2, <1>5 DEF DriveInv, OnePerDrive, SourceOf
<1>9. NoOrphan'
  <2>1. SUFFICES ASSUME NEW m \in Mounts \ lost, InRegistry(m) PROVE m \in live'
    BY <1>1, <1>4 DEF NoOrphan, InRegistry
  <2>2. m \in live
    BY <1>1, <1>2, <2>1, NamesAssumption DEF DriveInv, NoOrphan, Idle
  <2>3. QED
    BY <1>1, <2>1, <2>2, Retains DEF DriveInv
<1>10. QED
  BY <1>6, <1>7, <1>8, <1>9 DEF DriveInv

\* DriveInv when a mount ends: the drive is the one the call was for.
LEMMA EndDrive == ASSUME BInv, DriveInv, NEW d \in Sources, EndMount(d) PROVE DriveInv'
<1>1. /\ step = d /\ step' = "tick" /\ todo' = todo /\ Ended /\ call' = [call EXCEPT ![Main] = Idle]
      /\ live' = IF call[Main].ok THEN live \cup {call[Main].disc} ELSE live
      /\ UNCHANGED <<volumes, view, registry, released, disc, helpers, lost>>
  BY DEF EndMount, At, Ended, osVars
<1>2. step \notin Steps /\ step' \notin Sources /\ todo = {}
  BY <1>1, StepsAssumption DEF Steps, BInv, LoopInv, TodoInv
<1>3. call'[Main] = Idle /\ ~Mounting(Main)'
  BY <1>1, One DEF BInv, DiscInv, DiscTypeOK, Idle, Mounting
<1>4. /\ InRegistry(call[Main].disc) <=> call[Main].ok
      /\ call[Main].ok => SourceOf(call[Main].disc) = step
  BY <1>1 DEF BInv, LoopInv, CallInv, SourceOf
<1>5. InDriveInv' /\ FreeInv'
  BY <1>1, <1>2, <1>3 DEF DriveInv, InDriveInv, FreeInv, InRegistry, SourceOf
<1>6. OnePerDrive'
  BY <1>1, <1>2, <1>4 DEF DriveInv, FreeInv, OnePerDrive, SourceOf
<1>7. NoOrphan'
  BY <1>1, <1>2, <1>4 DEF DriveInv, NoOrphan, InRegistry, Steps
<1>8. QED
  BY <1>5, <1>6, <1>7 DEF DriveInv

\* DriveInv in a step of the call: the discs it opens are its own drive's.
LEMMA StepDrive ==
    ASSUME BInv, DriveInv, Step(Main), UNCHANGED <<loopVars, osVars>> PROVE DriveInv'
<1> SUFFICES ASSUME NEW m, m = call[Main].disc PROVE DriveInv'
  OBVIOUS
<1>1. /\ Main \in Threads /\ DiscInv /\ UNCHANGED <<live, step, todo, lost>>
  BY One DEF BInv, loopVars, osVars
<1>2. /\ Mounting(Main) \/ Tearing(Main)
      /\ call'[Main].disc = m
      /\ \A n \in Mounts \ {m} : disc'[n] = disc[n]
  BY <1>1, StepFrame
<1>3. /\ volumes' = volumes
      /\ Mounting(Main)' => Mounting(Main)
      /\ \/ disc'[m].tornDown = disc[m].tornDown /\ disc'[m].src = disc[m].src
         \/ disc'[m] = Unused /\ Mounting(Main)
      /\ \A n \in Mounts : InRegistry(n)' <=>
             \/ InRegistry(n) /\ ~(n = m /\ call[Main].pc = "deregister")
             \/ n = m /\ call[Main].pc = "publish"
      /\ disc'[m] = Unused => call'[Main].pc = "returned" /\ ~call'[Main].ok
  BY <1>1, StepEffect
<1>4. DiscInv' /\ m \in Mounts
  BY <1>1, <1>2, StepStep, CallOnMount DEF DiscInv
<1>5. ASSUME disc'[m] = Unused PROVE ~InRegistry(m)' /\ ~Mounting(Main)'
  <2>1. ~InRegistry(m)'
    BY <1>4, <1>5, NamesAssumption DEF DiscInv, CallsInv, RegisteredInv, Unused
  <2>2. QED
    BY <1>3, <1>5, <2>1 DEF Mounting
<1>6. InDriveInv'
  <2>1. SUFFICES ASSUME NEW n \in Mounts \ lost,
                        InRegistry(n)' \/ (Mounting(Main)' /\ m = n)
                 PROVE  disc'[n].src \in volumes
    BY <1>1, <1>2, <1>3 DEF InDriveInv, SourceOf
  <2>2. disc'[n].src = disc[n].src
    BY <1>2, <1>3, <1>5, <2>1
  <2>3. InRegistry(n) \/ (Mounting(Main) /\ m = n)
    BY <1>3, <2>1 DEF Mounting
  <2>4. QED
    BY <2>2, <2>3 DEF DriveInv, InDriveInv, SourceOf
<1>7. \A n \in live \cup todo : n \in Mounts /\ disc'[n].src = disc[n].src
  <2>1. SUFFICES ASSUME NEW n \in live \cup todo PROVE n \in Mounts /\ disc'[n].src = disc[n].src
    OBVIOUS
  <2>2. n \in Mounts /\ InRegistry(n)
    BY ListedUnmarked
  <2>3. Mounting(Main) => n # m
    BY <1>1, <2>2 DEF DiscInv, CallsInv, MountingInv
  <2>4. QED
    BY <1>2, <1>3, <2>2, <2>3
<1>8. FreeInv' /\ OnePerDrive'
  BY <1>1, <1>7 DEF DriveInv, FreeInv, OnePerDrive, SourceOf
<1>9. NoOrphan'
  BY <1>1, <1>2, <1>3 DEF DriveInv, NoOrphan
<1>10. QED
  BY <1>6, <1>8, <1>9 DEF DriveInv

\* DriveInv when discs come and go around the loop.
LEMMA OutsideDrive == ASSUME BInv, DriveInv, Outside PROVE DriveInv'
<1>1. UNCHANGED <<registry, call, disc, live, todo, step>>
  BY OutsideFrame DEF BInv, DiscInv
<1>2. lost \subseteq lost'
  BY DEF Outside, ClaimStep, ApproveMount, AskEject, Asked, Insert, Vanish, vars, osVars
<1>3. InDriveInv'
  <2>1. SUFFICES ASSUME NEW m \in Mounts \ lost', InRegistry(m) \/ (Mounting(Main) /\ call[Main].disc = m)
                 PROVE  SourceOf(m) \in volumes'
    BY <1>1 DEF InDriveInv, InRegistry, SourceOf, Mounting
  <2>2. SourceOf(m) \in volumes /\ disc[m].engine = "open"
    BY <1>2, <2>1, OpenAtWork, One DEF DriveInv, InDriveInv, BInv
  <2>3. ASSUME NEW d \in Sources, Vanish(d) PROVE SourceOf(m) \in volumes'
    BY <2>1, <2>2, <2>3 DEF Vanish
  <2>4. volumes \subseteq volumes' \/ \E d \in Sources : Vanish(d)
    BY DEF Outside, ClaimStep, ApproveMount, AskEject, Asked, Insert, HelperExits, vars, discVars
  <2>5. QED
    BY <2>2, <2>3, <2>4
<1>4. FreeInv' /\ OnePerDrive'
  BY <1>1 DEF DriveInv, FreeInv, OnePerDrive, SourceOf
<1>5. NoOrphan'
  BY <1>1, <1>2 DEF DriveInv, NoOrphan, InRegistry
<1>6. QED
  BY <1>3, <1>4, <1>5 DEF DriveInv

\* Every step keeps DriveInv.
LEMMA NextDrive == ASSUME BInv, DriveInv, OwnTypeOK, [Next]_vars PROVE DriveInv'
<1>1. CASE Between
  BY <1>1, BetweenDrive
<1>2. CASE \E m \in Mounts : Release(m) \/ Drain(m)
  BY <1>2, ReleaseDrive
<1>3. CASE Drained \/ EjectTray \/ EjectRefused \/ Released
  BY <1>3, BackDrive
<1>4. CASE \E d \in Sources : StartMount(d)
  BY <1>4, StartDrive
<1>5. CASE \E d \in Sources : EndMount(d)
  BY <1>5, EndDrive
<1>6. CASE Step(Main) /\ UNCHANGED <<loopVars, claimVars, osVars, userVars>>
  BY <1>6, StepDrive
<1>7. CASE Outside
  BY <1>7, OutsideDrive
<1>8. QED
  BY <1>1, <1>2, <1>3, <1>4, <1>5, <1>6, <1>7, Split

\* The inductive invariant of mount mode.
IInv == BInv /\ OwnTypeOK /\ DriveInv

\* The invariant of mount mode always holds.
LEMMA IAlways == Spec => []IInv
<1>1. Init => IInv
  BY InitB, InitDrive DEF IInv
<1>2. IInv /\ [Next]_vars => IInv'
  BY NextB, LoopTypes, OutsideTypes, NextDrive DEF IInv
<1>3. QED
  BY <1>1, <1>2, PTL DEF Spec

\* Of two discs the loop knows no two are of the same drive, with any number of
\* drives and discs, whatever is swapped by hand (poll_bd_rdisk's skip).
THEOREM DrivesApart == Spec => []OnePerDrive
<1>1. IInv => OnePerDrive
  BY DEF IInv, DriveInv
<1>2. QED
  BY <1>1, IAlways, PTL

\* The loop knows every mount it serves unless its disc left by hand, whatever
\* else is ejected or fails (handle_eject_request, live.retain).
THEOREM NoneForgotten == Spec => []NoOrphan
<1>1. IInv => NoOrphan
  BY DEF IInv, DriveInv
<1>2. QED
  BY <1>1, IAlways, PTL

-----------------------------------------------------------------------------
(* AllLiveMounts, when preparing a mountpoint cannot fail *)

\* OpenInv between two calls: no session opens or closes.
LEMMA BetweenOpen == ASSUME BInv, OpenInv, Between PROVE OpenInv'
<1>1. UNCHANGED <<registry, disc, call>>
  BY BetweenFrame DEF BInv, discVars
<1>2. QED
  BY <1>1, KeepOpenInv

\* OpenInv when a release begins: the mount is marked.
LEMMA ReleaseOpen ==
    ASSUME BInv, OpenInv, NEW m \in Mounts, Release(m) \/ Drain(m) PROVE OpenInv'
BY One, TeardownOpenInv DEF Release, Drain, BInv

\* A call that is back, or has not begun, is dropped or begun with an error.
LEMMA BackOpen ==
    ASSUME BInv, OpenInv,
           \/ Drained \/ EjectTray \/ EjectRefused \/ Released
           \/ \E d \in Sources : EndMount(d)
    PROVE  OpenInv'
<1>1. UNCHANGED <<registry, disc>>
  BY DEF Drained, EjectTray, EjectRefused, Released, EndMount
<1>2. Ended
  BY DEF Drained, EjectTray, EjectRefused, Released, EndMount, At, Ended, BInv, LoopInv, CallInv
<1>3. \A u \in Threads : ~Mounting(u)
  BY <1>2, One DEF Ended, Mounting
<1>4. QED
  BY <1>1, <1>3, KeepOpenInv

\* OpenInv when a mount starts: the session is its call's.
LEMMA StartOpen == ASSUME BInv, OpenInv, NEW d \in Sources, StartMount(d) PROVE OpenInv'
<1>1. CASE Open(Main, d)
  BY <1>1, One, OpenOpenInv DEF BInv
<1>2. CASE OpenLocked
  <2>1. step = "poll" /\ UNCHANGED <<registry, disc>>
    BY <1>2 DEF StartMount, OpenLocked
  <2>2. call[Main] = Idle
    BY <2>1, StepsAssumption DEF Steps, BInv, LoopInv, CallInv
  <2>3. \A u \in Threads : ~Mounting(u)
    BY <2>2, One DEF Idle, Mounting
  <2>4. QED
    BY <2>1, <2>3, KeepOpenInv
<1>3. QED
  BY <1>1, <1>2 DEF StartMount

\* Every step keeps OpenInv when preparing a mountpoint cannot fail.
LEMMA NextOpen == ASSUME LeakFree, BInv, OpenInv, [Next]_vars PROVE OpenInv'
<1>1. CASE Step(Main)
  BY <1>1, One, StepOpenInv DEF BInv
<1>2. CASE Outside
  <2>1. UNCHANGED <<registry, disc, call>>
    BY <1>2, OutsideFrame DEF BInv, DiscInv
  <2>2. QED
    BY <2>1, KeepOpenInv
<1>3. QED
  BY <1>1, <1>2, BetweenOpen, ReleaseOpen, BackOpen, StartOpen, Split

\* A disc that is open in libmmbd is in the registry or in a call of the loop,
\* as long as no umount and no preparation of a mountpoint fails: the error of
\* prepare_mountpoint leaves a session that nobody knows (MountedDisc::mount).
THEOREM NoneLeaked == ASSUME LeakFree PROVE Spec => []AllLiveMounts
<1>1. Init => IInv /\ OpenInv
  BY InitB, InitDrive, InitOpen DEF IInv, Init
<1>2. (IInv /\ OpenInv) /\ [Next]_vars => (IInv /\ OpenInv)'
  BY NextB, LoopTypes, OutsideTypes, NextDrive, NextOpen DEF IInv
<1>3. IInv /\ OpenInv => AllLiveMounts
  BY OpenListed DEF IInv, BInv
<1>4. QED
  BY <1>1, <1>2, <1>3, PTL DEF Spec

-----------------------------------------------------------------------------
(* EjectCommand.  Every step keeps the mounts and the call of the loop *)

Loop ==
    /\ \/ LoopQuiet \/ LoopRemove \/ LoopOpen \/ LoopCall \/ LoopEject
       \/ Signal /\ UNCHANGED <<processVars, orphans, systemVars, cli, stale>>
    /\ UNCHANGED busy

Takes == Start \/ TakeOverDone \/ TakeOverCheck \/ TakeOverUnmount \/ TakeOverClaim \/ TakeOverProbe

\* The other process, DiskArbitration, the discs and another program.
Beside ==
    \/ EjectStep \/ ApprovalStep
    \/ \E r \in Requests : EjectBegin(r)
    \/ \E d \in Sources : ProgramOpens(d) \/ ProgramCloses(d)
    \/ /\ \/ \E d \in Sources, kind \in Kinds : Insert(d, kind)
          \/ \E m \in Mounts : HelperExits(m) /\ UNCHANGED <<loopVars, claimVars, osVars, userVars>>
       /\ UNCHANGED <<processVars, orphans, systemVars, cli, stale>>
    \/ UNCHANGED allVars

\* The process ends, its loop moves, it takes over, or something beside it moves.
LEMMA EjectSplit ==
    ASSUME [EjectNext]_allVars
    PROVE  ProcessEnds \/ Loop \/ Takes \/ Beside
BY DEF EjectNext, ServerStep, World, Crash, ExitProcess, Loop, Takes, Beside, Over, systemVars

\* What a step of the take-over leaves alone, unless the process ends.
LEMMA TakesFrame ==
    ASSUME Takes, ~ProcessEnds
    PROVE  /\ UNCHANGED <<discVars, live, todo, orphans, mailbox>>
           /\ step \in TakeOver \cup {"exited"} /\ step' \in TakeOver \cup {"tick"}
           /\ stale' = IF step = "exited" THEN mailbox # None ELSE stale
BY DEF Takes, Start, TakeOverDone, TakeOverCheck, TakeOverUnmount, TakeOverClaim, TakeOverProbe,
       TakeOver, osVars, userVars, systemVars, processVars

\* What the steps beside the loop leave alone.
LEMMA BesideFrame ==
    ASSUME DiscTypeOK, Beside
    PROVE  /\ UNCHANGED <<registry, call, disc, released, live, todo, step>>
           /\ volumes' \subseteq Sources /\ view' \in [Labels -> Mounts \cup {None}]
           /\ helpers' \subseteq Mounts /\ orphans' \subseteq orphans
           /\ \A m \in Mounts : m \in helpers => m \in helpers' \/ disc[m].engine = "closed"
           /\ \/ stale' = stale /\ mailbox' = mailbox
              \/ stale' = (stale /\ step = "remove")
<1> USE DEF DiscTypeOK
<1>1. CASE EjectOpen \/ EjectWrite \/ EjectDirect \/ EjectHelpers \/ EjectWait \/ EjectForget
  BY <1>1 DEF EjectOpen, EjectWrite, EjectDirect, EjectHelpers, EjectWait, EjectForget, EjectSame,
              EjectKeeps, loopVars
<1>2. ASSUME NEW l \in Labels, EjectUnmount(l)
      PROVE  /\ UNCHANGED <<registry, call, disc, released, live, todo, step>>
             /\ volumes' = volumes /\ view' \in [Labels -> Mounts \cup {None}]
             /\ helpers' = helpers /\ orphans' = orphans /\ stale' = stale /\ mailbox' = mailbox
  BY <1>2 DEF EjectUnmount, EjectSame, EjectKeeps, Unmounted, UnmountFailed, loopVars
<1>3. CASE \E d \in Sources : EjectDisk(d) \/ EjectFails(d)
  BY <1>3 DEF EjectDisk, EjectFails, EjectSame, EjectKeeps, loopVars
<1>4. CASE ApprovalStep \/ \E r \in Requests : EjectBegin(r)
  BY <1>4 DEF ApprovalStep, ApproveMount, EjectBegin, discVars, loopVars, userVars
<1>5. CASE \E d \in Sources : ProgramOpens(d) \/ ProgramCloses(d)
  BY <1>5 DEF ProgramOpens, ProgramCloses, vars, discVars, loopVars, userVars
<1>6. CASE /\ \E d \in Sources, kind \in Kinds : Insert(d, kind)
           /\ UNCHANGED <<processVars, orphans, systemVars, cli, stale>>
  BY <1>6 DEF Insert, loopVars, userVars
<1>7. CASE /\ \E m \in Mounts : HelperExits(m) /\ UNCHANGED <<loopVars, claimVars, osVars, userVars>>
           /\ UNCHANGED <<processVars, orphans, systemVars, cli, stale>>
  BY <1>7 DEF HelperExits, loopVars, userVars
<1>8. CASE UNCHANGED allVars
  BY <1>8 DEF allVars, vars, discVars, loopVars, userVars
<1>9. QED
  BY <1>1, <1>2, <1>3, <1>4, <1>5, <1>6, <1>7, <1>8 DEF Beside, EjectStep

\* A process that ends leaves no session open and no call.
LEMMA EndsB == ASSUME BInv, ProcessEnds PROVE BInv' /\ \A m \in Mounts : disc'[m].engine # "open"
<1>1. DiscTypeOK
  BY DEF BInv, DiscInv
<1>2. /\ \A m \in Mounts : disc'[m] = Dead(m) \/ disc'[m] = Unused
      /\ disc' \in [Mounts -> Inner]
  <2>1. ASSUME NEW m \in Mounts PROVE Dead(m) \in Inner
    <3>1. disc[m] \in Inner
      BY <1>1 DEF DiscTypeOK
    <3>2. QED
      BY <3>1 DEF Dead, Inner
  <2>2. Unused \in Inner
    BY DEF Unused, Inner
  <2>3. QED
    BY <2>1, <2>2 DEF ProcessEnds
<1>3. ASSUME NEW m \in Mounts PROVE disc'[m].engine # "open"
  <2>1. disc[m] \in Inner
    BY <1>1 DEF DiscTypeOK
  <2>2. Dead(m).engine = "closed"
    BY <2>1 DEF Dead, Inner
  <2>3. Unused.engine = "none"
    BY DEF Unused
  <2>4. QED
    BY <1>2, <2>2, <2>3
<1>4. \A t \in Threads : call'[t] = Idle
  BY DEF ProcessEnds
<1>5. registry' = <<>> /\ \A m : ~InRegistry(m)'
  BY DEF ProcessEnds, InRegistry
<1>6. DiscTypeOK'
  <2>1. call' \in [Threads -> Call]
    BY DEF ProcessEnds, Idle, Call
  <2>2. UNCHANGED <<volumes, view>> /\ helpers' = {}
        /\ released' \in [Sources -> {"no", "settling", "settled"}]
    BY DEF ProcessEnds
  <2>3. QED
    BY <1>1, <1>2, <1>4, <1>5, <2>1, <2>2 DEF DiscTypeOK, Idle
<1>7. MountingInv' /\ TearingInv' /\ ApartInv' /\ RegisteredInv' /\ TornInv'
  BY <1>3, <1>4, <1>5
     DEF MountingInv, TearingInv, ApartInv, RegisteredInv, TornInv, Mounting, Tearing, Idle
<1>8. LoopInv'
  <2>1. step' = "exited" /\ live' = {} /\ todo' = {}
    BY DEF ProcessEnds
  <2>2. call'[Main] = Idle
    BY <1>4, One
  <2>3. "exited" \notin Waiting \cup Sources
    BY StepsAssumption DEF Steps, Waiting
  <2>4. QED
    BY <2>1, <2>2, <2>3 DEF LoopInv, ListedInv, CallInv, TodoInv, Waiting
<1>9. QED
  BY <1>3, <1>6, <1>7, <1>8 DEF BInv, DiscInv, CallsInv

\* A process that starts and takes over has no mounts yet.
LEMMA TakesB == ASSUME BInv, Takes PROVE BInv'
<1>1. CASE ProcessEnds
  BY <1>1, EndsB
<1>2. CASE ~ProcessEnds
  <2>1. /\ UNCHANGED <<discVars, live, todo>>
        /\ step \in TakeOver \cup {"exited"} /\ step' \in TakeOver \cup {"tick"}
    BY <1>2, TakesFrame
  <2>2. UNCHANGED <<volumes, view, registry, released, disc, helpers, call>>
    BY <2>1 DEF discVars
  <2>3. step \notin Waiting \cup Sources /\ step' \notin Waiting \cup Sources
    BY <2>1, StepsAssumption, TakeOverAssumption DEF Waiting, Steps, TakeOver
  <2>4. todo = {}
    BY <2>1 DEF BInv, LoopInv, TodoInv, TakeOver
  <2>5. CallInv'
    BY <2>2, <2>3 DEF BInv, LoopInv, CallInv, Waiting
  <2>6. ListedInv' /\ TodoInv'
    BY <2>1, <2>2, <2>4 DEF BInv, LoopInv, ListedInv, TodoInv, InRegistry
  <2>7. DiscInv'
    BY <2>2, QuietStep DEF BInv, DiscInv, DiscTypeOK
  <2>8. QED
    BY <2>5, <2>6, <2>7 DEF BInv, LoopInv
<1>3. QED
  BY <1>1, <1>2

\* The steps of the loop are those of mount mode.
LEMMA LoopSplit ==
    ASSUME Loop
    PROVE  \/ Between
           \/ \E m \in Mounts : Release(m) \/ Drain(m)
           \/ Drained \/ EjectTray \/ EjectRefused \/ Released
           \/ \E d \in Sources : StartMount(d)
           \/ \E d \in Sources : EndMount(d)
           \/ Step(Main) /\ UNCHANGED <<loopVars, claimVars, osVars, userVars>>
BY DEF Loop, LoopQuiet, LoopRemove, LoopOpen, LoopCall, LoopEject, Between

\* The loop keeps its invariant beside crashes as well.
LEMMA LoopB == ASSUME BInv, Loop PROVE BInv'
<1>1. CASE Between
  BY <1>1, BetweenB
<1>2. CASE \E m \in Mounts : Release(m) \/ Drain(m)
  BY <1>2, ReleaseB
<1>3. CASE Drained \/ EjectTray \/ EjectRefused \/ Released
  BY <1>3, BackB
<1>4. CASE \E d \in Sources : StartMount(d)
  BY <1>4, StartB
<1>5. CASE \E d \in Sources : EndMount(d)
  BY <1>5, EndB
<1>6. CASE Step(Main) /\ UNCHANGED <<loopVars, claimVars, osVars, userVars>>
  BY <1>6, StepB DEF loopVars
<1>7. QED
  BY <1>1, <1>2, <1>3, <1>4, <1>5, <1>6, LoopSplit

\* Every step keeps the invariant of the loop.
LEMMA EjectNextB == ASSUME BInv, [EjectNext]_allVars PROVE BInv'
<1>1. DiscTypeOK
  BY DEF BInv, DiscInv
<1>2. CASE Beside
  <2>1. /\ UNCHANGED <<registry, call, disc, released, live, todo, step>>
        /\ volumes' \subseteq Sources /\ view' \in [Labels -> Mounts \cup {None}]
        /\ helpers' \subseteq Mounts
    BY <1>1, <1>2, BesideFrame
  <2>2. QED
    BY <2>1, OutsideB
<1>3. QED
  BY <1>2, EndsB, LoopB, TakesB, EjectSplit

\* The initial states.
LEMMA EjectInitB == ASSUME EjectInit PROVE BInv
<1>1. DiscInv
  BY InitDisc DEF EjectInit
<1>2. LoopInv
  BY One, StepsAssumption
     DEF EjectInit, LoopInv, ListedInv, CallInv, TodoInv, DiscInit, Steps, Idle
<1>3. QED
  BY <1>1, <1>2 DEF BInv

-----------------------------------------------------------------------------
(* The inductive invariants *)

\* Whoever is about to release all helpers has found the registry empty.
LastInv ==
    /\ call[Main].pc \in {"unmount", "shutdown"} /\ ~call[Main].others => registry = <<>>
    /\ call[Main].pc = "helpers" => registry = <<>>

\* While the mailbox is older than the process, that has no disc yet.
StaleInv ==
    /\ step \in TakeOver \cup {"exited"} => live = {} /\ todo = {}
    /\ stale => /\ live = {} /\ todo = {}
                /\ step \in TakeOver \cup {"tick", "remove", "drain", "exited"}
                /\ step \in TakeOver \cup {"tick"} => mailbox # None

EInv == BInv /\ LastInv /\ HelperKept /\ OrphansReaped /\ StaleInv

\* The initial states.
LEMMA EjectInitE == ASSUME EjectInit PROVE EInv
<1>1. BInv
  BY EjectInitB
<1>2. LastInv
  BY One DEF EjectInit, DiscInit, LastInv, Idle
<1>3. HelperKept
  BY DEF EjectInit, DiscInit, HelperKept, Unused
<1>4. OrphansReaped /\ StaleInv
  BY DEF EjectInit, DiscInit, OrphansReaped, StaleInv
<1>5. QED
  BY <1>1, <1>2, <1>3, <1>4 DEF EInv

-----------------------------------------------------------------------------
(* Helpers *)

\* What a step of a call does to the helpers.
LEMMA StepHelpers ==
    ASSUME DiscInv, Step(Main), NEW m, m = call[Main].disc
    PROVE  \/ helpers' = helpers
           \/ helpers' = helpers \ {m} /\ disc'[m].engine # "open"
           \/ call[Main].pc = "helpers" /\ UNCHANGED <<registry, disc>>
<1>1. CASE PrepareMountpoint(Main) \/ Publish(Main) \/ Deregister(Main) \/ UnmountView(Main)
           \/ Shutdown(Main) \/ Wait(Main)
  BY <1>1 DEF PrepareMountpoint, Publish, Deregister, UnmountView, Shutdown, Wait
<1>2. CASE RunMountNfs(Main)
  <2>1. m \in Mounts
    BY <1>2, One, CallOnMount DEF RunMountNfs, At, Mounting, DiscInv
  <2>2. disc' = [disc EXCEPT ![m] = Unused] => disc'[m].engine # "open"
    BY <2>1 DEF DiscInv, DiscTypeOK, Unused
  <2>3. QED
    BY <1>2, <2>2 DEF RunMountNfs
<1>3. CASE ReleaseHelpers(Main)
  BY <1>3 DEF ReleaseHelpers, At
<1>4. QED
  BY <1>1, <1>2, <1>3 DEF Step

\* A step of a call takes no helper of a disc that is served or mounted.
LEMMA StepKept == ASSUME DiscInv, LastInv, HelperKept, Step(Main) PROVE HelperKept'
<1> SUFFICES ASSUME NEW n \in Mounts, disc'[n].engine = "open",
                    InRegistry(n)' \/ call'[Main].disc = n
             PROVE  n \in helpers'
  BY DEF HelperKept
<1> SUFFICES ASSUME NEW m, m = call[Main].disc PROVE n \in helpers'
  OBVIOUS
<1>1. disc[n].engine = "open"
  BY One, StepSessions
<1>2. InRegistry(n) \/ m = n
  <2>1. call'[Main].disc = m
    BY One, StepFrame
  <2>2. \A k \in Mounts : InRegistry(k)' <=>
            \/ InRegistry(k) /\ ~(k = m /\ call[Main].pc = "deregister")
            \/ k = m /\ call[Main].pc = "publish"
    BY One, StepEffect
  <2>3. QED
    BY <2>1, <2>2
<1>3. n \in helpers
  BY <1>1, <1>2 DEF HelperKept
<1>4. \/ helpers' = helpers
      \/ helpers' = helpers \ {m} /\ disc'[m].engine # "open"
      \/ call[Main].pc = "helpers" /\ UNCHANGED <<registry, disc>>
  BY StepHelpers
<1>5. call[Main].pc # "helpers"
  <2>1. SUFFICES ASSUME call[Main].pc = "helpers" PROVE FALSE
    OBVIOUS
  <2>2. ~InRegistry(n)
    BY <2>1 DEF LastInv, InRegistry
  <2>3. disc[m].engine = "closed"
    BY <2>1, One DEF DiscInv, CallsInv, TearingInv, Tearing
  <2>4. QED
    BY <1>1, <1>2, <2>2, <2>3
<1>6. QED
  BY <1>3, <1>4, <1>5

\* A call that releases all helpers has found the registry empty.
LEMMA StepLast == ASSUME DiscInv, LastInv, Step(Main) PROVE LastInv'
<1>1. Main \in Threads /\ DiscTypeOK /\ call[Main] \in Call
  BY One DEF DiscInv, DiscTypeOK
<1>2. CASE PrepareMountpoint(Main) \/ RunMountNfs(Main) \/ Publish(Main) \/ ReleaseHelpers(Main) \/ Wait(Main)
  <2>1. \/ \E pc \in {"nfs", "publish", "wait"} : Goto(Main, pc)
        \/ \E ok \in BOOLEAN : Return(Main, ok)
    <3>1. call[Main].ok \in BOOLEAN
      BY <1>1 DEF Call
    <3>2. QED
      BY <1>2, <3>1 DEF PrepareMountpoint, RunMountNfs, Publish, ReleaseHelpers, Wait
  <2>2. call'[Main].pc \in {"nfs", "publish", "returned", "wait"}
    BY <1>1, <2>1, GotoMoves, ReturnCall
  <2>3. QED
    BY <2>2 DEF LastInv
<1>3. CASE Deregister(Main)
  <2>1. call'[Main].pc = "unmount" /\ (call'[Main].others <=> registry' # <<>>)
    BY <1>1, <1>3 DEF Deregister, DiscTypeOK, Call
  <2>2. QED
    BY <2>1 DEF LastInv
<1>4. CASE UnmountView(Main)
  <2>1. /\ call[Main].pc = "unmount" /\ registry' = registry
        /\ call'[Main].pc = "shutdown" /\ call'[Main].others = call[Main].others
    BY <1>1, <1>4 DEF UnmountView, At, Goto, DiscTypeOK, Call
  <2>2. QED
    BY <2>1 DEF LastInv
<1>5. CASE Shutdown(Main)
  <2>1. /\ call[Main].pc = "shutdown" /\ registry' = registry
        /\ call'[Main].pc = IF call[Main].others THEN "wait" ELSE "helpers"
    BY <1>1, <1>5 DEF Shutdown, At, Goto, DiscTypeOK, Call
  <2>2. QED
    BY <2>1 DEF LastInv
<1>6. QED
  BY <1>2, <1>3, <1>4, <1>5 DEF Step

\* A teardown takes the call, and marks its mount.
LEMMA TeardownFields ==
    ASSUME DiscTypeOK, NEW m \in Mounts, Teardown(Main, m, TRUE)
    PROVE  /\ UNCHANGED <<registry, helpers>>
           /\ call'[Main].disc = m /\ call'[Main].pc \in {"returned", "deregister"}
           /\ \A n \in Mounts : disc'[n].engine = disc[n].engine
<1>1. UNCHANGED <<registry, helpers>>
  BY DEF Teardown
<1>2. call'[Main].disc = m /\ call'[Main].pc \in {"returned", "deregister"}
  BY One DEF Teardown, DiscTypeOK, Idle
<1>3. ASSUME NEW n \in Mounts PROVE disc'[n].engine = disc[n].engine
  <2>1. disc' = [disc EXCEPT ![m].tornDown = TRUE] /\ disc[n] \in Inner
    BY DEF Teardown, DiscTypeOK
  <2>2. disc'[n] = disc[n] \/ disc'[n] = [disc[n] EXCEPT !.tornDown = TRUE]
    BY <2>1 DEF DiscTypeOK
  <2>3. QED
    BY <2>1, <2>2 DEF Inner
<1>4. QED
  BY <1>1, <1>2, <1>3

\* The loop keeps both.
LEMMA LoopHelpers ==
    ASSUME BInv, LastInv, HelperKept, Loop PROVE LastInv' /\ HelperKept'
<1>1. Main \in Threads /\ DiscTypeOK /\ None \notin Mounts
  BY One, NamesAssumption DEF BInv, DiscInv
<1>2. CASE Between
  <2>1. UNCHANGED <<registry, disc, helpers, call>>
    BY <1>2, BetweenFrame DEF BInv, discVars
  <2>2. QED
    BY <2>1 DEF LastInv, HelperKept, InRegistry
<1>3. ASSUME NEW m \in Mounts, Release(m) \/ Drain(m) PROVE LastInv' /\ HelperKept'
  <2>1. /\ m \in todo /\ UNCHANGED <<registry, helpers>>
        /\ call'[Main].disc = m /\ call'[Main].pc \in {"returned", "deregister"}
        /\ \A n \in Mounts : disc'[n].engine = disc[n].engine
    BY <1>1, <1>3, TeardownFields DEF Release, Drain
  <2>2. InRegistry(m)
    BY <2>1, ListedUnmarked
  <2>3. QED
    BY <2>1, <2>2 DEF LastInv, HelperKept, InRegistry
<1>4. CASE Drained \/ EjectTray \/ EjectRefused \/ Released \/ \E d \in Sources : EndMount(d)
  <2>1. /\ UNCHANGED <<registry, disc, helpers>>
        /\ call' = call \/ call' = [call EXCEPT ![Main] = Idle]
    BY <1>4 DEF Drained, EjectTray, EjectRefused, Released, EndMount
  <2>2. call'[Main] = call[Main] \/ call'[Main] = Idle
    BY <1>1, <2>1 DEF DiscTypeOK
  <2>3. Idle.pc = "idle" /\ Idle.disc = None
    BY DEF Idle
  <2>4. QED
    BY <1>1, <2>1, <2>2, <2>3 DEF LastInv, HelperKept, InRegistry
<1>5. ASSUME NEW d \in Sources, StartMount(d) PROVE LastInv' /\ HelperKept'
  <2>1. Open(Main, d) \/ (call[Main] = Idle /\ OpenLocked)
    <3>1. step \notin Waiting \cup Sources
      BY <1>5, StepsAssumption DEF StartMount, Waiting, Steps
    <3>2. call[Main] = Idle
      BY <3>1 DEF BInv, LoopInv, CallInv, Waiting
    <3>3. QED
      BY <1>5, <3>2 DEF StartMount
  <2>2. /\ UNCHANGED <<volumes, view, registry, released>>
        /\ \A n \in Mounts : InRegistry(n) => disc'[n] = disc[n]
        /\ \/ /\ disc' = disc /\ helpers' = helpers
              /\ call'[Main].pc = "returned" /\ ~call'[Main].ok /\ call'[Main].disc = None
           \/ \E m \in Fresh :
                 /\ call'[Main].pc = "prepare" /\ call'[Main].disc = m /\ ~InRegistry(m)
                 /\ disc'[m].src = d /\ d \in volumes /\ helpers' = helpers \cup {m}
                 /\ \A n \in Mounts \ {m} : disc'[n] = disc[n]
    BY <2>1, OpenAtMain DEF BInv
  <2>3. QED
    BY <1>1, <2>2 DEF LastInv, HelperKept, InRegistry
<1>6. CASE Step(Main)
  BY <1>6, StepLast, StepKept DEF BInv
<1>7. QED
  BY <1>2, <1>3, <1>4, <1>5, <1>6, LoopSplit

\* Every step keeps both.
LEMMA NextHelpers ==
    ASSUME BInv, LastInv, HelperKept, [EjectNext]_allVars PROVE LastInv' /\ HelperKept'
<1>1. CASE ProcessEnds
  <2>1. call'[Main] = Idle
    BY <1>1, One DEF ProcessEnds
  <2>2. QED
    BY <1>1, <2>1, EndsB DEF LastInv, HelperKept, Idle
<1>2. CASE Takes /\ ~ProcessEnds
  <2>1. UNCHANGED <<registry, disc, helpers, call>>
    BY <1>2, TakesFrame DEF discVars
  <2>2. QED
    BY <2>1 DEF LastInv, HelperKept, InRegistry
<1>3. CASE Beside
  <2>1. /\ UNCHANGED <<registry, call, disc>>
        /\ \A m \in Mounts : m \in helpers => m \in helpers' \/ disc[m].engine = "closed"
    BY <1>3, BesideFrame DEF BInv, DiscInv
  <2>2. QED
    BY <2>1 DEF LastInv, HelperKept, InRegistry
<1>4. QED
  BY <1>1, <1>2, <1>3, LoopHelpers, EjectSplit

-----------------------------------------------------------------------------
(* Orphans *)

\* The loop opens no disc, or it reaps first.
LEMMA LoopOpens ==
    ASSUME BInv, Loop
    PROVE  \/ orphans' = {}
           \/ /\ orphans' = orphans
              /\ \A m \in Mounts : disc'[m].engine = "open" => disc[m].engine = "open"
<1>1. CASE LoopRemove \/ (Signal /\ UNCHANGED <<processVars, orphans, systemVars, cli, stale>>)
  BY <1>1 DEF LoopRemove, RemoveRequest, Parse, Named, Signal, discVars
<1>2. CASE LoopQuiet
  <2>1. CASE TakeRequest \/ Released \/ EndRequest \/ PollNothing \/ Drained \/ \E d \in Sources : EndMount(d)
    BY <1>2, <2>1 DEF LoopQuiet, TakeRequest, Released, EndRequest, PollNothing, Drained, EndMount, discVars
  <2>2. ASSUME NEW m \in Mounts, Release(m) \/ Drain(m)
        PROVE  \A n \in Mounts : disc'[n].engine = disc[n].engine
    BY <2>2, TeardownFields DEF Release, Drain, BInv, DiscInv
  <2>3. QED
    BY <1>2, <2>1, <2>2 DEF LoopQuiet
<1>3. CASE LoopOpen
  BY <1>3 DEF LoopOpen
<1>4. CASE LoopCall
  <2>1. \A m \in Mounts : disc'[m].engine = "open" => disc[m].engine = "open"
    BY <1>4, One, StepSessions DEF LoopCall, BInv
  <2>2. QED
    BY <1>4, <2>1 DEF LoopCall
<1>5. CASE LoopEject
  BY <1>5 DEF LoopEject
<1>6. QED
  BY <1>1, <1>2, <1>3, <1>4, <1>5 DEF Loop

\* A session opens only after the take-over has reaped the orphans.
LEMMA NextOrphans == ASSUME BInv, OrphansReaped, [EjectNext]_allVars PROVE OrphansReaped'
<1>1. CASE ProcessEnds
  BY <1>1, EndsB DEF OrphansReaped
<1>2. CASE Takes /\ ~ProcessEnds
  <2>1. UNCHANGED <<disc, orphans>>
    BY <1>2, TakesFrame DEF discVars
  <2>2. QED
    BY <2>1 DEF OrphansReaped
<1>3. CASE Beside
  <2>1. disc' = disc /\ orphans' \subseteq orphans
    BY <1>3, BesideFrame DEF BInv, DiscInv
  <2>2. QED
    BY <2>1 DEF OrphansReaped
<1>4. CASE Loop
  BY <1>4, LoopOpens DEF OrphansReaped
<1>5. QED
  BY <1>1, <1>2, <1>3, <1>4, EjectSplit

-----------------------------------------------------------------------------
(* The mailbox *)

\* A source is no step, of either part of the loop.
LEMMA Places ==
    /\ \A d \in Sources : d \notin TakeOver \cup Steps
    /\ TakeOver \cap Steps = {}
BY StepsAssumption, TakeOverAssumption DEF TakeOver, Steps

\* The loop drops a stale request before it has a disc to release.
LEMMA LoopStale == ASSUME BInv, StaleInv, Loop PROVE StaleInv' /\ (stale => todo' = {})
<1>1. CASE LoopRemove
  BY <1>1 DEF LoopRemove, RemoveRequest, Parse, Named, StaleInv, TakeOver
<1>2. CASE Signal /\ UNCHANGED <<processVars, orphans, systemVars, cli, stale>>
  BY <1>2 DEF Signal, StaleInv, TakeOver
<1>3. CASE LoopQuiet
  <2>1. stale' = stale
    BY <1>3 DEF LoopQuiet
  <2>2. CASE TakeRequest
    BY <2>1, <2>2 DEF TakeRequest, StaleInv, TakeOver, userVars
  <2>3. CASE Released \/ EndRequest \/ PollNothing \/ Drained \/ \E m \in Mounts : Release(m)
    BY <2>1, <2>3 DEF Released, EndRequest, PollNothing, Drained, Release, StaleInv, TakeOver
  <2>4. ASSUME NEW m \in Mounts, Drain(m) PROVE StaleInv' /\ (stale => todo' = {})
    BY <2>1, <2>4 DEF Drain, StaleInv, TakeOver
  <2>5. ASSUME NEW d \in Sources, EndMount(d) PROVE StaleInv' /\ (stale => todo' = {})
    <3>1. step \in Sources /\ step' = "tick"
      BY <2>5 DEF EndMount
    <3>2. ~stale
      BY <3>1, Places DEF StaleInv, Steps
    <3>3. QED
      BY <2>1, <3>1, <3>2 DEF StaleInv, TakeOver
  <2>6. QED
    BY <1>3, <2>2, <2>3, <2>4, <2>5 DEF LoopQuiet
<1>4. CASE LoopOpen
  <2>1. step = "poll" /\ step' \in Sources /\ stale' = stale
    BY <1>4 DEF LoopOpen, StartMount
  <2>2. ~stale
    BY <2>1 DEF StaleInv, TakeOver
  <2>3. step' \notin TakeOver \cup {"exited"}
    BY <2>1, Places DEF Steps
  <2>4. QED
    BY <2>1, <2>2, <2>3 DEF StaleInv
<1>5. CASE LoopCall
  BY <1>5 DEF LoopCall, loopVars, userVars, StaleInv
<1>6. CASE LoopEject
  BY <1>6 DEF LoopEject, EjectTray, EjectRefused, StaleInv, TakeOver
<1>7. QED
  BY <1>1, <1>2, <1>3, <1>4, <1>5, <1>6 DEF Loop

\* While the mailbox is older than the process nothing is to be released.
LEMMA NextStale ==
    ASSUME BInv, StaleInv, [EjectNext]_allVars PROVE StaleInv' /\ (stale => todo' = {})
<1>1. CASE ProcessEnds
  BY <1>1 DEF ProcessEnds, StaleInv, TakeOver
<1>2. CASE Takes /\ ~ProcessEnds
  <2>1. /\ UNCHANGED <<live, todo, mailbox>>
        /\ step \in TakeOver \cup {"exited"} /\ step' \in TakeOver \cup {"tick"}
        /\ stale' = IF step = "exited" THEN mailbox # None ELSE stale
    BY <1>2, TakesFrame
  <2>2. "exited" \notin TakeOver
    BY DEF TakeOver
  <2>3. QED
    BY <2>1, <2>2 DEF StaleInv
<1>3. CASE Beside
  <2>1. /\ UNCHANGED <<live, todo, step>>
        /\ \/ stale' = stale /\ mailbox' = mailbox
           \/ stale' = (stale /\ step = "remove")
    BY <1>3, BesideFrame DEF BInv, DiscInv
  <2>2. "remove" \notin TakeOver \cup {"tick"}
    BY DEF TakeOver
  <2>3. CASE stale' = stale /\ mailbox' = mailbox
    BY <2>1, <2>3 DEF StaleInv
  <2>4. CASE stale' = (stale /\ step = "remove")
    BY <2>1, <2>2, <2>4 DEF StaleInv
  <2>5. QED
    BY <2>1, <2>3, <2>4
<1>4. QED
  BY <1>1, <1>2, <1>3, LoopStale, EjectSplit

-----------------------------------------------------------------------------
(* The theorems about EjectCommand *)

\* The invariants beside crashes always hold.
LEMMA EAlways == EjectSpec => []EInv
<1>1. EjectInit => EInv
  BY EjectInitE
<1>2. EInv /\ [EjectNext]_allVars => EInv'
  BY EjectNextB, NextHelpers, NextOrphans, NextStale DEF EInv
<1>3. QED
  BY <1>1, <1>2, PTL DEF EjectSpec

\* Every disc the process serves or mounts keeps its makemkvcon helper, whatever
\* crashes, is ejected or released beside it (is_ours, release_our_helpers).
THEOREM HelpersKept == EjectSpec => []HelperKept
<1>1. EInv => HelperKept
  BY DEF EInv
<1>2. QED
  BY <1>1, EAlways, PTL

\* No session is open beside the helper of a process that died, however often
\* one dies and another starts (open_disc, reap_orphaned_helpers).
THEOREM NoOrphanBesideSession == EjectSpec => []OrphansReaped
<1>1. EInv => OrphansReaped
  BY DEF EInv
<1>2. QED
  BY <1>1, EAlways, PTL

\* A request a process died without taking makes the next one release nothing,
\* whoever writes the mailbox meanwhile (take_eject_request, cmd_mount).
THEOREM StaleReleasesNothing == EjectSpec => StaleRequestHarmless
<1>1. EInv /\ [EjectNext]_allVars => [step = "remove" /\ step' = "handle" /\ stale => todo' = {}]_allVars
  BY NextStale DEF EInv
<1>2. QED
  BY <1>1, EAlways, PTL DEF EjectSpec, StaleRequestHarmless

-----------------------------------------------------------------------------
(* AllLiveMounts, when preparing a mountpoint cannot fail *)

\* Every step keeps OpenInv when preparing a mountpoint cannot fail.
LEMMA EjectNextOpen == ASSUME LeakFree, BInv, OpenInv, [EjectNext]_allVars PROVE OpenInv'
<1>1. CASE ProcessEnds
  BY <1>1, EndsB DEF OpenInv
<1>2. CASE Takes /\ ~ProcessEnds
  <2>1. UNCHANGED <<registry, disc, call>>
    BY <1>2, TakesFrame DEF discVars
  <2>2. QED
    BY <2>1, KeepOpenInv
<1>3. CASE Beside
  <2>1. UNCHANGED <<registry, disc, call>>
    BY <1>3, BesideFrame DEF BInv, DiscInv
  <2>2. QED
    BY <2>1, KeepOpenInv
<1>4. CASE Loop
  <2>1. CASE Step(Main)
    BY <2>1, One, StepOpenInv DEF BInv
  <2>2. QED
    BY <1>4, <2>1, BetweenOpen, ReleaseOpen, BackOpen, StartOpen, LoopSplit
<1>5. QED
  BY <1>1, <1>2, <1>3, <1>4, EjectSplit

\* The same of a process that may crash and be started again, with another one
\* that ejects its discs: no session of a dead process is taken for one of ours.
THEOREM NoneLeakedByCrash == ASSUME LeakFree PROVE EjectSpec => []AllLiveMounts
<1>1. EjectInit => EInv /\ OpenInv
  BY EjectInitE, InitOpen DEF EjectInit
<1>2. (EInv /\ OpenInv) /\ [EjectNext]_allVars => (EInv /\ OpenInv)'
  BY EjectNextB, NextHelpers, NextOrphans, NextStale, EjectNextOpen DEF EInv
<1>3. EInv /\ OpenInv => AllLiveMounts
  BY OpenListed DEF EInv, BInv
<1>4. QED
  BY <1>1, <1>2, <1>3, PTL DEF EjectSpec
=============================================================================
