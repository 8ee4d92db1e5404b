---------------------------- MODULE WatchProofs ----------------------------
(***************************************************************************)
(* Theorems about Watch: its types and the views it leaves, whatever the   *)
(* system does; and, when nobody yanks a disc and no umount fails, that no *)
(* disc is opened twice, forgotten, or robbed of its view.                 *)
(***************************************************************************)
EXTENDS Watch, MountedDiscProofs

-----------------------------------------------------------------------------
(* The inductive invariant of the loop *)

\* What the loop lists is a mount of that source, in the registry or torn down.
ActiveInv ==
    \A s \in Active : active[s] \in Mounts /\ disc[active[s]].src = s /\ Known(active[s])

\* The views it goes through to forget, or to drain, are still in its list.
TodoInv == round \in {"gone", "unmounting", "drain", "draining"} => todo \subseteq Active

Ended(t) == call[t].pc = "returned"

\* Its call is the one that its round waits for.
RoundInv ==
    /\ round \in {"tick", "gone", "mount", "drain", "exited"} => call[Loop].pc = "idle"
    /\ round \in {"unmounting", "draining"} =>
          (Tearing(Loop) \/ Ended(Loop)) /\ call[Loop].disc \in Mounts
    /\ round \in Sources =>
          /\ Mounting(Loop) \/ Ended(Loop)
          /\ Mounting(Loop) \/ call[Loop].ok =>
                /\ call[Loop].disc \in Mounts /\ disc[call[Loop].disc].src = round
                /\ Ended(Loop) => Known(call[Loop].disc)

\* The hook mounts nothing.
HookInv == ~Mounting(Hook)

LoopInv == ActiveInv /\ TodoInv /\ RoundInv /\ HookInv

IInv == TypeOK /\ DiscInv /\ ViewInv /\ LoopInv

-----------------------------------------------------------------------------
(* The inductive invariant of the sessions *)

\* A volume that the hook releases is mounted, held off, and not approved yet.
ReleaseInv ==
    /\ asked \in Sources \cup {None}
    /\ Tearing(Hook) =>
          /\ asked \in volumes /\ ~approved
          /\ disc[call[Hook].disc].src = asked /\ released[asked] # "no"

\* A disc that is open has an owner.
OwnerInv ==
    \A m \in Mounts : disc[m].engine = "open" /\ ~disc[m].tornDown =>
        \/ active[disc[m].src] = m
        \/ /\ round = disc[m].src /\ call[Loop].disc = m
           /\ Mounting(Loop) \/ call[Loop].ok

\* What the loop is about to mount, or mounts, is not in its list, ...
ScanInv ==
    round \in {"mount"} \cup Sources =>
        /\ todo \cap Active = {}
        /\ round \notin todo \cup Active

\* ... and what it is about to mount is neither open nor held off.
ReadyInv ==
    round \in {"mount"} \cup Sources => \A s \in todo :
        released[s] = "no" /\ \A m \in Mounts : disc[m].engine = "open" => disc[m].src # s

SessionInv == ReleaseInv /\ OwnerInv /\ ScanInv /\ ReadyInv /\ OneSession

-----------------------------------------------------------------------------
(* Types and views, whatever the system does *)

\* Watch mode has two threads that mount and release.
LEMMA Two == Loop \in Threads /\ Hook \in Threads /\ Loop # Hook
BY ThreadsAssumption

\* The initial states.
LEMMA InitI == Init => IInv
<1> SUFFICES ASSUME Init PROVE IInv
  OBVIOUS
<1>1. DiscInv /\ ViewInv
  BY InitDisc, InitView DEF Init
<1>2. TypeOK
  <2>1. DiscTypeOK /\ 0 \in 0..MaxInserts
    BY <1>1, InsertsAssumption DEF DiscInv
  <2>2. active \in [Sources -> Mounts \cup {None}] /\ round \in Rounds
    BY DEF Init, Rounds
  <2>3. QED
    BY <2>1, <2>2 DEF Init, TypeOK
<1>3. LoopInv
  BY Two, RoundsAssumption
     DEF Init, LoopInv, ActiveInv, TodoInv, RoundInv, HookInv, Active, DiscInit, Idle, Mounting, Rounds
<1>4. QED
  BY <1>1, <1>2, <1>3 DEF IInv

\* The types that are the loop's and the system's own.
LoopTypeOK ==
    /\ active \in [Sources -> Mounts \cup {None}]
    /\ failed \subseteq Sources /\ todo \subseteq Sources
    /\ round \in Rounds \cup Sources
    /\ asked \in Sources \cup Labels \cup {None}
    /\ approved \in BOOLEAN
    /\ inserts \in 0..MaxInserts

\* Steps that leave the mounts, the registry and the calls alone: the loop
\* between two calls, the system, and the clock.
Quiet ==
    \/ Tick \/ Scan \/ EndRound \/ Exit \/ Signal \/ Unmount
    \/ \E s \in Sources : PassOver(s) \/ Clock(s) \/ Insert(s) \/ Vanish(s)
    \/ \E m \in Mounts : HelperExits(m) /\ UNCHANGED <<loopVars, osVars>>
    \/ \E path \in Asks : Ask(path) /\ FindByPath(path) = None
    \/ UNCHANGED vars

\* A step of the loop between two calls leaves the mounts alone.
LEMMA QuietDisc == ASSUME IInv, Quiet PROVE DiscInv' /\ ViewInv' /\ UNCHANGED <<disc, registry, call>>
<1>1. DiscInv /\ ViewInv /\ DiscTypeOK
  BY DEF IInv, DiscInv
<1>2. UNCHANGED <<disc, registry, call>>
  BY DEF Quiet, Tick, Scan, EndRound, Exit, Signal, Unmount, PassOver, Clock, Insert, Vanish, Settle,
         BackoffOver, HelperExits, Ask, vars, discVars
<1>3. volumes' \subseteq Sources /\ helpers' \subseteq Mounts
  BY <1>1 DEF Quiet, Tick, Scan, EndRound, Exit, Signal, Unmount, PassOver, Clock, Insert, Vanish,
              Settle, BackoffOver, HelperExits, Ask, vars, discVars, DiscTypeOK
<1>4. released' \in [Sources -> {"no", "settling", "settled"}]
  BY <1>1 DEF Quiet, Tick, Scan, EndRound, Exit, Signal, Unmount, PassOver, Clock, Insert, Vanish,
              Settle, BackoffOver, HelperExits, Ask, vars, discVars, DiscTypeOK, Swept
<1>5. view' = view \/ \E l \in Labels : view' = [view EXCEPT ![l] = None]
  BY DEF Quiet, Tick, Scan, EndRound, Exit, Signal, Unmount, Unmounted, PassOver, Clock, Insert, Vanish,
         Settle, BackoffOver, HelperExits, Ask, vars, discVars
<1>6. view' \in [Labels -> Mounts \cup {None}] /\ \A l \in Labels : view'[l] \in {view[l], None}
  BY <1>1, <1>5 DEF DiscTypeOK
<1>7. QED
  BY <1>1, <1>2, <1>3, <1>4, <1>6, QuietBoth

\* Such a step keeps the types of the loop.
LEMMA QuietTypes == ASSUME IInv, Quiet PROVE LoopTypeOK'
<1>1. LoopTypeOK
  BY DEF IInv, TypeOK, LoopTypeOK
<1>2. Active \subseteq Sources /\ volumes \subseteq Sources
  BY DEF Active, IInv, DiscInv, DiscTypeOK
<1>3. CASE Tick \/ Scan \/ EndRound \/ Exit \/ Signal
  BY <1>1, <1>2, <1>3 DEF Tick, Scan, EndRound, Exit, Signal, LoopTypeOK, osVars, Rounds
<1>4. CASE Unmount
  BY <1>1, <1>4 DEF Unmount, LoopTypeOK, loopVars
<1>5. ASSUME NEW s \in Sources, PassOver(s) \/ Clock(s) \/ Insert(s) \/ Vanish(s) PROVE LoopTypeOK'
  BY <1>1, <1>5, InsertsAssumption
     DEF PassOver, Clock, BackoffOver, Insert, Vanish, LoopTypeOK, loopVars, osVars
<1>6. ASSUME NEW path \in Asks, Ask(path) PROVE LoopTypeOK'
  BY <1>1, <1>6, AsksAssumption DEF Ask, LoopTypeOK, loopVars
<1>7. CASE UNCHANGED <<loopVars, osVars>> \/ UNCHANGED vars
  BY <1>1, <1>7 DEF LoopTypeOK, loopVars, osVars, vars
<1>8. QED
  BY <1>3, <1>4, <1>5, <1>6, <1>7 DEF Quiet

\* Such a step keeps what the loop lists.
LEMMA QuietLoop == ASSUME IInv, Quiet PROVE LoopInv'
<1>1. LoopInv /\ UNCHANGED <<disc, registry, call>>
  BY QuietDisc DEF IInv
<1>2. UNCHANGED active
  BY DEF Quiet, Tick, Scan, EndRound, Exit, Signal, Unmount, PassOver, Clock, Insert, Vanish,
         BackoffOver, Ask, loopVars, vars
<1>3. ActiveInv'
  BY <1>1, <1>2 DEF LoopInv, ActiveInv, Active, Known, InRegistry
<1>4. TodoInv' /\ RoundInv'
  <2>1. CASE UNCHANGED <<round, todo>>
    BY <1>1, <1>2, <2>1
       DEF LoopInv, TodoInv, RoundInv, Active, Mounting, Tearing, Ended, Known, InRegistry
  <2>2. CASE Tick \/ Scan \/ EndRound \/ Exit \/ Signal
    <3>1. call[Loop].pc = "idle" /\ round' \in {"gone", "mount", "tick", "exited", "drain"}
      BY <1>1, <2>2 DEF LoopInv, RoundInv, Tick, Scan, EndRound, Exit, Signal
    <3>2. RoundInv'
      BY <1>1, <3>1, RoundsAssumption DEF RoundInv, Rounds
    <3>3. TodoInv'
      BY <1>2, <2>2, <3>1 DEF TodoInv, Active, Tick, Scan, EndRound, Exit, Signal
    <3>4. QED
      BY <3>2, <3>3
  <2>3. CASE \E s \in Sources : PassOver(s)
    BY <1>1, <1>2, <2>3, RoundsAssumption
       DEF LoopInv, TodoInv, RoundInv, PassOver, Rounds, Mounting, Tearing, Ended, Known
  <2>4. QED
    BY <2>1, <2>2, <2>3 DEF Quiet, Unmount, Clock, Insert, Vanish, BackoffOver, Ask, loopVars, vars
<1>5. HookInv'
  BY <1>1 DEF LoopInv, HookInv, Mounting
<1>6. QED
  BY <1>3, <1>4, <1>5 DEF LoopInv

-----------------------------------------------------------------------------
(* The calls of the loop and of the hook *)

\* A thread that is idle calls a teardown of a mount that is known.
LEMMA CallTeardown ==
    ASSUME IInv, NEW t \in Threads, NEW m \in Mounts, NEW b \in BOOLEAN, Known(m), Teardown(t, m, b)
    PROVE  /\ DiscInv' /\ ViewInv'
           /\ call[t].pc = "idle" /\ call'[t].disc = m /\ call'[t].pc \in {"deregister", "returned"}
           /\ call'[t].pc = "deregister" <=> ~disc[m].tornDown
           /\ \A u \in Threads \ {t} : call'[u] = call[u]
           /\ \A n \in Mounts : /\ disc'[n].src = disc[n].src /\ disc'[n].engine = disc[n].engine
                                /\ n # m => disc'[n] = disc[n]
           /\ \A n \in Mounts : Known(n) => Known(n)'
           /\ disc'[m].tornDown
           /\ volumes' = volumes /\ registry' = registry /\ view' = view
<1>1. DiscInv /\ ViewInv /\ DiscTypeOK
  BY DEF IInv, DiscInv
<1>2. DiscInv' /\ ViewInv'
  BY <1>1, TeardownStep, TeardownView DEF Known
<1>3. /\ call[t].pc = "idle" /\ UNCHANGED <<volumes, registry, view>>
      /\ disc' = [disc EXCEPT ![m].tornDown = TRUE]
      /\ call' = [call EXCEPT ![t] = [Idle EXCEPT
                      !.pc = IF disc[m].tornDown THEN "returned" ELSE "deregister",
                      !.disc = m, !.unmountView = b]]
  BY DEF Teardown, At
<1>4. disc'[m] = [disc[m] EXCEPT !.tornDown = TRUE] /\ \A n \in Mounts : n # m => disc'[n] = disc[n]
  BY <1>1, <1>3 DEF DiscTypeOK
<1>5. /\ disc'[m].src = disc[m].src /\ disc'[m].tornDown /\ disc'[m].engine = disc[m].engine
  BY <1>1, <1>4 DEF DiscTypeOK, Inner
<1>6. /\ call'[t].disc = m /\ call'[t].pc = (IF disc[m].tornDown THEN "returned" ELSE "deregister")
      /\ \A u \in Threads \ {t} : call'[u] = call[u]
  BY <1>1, <1>3 DEF DiscTypeOK, Idle
<1>7. \A n \in Mounts : Known(n) => Known(n)'
  BY <1>3, <1>4, <1>5 DEF Known, InRegistry
<1>8. QED
  BY <1>2, <1>3, <1>4, <1>5, <1>6, <1>7

\* ActiveInv and the hook's part, when what is known stays known.
LEMMA StaysActive ==
    ASSUME IInv, \A n \in Mounts : Known(n) => Known(n)' /\ disc'[n].src = disc[n].src,
           \A s \in Sources : active'[s] \in {active[s], None}
    PROVE  ActiveInv'
<1>1. ASSUME NEW s \in Active', NEW n, n = active[s]
      PROVE  active'[s] \in Mounts /\ disc'[active'[s]].src = s /\ Known(active[s])'
  <2>1. s \in Active /\ active'[s] = n
    BY <1>1 DEF Active
  <2>2. n \in Mounts /\ disc[n].src = s /\ Known(n)
    BY <1>1, <2>1 DEF IInv, LoopInv, ActiveInv
  <2>3. disc'[n].src = s /\ Known(n)'
    BY <2>2
  <2>4. Known(active[s])' <=> Known(n)'
    BY <2>1 DEF Known, InRegistry
  <2>5. QED
    BY <2>1, <2>2, <2>3, <2>4
<1>2. QED
  BY <1>1 DEF ActiveInv

\* The loop takes a mount off its list when it tears it down.
LEMMA LoopTeardown ==
    ASSUME IInv, NEW s \in Sources, NEW r \in {"unmounting", "draining"},
           round \in {"gone", "drain"}, s \in todo, todo' = todo \ {s}, round' = r,
           active' = [active EXCEPT ![s] = None], Teardown(Loop, active[s], TRUE),
           UNCHANGED <<failed, osVars>>
    PROVE  IInv'
<1>1. DiscInv /\ LoopInv /\ LoopTypeOK /\ Loop \in Threads /\ Hook \in Threads \ {Loop}
  BY Two DEF IInv, TypeOK, LoopTypeOK
<1>2. s \in Active /\ active[s] \in Mounts /\ Known(active[s])
  BY <1>1 DEF LoopInv, TodoInv, ActiveInv
<1> DEFINE m == active[s]
<1>3. /\ DiscInv' /\ ViewInv'
      /\ call'[Loop].disc = m /\ call'[Loop].pc \in {"deregister", "returned"}
      /\ call'[Hook] = call[Hook]
      /\ \A n \in Mounts : disc'[n].src = disc[n].src /\ (Known(n) => Known(n)')
  BY <1>1, <1>2, CallTeardown, ZenonT(60)
<1>4. LoopTypeOK'
  BY <1>1 DEF LoopTypeOK, osVars, Rounds
<1>5. ActiveInv'
  BY <1>1, <1>3, StaysActive DEF LoopTypeOK
<1>6. TodoInv'
  BY <1>1 DEF LoopInv, TodoInv, Active, LoopTypeOK
<1>7. RoundInv'
  BY <1>2, <1>3, RoundsAssumption DEF RoundInv, Rounds, Tearing, Ended
<1>8. HookInv'
  BY <1>1, <1>3 DEF LoopInv, HookInv, Mounting
<1>9. QED
  BY <1>3, <1>4, <1>5, <1>6, <1>7, <1>8 DEF IInv, TypeOK, LoopTypeOK, DiscInv, LoopInv

\* The invariant when the loop tears down the mount of a disc that has gone.
LEMMA ForgetI == ASSUME IInv, NEW s \in Sources, Forget(s) PROVE IInv'
<1>1. CASE disc[active[s]].tornDown
  <2>1. /\ UNCHANGED <<volumes, view, registry, disc, helpers, call, round, failed, osVars>>
        /\ MarkReleased(s) /\ active' = [active EXCEPT ![s] = None] /\ todo' = todo \ {s}
        /\ round = "gone"
    BY <1>1 DEF Forget
  <2>2. DiscInv /\ ViewInv /\ LoopInv /\ LoopTypeOK
    BY DEF IInv, TypeOK, LoopTypeOK
  <2>3. released' \in [Sources -> {"no", "settling", "settled"}]
    BY <2>1, <2>2, Marked
  <2>4. DiscInv' /\ ViewInv'
    BY <2>1, <2>2, <2>3, QuietBoth DEF DiscInv, DiscTypeOK
  <2>5. LoopTypeOK'
    BY <2>1, <2>2 DEF LoopTypeOK, osVars
  <2>6. ActiveInv'
    BY <2>1, <2>2, StaysActive DEF LoopTypeOK, Known, InRegistry
  <2>7. TodoInv' /\ RoundInv' /\ HookInv'
    BY <2>1, <2>2, RoundsAssumption
       DEF LoopInv, TodoInv, RoundInv, HookInv, Active, LoopTypeOK, Rounds, Mounting
  <2>8. QED
    BY <2>4, <2>5, <2>6, <2>7 DEF IInv, TypeOK, LoopTypeOK, DiscInv, LoopInv
<1>2. CASE ~disc[active[s]].tornDown
  BY <1>2, LoopTeardown DEF Forget
<1>3. QED
  BY <1>1, <1>2

\* The invariant when it tears down a mount at its end.
LEMMA DrainI == ASSUME IInv, NEW s \in Sources, Drain(s) PROVE IInv'
BY LoopTeardown DEF Drain

\* The invariant when its teardown has returned.
LEMMA ForgottenI == ASSUME IInv, Forgotten \/ Drained PROVE IInv'
<1>1. /\ UNCHANGED <<volumes, view, registry, disc, helpers, active, failed, todo, osVars>>
      /\ At(Loop, "returned") /\ call' = [call EXCEPT ![Loop] = Idle]
      /\ \/ round = "unmounting" /\ round' = "gone"
         \/ round = "draining" /\ round' = "drain"
  BY DEF Forgotten, Drained
<1>2. DiscInv /\ ViewInv /\ LoopInv /\ LoopTypeOK /\ Loop \in Threads /\ Hook \in Threads \ {Loop}
  BY Two DEF IInv, TypeOK, LoopTypeOK
<1>3. released' \in [Sources -> {"no", "settling", "settled"}]
  BY <1>2, Marked DEF Forgotten, Drained, DiscInv, DiscTypeOK
<1>4. DiscInv' /\ ViewInv' /\ call'[Loop] = Idle /\ call'[Hook] = call[Hook]
  BY <1>1, <1>2, <1>3, BackToIdle
<1>5. LoopTypeOK'
  BY <1>1, <1>2 DEF LoopTypeOK, osVars, Rounds
<1>6. ActiveInv'
  BY <1>1, StaysActive DEF Known, InRegistry
<1>7. TodoInv' /\ RoundInv' /\ HookInv'
  BY <1>1, <1>2, <1>4, RoundsAssumption
     DEF LoopInv, TodoInv, RoundInv, HookInv, Active, Rounds, Mounting, Idle
<1>8. QED
  BY <1>4, <1>5, <1>6, <1>7 DEF IInv, TypeOK, LoopTypeOK, DiscInv, LoopInv

\* The invariant when the loop starts a mount.
LEMMA StartMountI == ASSUME IInv, NEW s \in Sources, StartMount(s) PROVE IInv'
<1>1. DiscInv /\ ViewInv /\ LoopInv /\ LoopTypeOK /\ Loop \in Threads /\ Hook \in Threads \ {Loop}
  BY Two DEF IInv, TypeOK, LoopTypeOK
<1>2. /\ Open(Loop, s) /\ todo' = todo \ {s} /\ round' = s
      /\ UNCHANGED <<active, failed, osVars>>
  BY DEF StartMount
<1>3. DiscInv' /\ ViewInv'
  BY <1>1, <1>2, OpenStep, OpenView
<1>4. /\ call'[Hook] = call[Hook]
      /\ \A n \in Mounts : Known(n) => Known(n)' /\ disc'[n] = disc[n]
      /\ \/ call'[Loop].pc = "returned" /\ call'[Loop].ok = FALSE
         \/ /\ call'[Loop].pc = "prepare" /\ call'[Loop].disc \in Mounts
            /\ disc'[call'[Loop].disc].src = s
  <2>1. /\ call'[Hook] = call[Hook]
        /\ \A n \in Mounts : Known(n) => Known(n)' /\ disc'[n] = disc[n]
    BY <1>1, <1>2, OpenEffect
  <2>2. \/ call'[Loop].pc = "returned" /\ call'[Loop].ok = FALSE
        \/ \E m \in Mounts : /\ call'[Loop].pc = "prepare" /\ call'[Loop].disc = m
                              /\ disc'[m].src = s
    <3>1. DiscInv /\ Loop \in Threads /\ s \in Sources /\ Open(Loop, s)
      BY <1>1, <1>2
    <3>2. QED
      BY ONLY <3>1, OpenEffect, ZenonT(60)
  <2>3. QED
    BY <2>1, <2>2
<1>5. LoopTypeOK'
  BY <1>1, <1>2 DEF LoopTypeOK, osVars
<1>6. ActiveInv'
  BY <1>2, <1>4, StaysActive
<1>7. TodoInv' /\ RoundInv'
  BY <1>2, <1>4, RoundsAssumption DEF TodoInv, RoundInv, Rounds, Mounting, Ended
<1>8. HookInv'
  BY <1>1, <1>4 DEF LoopInv, HookInv, Mounting
<1>9. QED
  BY <1>3, <1>5, <1>6, <1>7, <1>8 DEF IInv, TypeOK, LoopTypeOK, DiscInv, LoopInv

\* A mount that has succeeded is listed as its source's.
LEMMA EndMountI == ASSUME IInv, NEW s \in Sources, EndMount(s) PROVE IInv'
<1>1. DiscInv /\ ViewInv /\ LoopInv /\ LoopTypeOK /\ Loop \in Threads /\ Hook \in Threads \ {Loop}
  BY Two DEF IInv, TypeOK, LoopTypeOK
<1>2. /\ round = s /\ At(Loop, "returned") /\ call' = [call EXCEPT ![Loop] = Idle]
      /\ UNCHANGED <<volumes, view, registry, released, disc, helpers, todo, osVars>>
      /\ round' = "mount"
  BY DEF EndMount
<1>3. DiscInv' /\ ViewInv' /\ call'[Loop] = Idle /\ call'[Hook] = call[Hook]
  BY <1>1, <1>2, BackToIdle DEF DiscInv, DiscTypeOK
<1>4. call[Loop].ok => /\ call[Loop].disc \in Mounts /\ disc[call[Loop].disc].src = s
                       /\ Known(call[Loop].disc)
  BY <1>1, <1>2 DEF LoopInv, RoundInv, At, Ended
<1>5. LoopTypeOK'
  BY <1>1, <1>2, <1>4 DEF EndMount, LoopTypeOK, osVars, Rounds
<1>6. ActiveInv'
  <2>1. CASE call[Loop].ok
    <3>1. active' = [active EXCEPT ![s] = call[Loop].disc]
      BY <2>1 DEF EndMount
    <3>2. ASSUME NEW r \in Active', NEW n, n = active'[r]
          PROVE  n \in Mounts /\ disc[n].src = r /\ Known(n)
      <4>1. CASE r = s
        BY <1>1, <1>4, <2>1, <3>1, <3>2, <4>1 DEF LoopTypeOK
      <4>2. CASE r # s
        BY <1>1, <3>1, <3>2, <4>2 DEF LoopTypeOK, LoopInv, ActiveInv, Active
      <4>3. QED
        BY <4>1, <4>2
    <3>3. QED
      BY <1>2, <3>2 DEF ActiveInv, Known, InRegistry
  <2>2. CASE ~call[Loop].ok
    BY <1>2, <2>2, StaysActive DEF EndMount, Known, InRegistry
  <2>3. QED
    BY <2>1, <2>2
<1>7. TodoInv' /\ RoundInv' /\ HookInv'
  BY <1>1, <1>2, <1>3, RoundsAssumption
     DEF LoopInv, TodoInv, RoundInv, HookInv, Rounds, Mounting, Idle
<1>8. QED
  BY <1>3, <1>5, <1>6, <1>7 DEF IInv, TypeOK, LoopTypeOK, DiscInv, LoopInv

\* Where the loop was in a mount that it waits for, it is after a step of it.
LEMMA LoopStepI ==
    ASSUME IInv, round # "exited", Step(Loop), UNCHANGED <<loopVars, osVars>> PROVE IInv'
<1>1. DiscInv /\ ViewInv /\ LoopInv /\ LoopTypeOK /\ Loop \in Threads /\ Hook \in Threads \ {Loop}
  BY Two DEF IInv, TypeOK, LoopTypeOK
<1>2. DiscInv' /\ ViewInv'
  BY <1>1, StepStep, StepView
<1>3. \A n \in Mounts : Known(n) => Known(n)' /\ disc'[n].src = disc[n].src
  BY <1>1, StepKnown
<1>4. /\ Mounting(Loop) \/ Tearing(Loop)
      /\ call'[Hook] = call[Hook] /\ call'[Loop].disc = call[Loop].disc
  BY <1>1, StepFrame
<1>5. UNCHANGED <<active, failed, todo, round, asked, approved, inserts>>
  BY DEF loopVars, osVars
<1>6. LoopTypeOK' /\ TodoInv' /\ HookInv' /\ ActiveInv'
  BY <1>1, <1>3, <1>4, <1>5, StaysActive
     DEF LoopTypeOK, LoopInv, TodoInv, HookInv, Active, Mounting
<1>7. RoundInv'
  <2>1. /\ round \notin {"tick", "gone", "mount", "drain", "exited"}
        /\ round \in Rounds \cup Sources
    BY <1>1, <1>4 DEF LoopInv, RoundInv, Mounting, Tearing, LoopTypeOK
  <2>2. CASE round \in {"unmounting", "draining"}
    <3>1. Tearing(Loop) /\ ~Mounting(Loop) /\ call[Loop].disc \in Mounts
      BY <1>1, <1>4, <2>2 DEF LoopInv, RoundInv, Mounting, Tearing, Ended
    <3>2. Tearing(Loop)' \/ Ended(Loop)'
      BY <1>1, <3>1, StepEffect DEF Ended
    <3>3. QED
      BY <1>4, <1>5, <2>2, <3>1, <3>2, RoundsAssumption DEF RoundInv, Rounds
  <2>3. CASE round \in Sources
    <3> SUFFICES ASSUME NEW m, m = call[Loop].disc PROVE RoundInv'
      OBVIOUS
    <3>1. Mounting(Loop) /\ ~Tearing(Loop) /\ m \in Mounts /\ disc[m].src = round
      BY <1>1, <1>4, <2>3 DEF LoopInv, RoundInv, Mounting, Tearing, Ended
    <3>2. Mounting(Loop)' \/ Ended(Loop)'
      BY <1>1, <3>1, StepEffect DEF Ended
    <3>3. Mounting(Loop)' \/ call'[Loop].ok => disc'[m].src = round
      BY <1>1, <3>1, StepEffect DEF Mounting
    <3>4. Ended(Loop)' /\ call'[Loop].ok => Known(m)'
      BY <1>1, <3>1, StepEffect DEF Ended, Known
    <3>5. Known(call[Loop].disc)' <=> Known(m)'
      BY <1>4 DEF Known, InRegistry
    <3>6. ~Mounting(Loop)' \/ ~Ended(Loop)'
      BY DEF Mounting, Ended
    <3>7. QED
      BY <1>4, <1>5, <2>3, <3>1, <3>2, <3>3, <3>4, <3>5, <3>6, RoundsAssumption DEF RoundInv, Rounds
  <2>4. QED
    BY <2>1, <2>2, <2>3 DEF Rounds
<1>8. QED
  BY <1>2, <1>6, <1>7 DEF IInv, TypeOK, LoopTypeOK, DiscInv, LoopInv

\* What the hook does, seen from the loop.
LEMMA HookSide ==
    ASSUME IInv, DiscInv', ViewInv', UNCHANGED loopVars, LoopTypeOK', HookInv',
           call'[Loop] = call[Loop],
           \A n \in Mounts : Known(n) => Known(n)' /\ disc'[n].src = disc[n].src,
           Mounting(Loop) => disc'[call[Loop].disc].src = disc[call[Loop].disc].src
    PROVE  IInv'
<1>1. LoopInv /\ UNCHANGED <<active, failed, todo, round>>
  BY DEF IInv, loopVars
<1>2. ActiveInv' /\ TodoInv'
  BY <1>1, StaysActive DEF LoopInv, TodoInv, Active
<1>3. RoundInv'
  <2> SUFFICES ASSUME NEW m, m = call[Loop].disc PROVE RoundInv'
    OBVIOUS
  <2>1. Known(call[Loop].disc)' <=> Known(m)'
    BY DEF Known, InRegistry
  <2>2. m \in Mounts /\ Known(m) => Known(m)' /\ disc'[m].src = disc[m].src
    OBVIOUS
  <2>3. /\ Mounting(Loop)' <=> Mounting(Loop)
        /\ Tearing(Loop)' <=> Tearing(Loop)
        /\ Ended(Loop)' <=> Ended(Loop)
    BY DEF Mounting, Tearing, Ended
  <2>4. QED
    BY <1>1, <2>1, <2>2, <2>3 DEF LoopInv, RoundInv
<1>4. QED
  BY <1>1, <1>2, <1>3 DEF IInv, TypeOK, LoopTypeOK, DiscInv, LoopInv

\* A step of the hook's teardown.
LEMMA HookStepI ==
    ASSUME IInv, Step(Hook), UNCHANGED <<loopVars, osVars>> PROVE IInv'
<1>1. DiscInv /\ ViewInv /\ LoopInv /\ LoopTypeOK /\ Hook \in Threads /\ Loop \in Threads \ {Hook}
  BY Two DEF IInv, TypeOK, LoopTypeOK
<1>2. DiscInv' /\ ViewInv'
  BY <1>1, StepStep, StepView
<1>3. \A n \in Mounts : Known(n) => Known(n)' /\ disc'[n].src = disc[n].src
  BY <1>1, StepKnown
<1>4. /\ call'[Loop] = call[Loop]
      /\ Mounting(Loop) => disc'[call[Loop].disc] = disc[call[Loop].disc]
  <2>1. /\ Mounting(Hook) \/ Tearing(Hook)
        /\ \A n \in Mounts \ {call[Hook].disc} : disc'[n] = disc[n]
        /\ call'[Loop] = call[Loop]
    BY <1>1, StepFrame
  <2>2. Mounting(Loop) => call[Loop].disc \in Mounts \ {call[Hook].disc}
    BY <1>1, <2>1, CallOnMount DEF DiscInv, CallsInv, ApartInv
  <2>3. QED
    BY <2>1, <2>2
<1>5. HookInv'
  <2>1. ~Mounting(Hook)
    BY <1>1 DEF LoopInv, HookInv
  <2>2. QED
    BY <1>1, <2>1, StepEffect DEF HookInv
<1>6. LoopTypeOK'
  BY <1>1 DEF LoopTypeOK, loopVars, osVars
<1>7. QED
  BY <1>2, <1>3, <1>4, <1>5, <1>6, HookSide

\* DiskArbitration asks: the hook marks the disc and tears it down.
LEMMA AskI ==
    ASSUME IInv, NEW path \in Asks, Ask(path), FindByPath(path) # None PROVE IInv'
<1>1. DiscInv /\ ViewInv /\ LoopInv /\ LoopTypeOK /\ Hook \in Threads /\ Loop \in Threads \ {Hook}
      /\ DiscTypeOK
  BY Two DEF IInv, TypeOK, LoopTypeOK
<1> SUFFICES ASSUME NEW m, m = FindByPath(path) PROVE IInv'
  OBVIOUS
<1>2. m \in Mounts /\ Known(m)
  BY <1>1, FindByPathFinds DEF Known
<1>3. /\ Teardown(Hook, m, path = disc[m].src) /\ asked' = path /\ approved' = FALSE
      /\ UNCHANGED <<loopVars, inserts>>
  BY DEF Ask
<1>4. /\ DiscInv' /\ ViewInv' /\ call'[Loop] = call[Loop]
      /\ call'[Hook].pc \in {"deregister", "returned"}
      /\ \A n \in Mounts : disc'[n].src = disc[n].src /\ (Known(n) => Known(n)')
  <2>1. (path = disc[m].src) \in BOOLEAN
    OBVIOUS
  <2>2. QED
    BY <1>1, <1>2, <1>3, <2>1, CallTeardown, ZenonT(60)
<1>5. LoopTypeOK' /\ HookInv'
  BY <1>1, <1>3, <1>4, AsksAssumption DEF LoopTypeOK, loopVars, HookInv, Mounting
<1>6. Mounting(Loop) => disc'[call[Loop].disc].src = disc[call[Loop].disc].src
  BY <1>1, <1>4, CallOnMount
<1>7. QED
  BY <1>3, <1>4, <1>5, <1>6, HookSide

\* The hook answers.
LEMMA ApproveI == ASSUME IInv, Approve PROVE IInv'
<1>1. DiscInv /\ ViewInv /\ LoopInv /\ LoopTypeOK /\ Hook \in Threads /\ Loop \in Threads \ {Hook}
  BY Two DEF IInv, TypeOK, LoopTypeOK
<1>2. /\ At(Hook, "returned") /\ call' = [call EXCEPT ![Hook] = Idle] /\ approved' = TRUE
      /\ UNCHANGED <<volumes, view, registry, released, disc, helpers, loopVars, asked, inserts>>
  BY DEF Approve
<1>3. DiscInv' /\ ViewInv' /\ call'[Hook] = Idle /\ call'[Loop] = call[Loop]
  BY <1>1, <1>2, BackToIdle DEF DiscInv, DiscTypeOK
<1>4. LoopTypeOK' /\ HookInv'
  BY <1>1, <1>2, <1>3 DEF LoopTypeOK, loopVars, HookInv, Mounting, Idle
<1>5. \A n \in Mounts : Known(n) => Known(n)'
  BY <1>2 DEF Known, InRegistry
<1>6. QED
  BY <1>2, <1>3, <1>4, <1>5, HookSide

\* Every step keeps the invariant.
LEMMA StepI == ASSUME IInv, [Next]_vars PROVE IInv'
<1>1. CASE Quiet
  <2>1. DiscInv' /\ ViewInv' /\ LoopTypeOK' /\ LoopInv'
    BY <1>1, QuietDisc, QuietTypes, QuietLoop
  <2>2. QED
    BY <2>1 DEF IInv, TypeOK, LoopTypeOK, DiscInv
<1>2. CASE LoopStep
  BY <1>1, <1>2, ForgottenI, ForgetI, StartMountI, EndMountI, DrainI, LoopStepI DEF LoopStep, Quiet
<1>3. CASE HookStep
  BY <1>3, ApproveI, HookStepI DEF HookStep
<1>4. CASE Environment
  BY <1>1, <1>4, AskI DEF Environment, Quiet
<1>5. QED
  BY <1>1, <1>2, <1>3, <1>4 DEF Next, Quiet, Exited

\* Every variable keeps to its type: no teardown is begun for a mount that the
\* process does not know, whatever the loop and the eject hook do to each other.
THEOREM TypeCorrect == Spec => []TypeOK
<1>1. Init => IInv
  BY InitI
<1>2. IInv /\ [Next]_vars => IInv'
  BY StepI
<1>3. IInv => TypeOK
  BY DEF IInv
<1>4. QED
  BY <1>1, <1>2, <1>3, PTL DEF Spec

\* No hard NFS mount outlives its server, unless umount failed or the view was
\* left to DiskArbitration: whatever fails and whatever is yanked (teardown).
THEOREM ViewsServed == Spec => []ViewServed
<1>1. Init => IInv
  BY InitI
<1>2. IInv /\ [Next]_vars => IInv'
  BY StepI
<1>3. IInv => ViewServed
  BY DEF IInv, ViewInv, ViewServed
<1>4. QED
  BY <1>1, <1>2, <1>3, PTL DEF Spec

-----------------------------------------------------------------------------
(* When preparing a mountpoint cannot fail *)

\* Every step keeps OpenInv when preparing a mountpoint cannot fail.
LEMMA OpenNext == ASSUME LeakFree, IInv, OpenInv, [Next]_vars PROVE OpenInv'
<1>1. /\ DiscInv /\ LoopInv /\ Loop \in Threads /\ Hook \in Threads /\ Loop # Hook
      /\ call \in [Threads -> Call]
  BY Two DEF IInv, DiscInv, DiscTypeOK
<1>2. CASE Quiet
  BY <1>2, QuietDisc, KeepOpenInv
<1>3. ASSUME NEW t \in Threads, NEW b, NEW m \in Mounts, Teardown(t, m, b) PROVE OpenInv'
  BY <1>1, <1>3, TeardownOpenInv
<1>4. ASSUME NEW t \in Threads, At(t, "returned"), call' = [call EXCEPT ![t] = Idle],
             UNCHANGED <<registry, disc>>
      PROVE  OpenInv'
  <2>1. \A u \in Threads : Mounting(u) => call'[u] = call[u]
    BY <1>1, <1>4 DEF Mounting, At
  <2>2. QED
    BY <1>4, <2>1, KeepOpenInv
<1>5. ASSUME NEW s \in Sources, Forget(s) \/ Drain(s) PROVE OpenInv'
  <2>1. s \in Active /\ active[s] \in Mounts
    BY <1>1, <1>5 DEF LoopInv, TodoInv, ActiveInv, Forget, Drain
  <2>2. CASE UNCHANGED <<registry, disc, call>>
    BY <2>2, KeepOpenInv
  <2>3. CASE Teardown(Loop, active[s], TRUE)
    BY <1>1, <1>3, <2>1, <2>3
  <2>4. QED
    BY <1>5, <2>2, <2>3 DEF Forget, Drain
<1>6. ASSUME NEW s \in Sources, StartMount(s) PROVE OpenInv'
  BY <1>1, <1>6, OpenOpenInv DEF StartMount
<1>7. CASE Step(Loop) \/ Step(Hook)
  BY <1>1, <1>7, StepOpenInv
<1>8. CASE Forgotten \/ Drained \/ Approve \/ \E s \in Sources : EndMount(s)
  BY <1>1, <1>4, <1>8 DEF Forgotten, Drained, Approve, EndMount
<1>9. ASSUME NEW path \in Asks, Ask(path), FindByPath(path) # None PROVE OpenInv'
  <2>1. FindByPath(path) \in Mounts
    BY <1>1, <1>9, FindByPathFinds DEF DiscInv
  <2>2. QED
    BY <1>1, <1>3, <1>9, <2>1 DEF Ask
<1>10. QED
  BY <1>2, <1>5, <1>6, <1>7, <1>8, <1>9
     DEF Next, LoopStep, HookStep, Environment, Exited, Quiet

\* "All live mounts ... for the eject hook": unless preparing a mountpoint fails,
\* a disc that is open in libmmbd is in the registry, or a thread mounts it or
\* tears it down, whatever is asked for, yanked or refused.
THEOREM LiveListed == ASSUME LeakFree PROVE Spec => []AllLiveMounts
<1>1. Init => IInv /\ OpenInv
  BY InitI, InitOpen DEF Init
<1>2. IInv /\ OpenInv /\ [Next]_vars => (IInv /\ OpenInv)'
  BY StepI, OpenNext
<1>3. IInv /\ OpenInv => AllLiveMounts
  BY OpenListed DEF IInv
<1>4. QED
  BY <1>1, <1>2, <1>3, PTL DEF Spec

-----------------------------------------------------------------------------
(* When, besides, only volumes are ejected, and nothing is yanked *)

\* Discs are ejected, not yanked, and it is the disc that is asked for, not the
\* view, which the eject hook leaves to DiskArbitration.
Calm == ~Yanks /\ Asks \subseteq Sources /\ LeakFree

JInv == IInv /\ OpenInv /\ SessionInv

\* The initial states.
LEMMA InitSession == Init => SessionInv
BY Two, RoundsAssumption
   DEF Init, DiscInit, SessionInv, ReleaseInv, OwnerInv, ScanInv, ReadyInv, OneSession, Unused, Idle,
       Tearing, Rounds

\* A mount that is open and not the hook's is one that the loop has or mounts.
LEMMA HookOwns ==
    ASSUME IInv, SessionInv, round = "gone", NEW m \in Mounts, disc[m].engine = "open",
           disc[m].src \in Sources \ Active
    PROVE  /\ asked = disc[m].src /\ asked \in volumes /\ released[asked] # "no"
<1>1. DiscInv /\ LoopInv /\ call[Loop].pc = "idle"
  BY DEF IInv, LoopInv, RoundInv
<1>2. m # None /\ round \notin Sources
  BY NamesAssumption, RoundsAssumption DEF Rounds
<1>3. disc[m].tornDown
  BY <1>2 DEF SessionInv, OwnerInv, Active
<1>4. PICK t \in Threads : call[t].pc \in {"deregister", "unmount", "shutdown"} /\ call[t].disc = m
  BY <1>1, <1>3 DEF DiscInv, CallsInv, TornInv
<1>5. t = Hook
  BY <1>1, <1>4, ThreadsAssumption
<1>6. QED
  BY <1>4, <1>5 DEF SessionInv, ReleaseInv, Tearing

\* Steps that leave the mounts and the calls alone.
LEMMA QuietSession == ASSUME Calm, JInv, Quiet PROVE SessionInv'
<1>1. IInv /\ SessionInv /\ DiscInv /\ DiscTypeOK /\ LoopInv /\ LoopTypeOK
  BY DEF JInv, IInv, TypeOK, LoopTypeOK, DiscInv
<1>2. UNCHANGED <<disc, registry, call>>
  BY <1>1, QuietDisc
<1>3. UNCHANGED active /\ (round' = round \/ {round', round} \subseteq Rounds)
  BY DEF Quiet, Tick, Scan, EndRound, Exit, Signal, Unmount, PassOver, Clock, Insert, Vanish,
         BackoffOver, Ask, loopVars, vars, Rounds
<1>4. OneSession' /\ OwnerInv'
  <2>1. OneSession'
    BY <1>1, <1>2 DEF SessionInv, OneSession
  <2>2. round \in Sources => round' = round
    BY <1>3, RoundsAssumption DEF Rounds
  <2>3. ASSUME NEW m \in Mounts, disc[m].engine = "open", ~disc[m].tornDown
        PROVE  disc[m].src \in Sources
    BY <1>1, <2>3 DEF JInv, OpenInv, DiscInv, CallsInv, RegisteredInv, MountingInv
  <2>4. OwnerInv'
    BY <1>1, <1>2, <1>3, <2>2, <2>3 DEF SessionInv, OwnerInv, Mounting
  <2>5. QED
    BY <2>1, <2>4
<1>5. ReleaseInv'
  <2>1. Tearing(Hook)' <=> Tearing(Hook)
    BY <1>2 DEF Tearing
  <2>2. CASE Unmount
    BY <1>1, <2>1, <2>2 DEF SessionInv, ReleaseInv, Unmount
  <2>3. ASSUME NEW path \in Asks, Ask(path) PROVE ReleaseInv'
    <3>1. ~Tearing(Hook)
      BY <2>3 DEF Ask, At, Tearing
    <3>2. QED
      BY <2>1, <2>3, <3>1 DEF Ask, Calm, ReleaseInv
  <2>4. CASE Scan
    BY <1>1, <1>2, <2>1, <2>4 DEF SessionInv, ReleaseInv, Scan, Swept, osVars, DiscTypeOK
  <2>5. ASSUME NEW s \in Sources, Clock(s) PROVE ReleaseInv'
    BY <1>1, <1>2, <2>1, <2>5
       DEF SessionInv, ReleaseInv, Clock, Settle, BackoffOver, osVars, discVars, DiscTypeOK
  <2>6. ASSUME NEW s \in Sources, Insert(s) PROVE ReleaseInv'
    BY <1>1, <1>2, <2>1, <2>6 DEF SessionInv, ReleaseInv, Insert
  <2>7. CASE UNCHANGED <<volumes, released, asked, approved>>
    BY <1>1, <1>2, <2>1, <2>7 DEF SessionInv, ReleaseInv
  <2>8. QED
    BY <2>2, <2>3, <2>4, <2>5, <2>6, <2>7
       DEF Quiet, Calm, Vanish, Tick, EndRound, Exit, Signal, PassOver, HelperExits, osVars, vars, discVars
<1>6. ScanInv' /\ ReadyInv'
  <2>1. CASE Tick \/ EndRound \/ Exit \/ Signal
    BY <2>1, RoundsAssumption DEF Tick, EndRound, Exit, Signal, ScanInv, ReadyInv, Rounds
  <2>2. CASE Scan
    <3>1. /\ todo' = {s \in volumes \ Active : Swept[s] = "no"} /\ round' = "mount"
          /\ released' = Swept /\ round = "gone"
      BY <2>2 DEF Scan
    <3>2. ScanInv'
      BY <1>1, <1>3, <3>1, RoundsAssumption DEF ScanInv, Active, DiscTypeOK, Rounds
    <3>3. ASSUME NEW s \in todo', NEW m \in Mounts, disc[m].engine = "open"
          PROVE  disc[m].src # s
      <4>1. s \in volumes /\ s \in Sources \ Active /\ Swept[s] = "no"
        BY <1>1, <3>1, <3>3 DEF DiscTypeOK
      <4>2. released[s] = "no"
        BY <4>1 DEF Swept
      <4>3. QED
        BY <1>1, <3>1, <3>3, <4>1, <4>2, HookOwns
    <3>4. QED
      BY <1>2, <3>1, <3>2, <3>3 DEF ReadyInv
  <2>3. ASSUME NEW s \in Sources, PassOver(s) PROVE ScanInv' /\ ReadyInv'
    BY <1>1, <1>2, <1>3, <2>3 DEF PassOver, SessionInv, ScanInv, ReadyInv, Active, discVars
  <2>4. ASSUME NEW s \in Sources, Clock(s) PROVE ScanInv' /\ ReadyInv'
    <3>1. UNCHANGED <<active, todo, round>>
      BY <2>4 DEF Clock, BackoffOver, loopVars
    <3>2. \A r \in Sources : released[r] = "no" => released'[r] = "no"
      BY <1>1, <2>4 DEF Clock, Settle, BackoffOver, discVars, DiscTypeOK
    <3>3. QED
      BY <1>1, <1>2, <3>1, <3>2 DEF SessionInv, ScanInv, ReadyInv, Active, LoopTypeOK
  <2>5. CASE UNCHANGED <<released, active, todo, round>>
    BY <1>1, <1>2, <2>5 DEF SessionInv, ScanInv, ReadyInv, Active
  <2>6. QED
    BY <2>1, <2>2, <2>3, <2>4, <2>5
       DEF Quiet, Unmount, Insert, Vanish, HelperExits, Ask, loopVars, vars, discVars
<1>7. QED
  BY <1>4, <1>5, <1>6 DEF SessionInv

\* The loop tears down what it is about to forget, or to drain.
LEMMA TeardownSession ==
    ASSUME JInv, NEW s \in Sources, Forget(s) \/ Drain(s) PROVE SessionInv'
<1>1. /\ IInv /\ SessionInv /\ DiscInv /\ DiscTypeOK /\ LoopInv /\ LoopTypeOK
      /\ Loop \in Threads /\ Hook \in Threads \ {Loop}
  BY Two DEF JInv, IInv, TypeOK, LoopTypeOK, DiscInv
<1>2. /\ round \in {"gone", "drain"} /\ s \in todo
      /\ active' = [active EXCEPT ![s] = None]
      /\ UNCHANGED osVars
  BY DEF Forget, Drain
<1>3. s \in Active /\ active[s] \in Mounts /\ Known(active[s]) /\ disc[active[s]].src = s
  BY <1>1, <1>2 DEF LoopInv, TodoInv, ActiveInv
<1> SUFFICES ASSUME NEW m, m = active[s] PROVE SessionInv'
  OBVIOUS
<1>4. /\ call'[Hook] = call[Hook] /\ volumes' = volumes
      /\ disc'[m].tornDown
      /\ \A n \in Mounts : /\ disc'[n].src = disc[n].src /\ disc'[n].engine = disc[n].engine
                           /\ n # m => disc'[n] = disc[n]
  <2>1. CASE Teardown(Loop, m, TRUE)
    <3>1. /\ volumes' = volumes /\ disc'[m].tornDown
          /\ \A u \in Threads \ {Loop} : call'[u] = call[u]
          /\ \A n \in Mounts : /\ disc'[n].src = disc[n].src /\ disc'[n].engine = disc[n].engine
                               /\ n # m => disc'[n] = disc[n]
      <4>1. /\ IInv /\ Loop \in Threads /\ m \in Mounts /\ TRUE \in BOOLEAN /\ Known(m)
            /\ Teardown(Loop, m, TRUE)
        BY <1>1, <1>3, <2>1
      <4>2. QED
        BY ONLY <4>1, CallTeardown
    <3>2. QED
      BY <1>1, <3>1
  <2>2. CASE disc[m].tornDown /\ UNCHANGED <<disc, call, volumes>>
    BY <2>2
  <2>3. QED
    BY <2>1, <2>2 DEF Forget, Drain
<1>5. MarkReleased(s) /\ round' \in {"gone", "unmounting", "draining"}
  BY <1>2, <1>3 DEF Forget, Drain, Teardown
<1>6. OneSession'
  BY <1>1, <1>4 DEF SessionInv, OneSession
<1>7. ReleaseInv'
  <2>1. \A r \in Sources : released[r] # "no" => released'[r] # "no"
    BY <1>1, <1>5 DEF MarkReleased, DiscTypeOK
  <2>2. Tearing(Hook)' <=> Tearing(Hook)
    BY <1>4 DEF Tearing
  <2>3. Tearing(Hook) => call[Hook].disc \in Mounts
    BY <1>1, CallOnMount
  <2>4. volumes \subseteq Sources
    BY <1>1 DEF DiscTypeOK
  <2>5. QED
    BY <1>1, <1>2, <1>4, <2>1, <2>2, <2>3, <2>4 DEF SessionInv, ReleaseInv, osVars
<1>8. OwnerInv'
  <2> SUFFICES ASSUME NEW n \in Mounts, disc'[n].engine = "open", ~disc'[n].tornDown
               PROVE  active'[disc'[n].src] = n
    BY DEF OwnerInv
  <2>1. n # m /\ disc'[n] = disc[n]
    BY <1>4
  <2>2. active[disc[n].src] = n
    <3>1. disc[n].src \in Sources
      BY <1>1, <2>1 DEF JInv, OpenInv, DiscInv, CallsInv, RegisteredInv, MountingInv
    <3>2. round # disc[n].src
      BY <1>2, <3>1, RoundsAssumption DEF Rounds
    <3>3. QED
      BY <1>1, <2>1, <3>2 DEF SessionInv, OwnerInv
  <2>3. QED
    BY <1>1, <1>2, <2>1, <2>2 DEF LoopTypeOK
<1>9. ScanInv' /\ ReadyInv'
  BY <1>5, RoundsAssumption DEF ScanInv, ReadyInv, Rounds
<1>10. QED
  BY <1>6, <1>7, <1>8, <1>9 DEF SessionInv

\* SessionInv when a teardown has returned.
LEMMA ReturnSession == ASSUME JInv, Forgotten \/ Drained \/ Approve PROVE SessionInv'
<1>1. /\ IInv /\ SessionInv /\ DiscInv /\ DiscTypeOK /\ LoopInv /\ LoopTypeOK
      /\ Loop \in Threads /\ Hook \in Threads \ {Loop}
  BY Two DEF JInv, IInv, TypeOK, LoopTypeOK, DiscInv
<1>2. /\ UNCHANGED <<volumes, registry, disc, active, todo, asked>>
      /\ Approve \/ approved' = approved
  BY DEF Forgotten, Drained, Approve, osVars, loopVars
<1>3. \A r \in Sources : released[r] # "no" => released'[r] # "no"
  BY <1>1 DEF Forgotten, Drained, Approve, MarkReleased, DiscTypeOK
<1>4. /\ Tearing(Hook)' => Tearing(Hook) /\ approved' = approved
      /\ call'[Hook] = call[Hook] \/ ~Tearing(Hook)'
  BY <1>1 DEF Forgotten, Drained, Approve, DiscTypeOK, Tearing, Idle, osVars
<1>5. volumes \subseteq Sources
  BY <1>1 DEF DiscTypeOK
<1>6. ReleaseInv'
  BY <1>1, <1>2, <1>3, <1>4, <1>5 DEF SessionInv, ReleaseInv
<1>7. OneSession'
  BY <1>1, <1>2 DEF SessionInv, OneSession
<1>8. CASE Forgotten \/ Drained
  <2>1. {round, round'} \subseteq Rounds \ {"mount"}
    BY <1>8 DEF Forgotten, Drained, Rounds
  <2>2. ScanInv' /\ ReadyInv'
    BY <2>1, RoundsAssumption DEF ScanInv, ReadyInv
  <2>3. ASSUME NEW m \in Mounts, disc[m].engine = "open", ~disc[m].tornDown
        PROVE  disc[m].src \in Sources
    BY <1>1, <2>3 DEF JInv, OpenInv, DiscInv, CallsInv, RegisteredInv, MountingInv
  <2>4. OwnerInv'
    BY <1>1, <1>2, <2>1, <2>3, RoundsAssumption DEF SessionInv, OwnerInv
  <2>5. QED
    BY <1>6, <1>7, <2>2, <2>4 DEF SessionInv
<1>9. CASE Approve
  <2>1. UNCHANGED <<round, released>> /\ call'[Loop] = call[Loop]
    BY <1>1, <1>9 DEF Approve, loopVars, DiscTypeOK
  <2>2. OwnerInv' /\ ScanInv' /\ ReadyInv'
    BY <1>1, <1>2, <2>1 DEF SessionInv, OwnerInv, ScanInv, ReadyInv, Active, Mounting
  <2>3. QED
    BY <1>6, <1>7, <2>2 DEF SessionInv
<1>10. QED
  BY <1>8, <1>9

\* SessionInv when a mount starts: its source has no open disc.
LEMMA StartSession == ASSUME JInv, NEW s \in Sources, StartMount(s) PROVE SessionInv'
<1>1. /\ IInv /\ SessionInv /\ DiscInv /\ DiscTypeOK /\ LoopInv /\ LoopTypeOK
      /\ Loop \in Threads /\ Hook \in Threads \ {Loop}
  BY Two DEF JInv, IInv, TypeOK, LoopTypeOK, DiscInv
<1>2. /\ round = "mount" /\ s \in todo /\ todo' = todo \ {s} /\ round' = s
      /\ Open(Loop, s) /\ UNCHANGED <<active, asked, approved>>
  BY DEF StartMount, osVars
<1>3. UNCHANGED <<volumes, released>> /\ call'[Hook] = call[Hook]
  BY <1>1, <1>2, OpenEffect
<1>4. /\ s \notin Active /\ todo' \cap Active = {}
      /\ \A r \in todo : released[r] = "no" /\ \A n \in Mounts : disc[n].engine = "open" => disc[n].src # r
  BY <1>1, <1>2 DEF SessionInv, ScanInv, ReadyInv
<1>5. ScanInv'
  BY <1>2, <1>4 DEF ScanInv, Active
<1>6. Tearing(Hook) => disc'[call[Hook].disc].src = disc[call[Hook].disc].src
  BY <1>1, <1>2, CallOnMount, OpenEffect DEF DiscInv, CallsInv, TearingInv, Known
<1>7. ReleaseInv'
  BY <1>1, <1>2, <1>3, <1>6 DEF SessionInv, ReleaseInv, Tearing
<1>8. ASSUME NEW n \in Mounts, disc[n].engine = "open", ~disc[n].tornDown
      PROVE  active[disc[n].src] = n
  <2>1. disc[n].src \in Sources
    BY <1>1, <1>8 DEF JInv, OpenInv, DiscInv, CallsInv, RegisteredInv, MountingInv
  <2>2. QED
    BY <1>1, <1>2, <1>8, <2>1, RoundsAssumption DEF SessionInv, OwnerInv, Rounds
<1>9. CASE disc' = disc
  BY <1>1, <1>2, <1>3, <1>4, <1>5, <1>7, <1>8, <1>9
     DEF SessionInv, OneSession, OwnerInv, ReadyInv
<1>10. ASSUME NEW m \in Mounts, call'[Loop].pc = "prepare", call'[Loop].disc = m,
              disc'[m].src = s, \A n \in Mounts \ {m} : disc'[n] = disc[n]
       PROVE  SessionInv'
  <2>1. OneSession'
    <3>1. \A n \in Mounts \ {m} : disc'[n].engine = "open" => disc'[n].src # s
      BY <1>2, <1>4, <1>10
    <3>2. QED
      BY <1>1, <1>10, <3>1 DEF SessionInv, OneSession
  <2>2. OwnerInv'
    BY <1>2, <1>8, <1>10 DEF OwnerInv, Mounting
  <2>3. ReadyInv'
    BY <1>2, <1>3, <1>4, <1>10 DEF ReadyInv
  <2>4. QED
    BY <1>5, <1>7, <2>1, <2>2, <2>3 DEF SessionInv
<1>11. \/ disc' = disc
       \/ \E m \in Mounts : /\ call'[Loop].pc = "prepare" /\ call'[Loop].disc = m
                            /\ disc'[m].src = s
                            /\ \A n \in Mounts \ {m} : disc'[n] = disc[n]
  <2>1. \/ disc' = disc /\ call'[Loop].pc = "returned" /\ call'[Loop].ok = FALSE
        \/ \E m \in Mounts :
              /\ disc[m] = Unused /\ ~Known(m)
              /\ call'[Loop].pc = "prepare" /\ call'[Loop].disc = m
              /\ disc'[m].src = s /\ disc'[m].engine = "open" /\ ~disc'[m].tornDown
              /\ \A n \in Mounts \ {m} : disc'[n] = disc[n]
    <3>1. DiscInv /\ Loop \in Threads /\ s \in Sources /\ Open(Loop, s)
      BY <1>1, <1>2
    <3>2. QED
      BY ONLY <3>1, OpenEffect, ZenonT(60)
  <2>2. QED
    BY <2>1
<1>12. QED
  BY <1>9, <1>10, <1>11

\* SessionInv when a mount ends: the loop owns the disc it opened.
LEMMA EndSession == ASSUME JInv, NEW s \in Sources, EndMount(s) PROVE SessionInv'
<1>1. /\ IInv /\ SessionInv /\ DiscInv /\ DiscTypeOK /\ LoopInv /\ LoopTypeOK
      /\ Loop \in Threads /\ Hook \in Threads \ {Loop}
  BY Two DEF JInv, IInv, TypeOK, LoopTypeOK, DiscInv
<1>2. /\ round = s /\ call[Loop].pc = "returned" /\ call' = [call EXCEPT ![Loop] = Idle]
      /\ UNCHANGED <<volumes, released, disc, todo, asked, approved>> /\ round' = "mount"
      /\ \/ call[Loop].ok /\ active' = [active EXCEPT ![s] = call[Loop].disc]
         \/ ~call[Loop].ok /\ active' = active
  BY DEF EndMount, At, osVars
<1>3. s \notin todo \cup Active /\ todo \cap Active = {}
  BY <1>1, <1>2 DEF SessionInv, ScanInv
<1>4. \A r \in Sources \ {s} : active'[r] = active[r]
  BY <1>1, <1>2 DEF LoopTypeOK
<1>5. OneSession' /\ ReadyInv'
  BY <1>1, <1>2 DEF SessionInv, OneSession, ReadyInv
<1>6. ScanInv'
  <2>1. todo' = todo /\ round' = "mount" /\ Active' \subseteq Active \cup {s} /\ "mount" \notin Sources
    BY <1>2, <1>4, RoundsAssumption DEF Active, Rounds
  <2>2. todo \subseteq Sources
    BY <1>1 DEF LoopTypeOK
  <2>3. Active' \subseteq Sources
    BY DEF Active
  <2>4. QED
    BY <1>3, <2>1, <2>2, <2>3 DEF ScanInv
<1>7. ReleaseInv'
  <2>1. call'[Hook] = call[Hook]
    BY <1>1, <1>2 DEF DiscTypeOK
  <2>2. QED
    BY <1>1, <1>2, <2>1 DEF SessionInv, ReleaseInv, Tearing
<1>8. OwnerInv'
  <2> SUFFICES ASSUME NEW n \in Mounts, disc[n].engine = "open", ~disc[n].tornDown
               PROVE  active'[disc[n].src] = n
    BY <1>2 DEF OwnerInv
  <2>1. disc[n].src \in Sources /\ n # None
    BY <1>1, NamesAssumption DEF JInv, OpenInv, DiscInv, CallsInv, RegisteredInv, MountingInv
  <2>2. CASE active[disc[n].src] = n
    BY <1>3, <1>4, <2>1, <2>2 DEF Active
  <2>3. CASE round = disc[n].src /\ call[Loop].disc = n /\ call[Loop].ok
    BY <1>1, <1>2, <2>3 DEF LoopTypeOK
  <2>4. QED
    BY <1>1, <1>2, <2>2, <2>3 DEF SessionInv, OwnerInv, Mounting
<1>9. QED
  BY <1>5, <1>6, <1>7, <1>8 DEF SessionInv

\* SessionInv over every step of a call.
LEMMA CallSession ==
    ASSUME LeakFree, JInv, NEW t \in Threads, Step(t), UNCHANGED <<loopVars, osVars>>
    PROVE  SessionInv'
<1>1. /\ IInv /\ SessionInv /\ DiscInv /\ DiscTypeOK /\ LoopInv /\ LoopTypeOK
      /\ Loop \in Threads /\ Hook \in Threads \ {Loop} /\ t \in {Loop, Hook}
  BY Two, ThreadsAssumption DEF JInv, IInv, TypeOK, LoopTypeOK, DiscInv
<1>2. UNCHANGED <<active, todo, round, asked, approved>>
  BY DEF loopVars, osVars
<1> SUFFICES ASSUME NEW m, m = call[t].disc PROVE SessionInv'
  OBVIOUS
<1>3. /\ volumes' = volumes /\ released' = released
      /\ call'[t].disc = m /\ \A u \in Threads \ {t} : call'[u] = call[u]
      /\ \A n \in Mounts \ {m} : disc'[n] = disc[n]
      /\ Tearing(t)' => Tearing(t)
      /\ m \in Mounts
  BY StepEffect, StepFrame, OwnMount, <1>1
<1>4. \A n \in Mounts : disc'[n].engine = "open" =>
          /\ disc[n].engine = "open" /\ disc'[n].src = disc[n].src
          /\ disc'[n].tornDown = disc[n].tornDown /\ disc'[n] # Unused
  BY <1>1, StepSessions
<1>5. OneSession'
  BY <1>1, <1>4 DEF SessionInv, OneSession
<1>6. ScanInv' /\ ReadyInv'
  BY <1>1, <1>2, <1>3, <1>4 DEF SessionInv, ScanInv, ReadyInv, Active
<1>7. ReleaseInv'
  <2>1. Tearing(Hook)' => Tearing(Hook) /\ call'[Hook].disc = call[Hook].disc
    BY <1>1, <1>3 DEF Tearing
  <2>2. Tearing(Hook) => disc'[call[Hook].disc].src = disc[call[Hook].disc].src
    <3> SUFFICES ASSUME Tearing(Hook) PROVE disc'[call[Hook].disc].src = disc[call[Hook].disc].src
      OBVIOUS
    <3>1. call[Hook].disc \in Mounts /\ Known(call[Hook].disc)
      BY <1>1, CallOnMount DEF DiscInv, CallsInv, TearingInv, Known
    <3>2. QED
      BY <1>1, <3>1, StepKnown
  <2>3. QED
    BY <1>1, <1>2, <1>3, <2>1, <2>2 DEF SessionInv, ReleaseInv
<1>8. OwnerInv'
  <2> SUFFICES ASSUME NEW n \in Mounts, disc'[n].engine = "open", ~disc'[n].tornDown
               PROVE  \/ active'[disc'[n].src] = n
                      \/ /\ round' = disc'[n].src /\ call'[Loop].disc = n
                         /\ Mounting(Loop)' \/ call'[Loop].ok
    BY DEF OwnerInv
  <2>1. /\ disc[n].engine = "open" /\ ~disc[n].tornDown /\ disc'[n].src = disc[n].src
        /\ disc'[n] # Unused
    BY <1>4
  <2>2. CASE active[disc[n].src] = n
    BY <1>2, <2>1, <2>2
  <2>3. CASE /\ round = disc[n].src /\ call[Loop].disc = n
             /\ Mounting(Loop) \/ call[Loop].ok
    <3>1. CASE t = Hook
      <4>1. call'[Loop] = call[Loop]
        BY <1>1, <1>3, <3>1
      <4>2. QED
        BY <1>2, <2>1, <2>3, <4>1 DEF Mounting
    <3>2. CASE t = Loop
      <4>1. Mounting(Loop)
        <5>1. round \in Sources
          BY <1>1, <2>1, <2>3 DEF JInv, OpenInv, DiscInv, CallsInv, RegisteredInv, MountingInv
        <5>2. Mounting(Loop) \/ Tearing(Loop)
          BY <1>1, <3>2, StepFrame
        <5>3. QED
          BY <1>1, <5>1, <5>2 DEF LoopInv, RoundInv, Tearing, Ended
      <4>2. Mounting(Loop)' \/ call'[Loop].pc = "returned"
        BY <1>1, <3>2, <4>1, StepEffect DEF Mounting, Tearing
      <4>3. Mounting(Loop)' \/ call'[Loop].ok
        BY <1>1, <2>1, <2>3, <3>2, <4>1, <4>2, MountFails
      <4>4. QED
        BY <1>2, <1>3, <2>1, <2>3, <3>2, <4>3
    <3>3. QED
      BY <1>1, <3>1, <3>2
  <2>4. QED
    BY <1>1, <2>1, <2>2, <2>3 DEF SessionInv, OwnerInv
<1>9. QED
  BY <1>5, <1>6, <1>7, <1>8 DEF SessionInv

\* SessionInv when the hook is asked: the volume it releases is held off.
LEMMA AskSession ==
    ASSUME Calm, JInv, NEW path \in Asks, Ask(path), FindByPath(path) # None PROVE SessionInv'
<1>1. /\ IInv /\ SessionInv /\ DiscInv /\ DiscTypeOK /\ LoopInv /\ LoopTypeOK
      /\ Hook \in Threads /\ Loop \in Threads \ {Hook}
  BY Two DEF JInv, IInv, TypeOK, LoopTypeOK, DiscInv
<1> SUFFICES ASSUME NEW m, m = FindByPath(path) PROVE SessionInv'
  OBVIOUS
<1>2. path \in Sources
  BY DEF Calm
<1>3. m \in Mounts /\ InRegistry(m) /\ path \in {disc[m].src, Mountpoint(m)}
  BY <1>1, FindByPathFinds
<1>4. disc[m].engine = "open" /\ disc[m].src = path
  BY <1>1, <1>2, <1>3, NamesAssumption DEF DiscInv, CallsInv, RegisteredInv, Mountpoint
<1>5. /\ Teardown(Hook, m, path = disc[m].src) /\ asked' = path /\ approved' = FALSE
      /\ path \in volumes
      /\ UNCHANGED <<active, todo, round>>
  BY <1>2 DEF Ask, loopVars
<1>6. /\ call'[Loop] = call[Loop] /\ call'[Hook].disc = m /\ volumes' = volumes
      /\ disc'[m].tornDown
      /\ \A n \in Mounts : /\ disc'[n].src = disc[n].src /\ disc'[n].engine = disc[n].engine
                           /\ n # m => disc'[n] = disc[n]
  <2>1. /\ IInv /\ Hook \in Threads /\ m \in Mounts /\ TRUE \in BOOLEAN /\ Known(m)
        /\ Teardown(Hook, m, TRUE)
    BY <1>1, <1>3, <1>4, <1>5 DEF Known
  <2>2. /\ call'[Hook].disc = m /\ volumes' = volumes /\ disc'[m].tornDown
        /\ \A u \in Threads \ {Hook} : call'[u] = call[u]
        /\ \A n \in Mounts : /\ disc'[n].src = disc[n].src /\ disc'[n].engine = disc[n].engine
                             /\ n # m => disc'[n] = disc[n]
    BY ONLY <2>1, CallTeardown
  <2>3. QED
    BY <1>1, <2>2
<1>7. released'[path] = "settling" /\ \A r \in Sources \ {path} : released'[r] = released[r]
  BY <1>1, <1>2, <1>4, <1>5 DEF Teardown, MarkReleased, DiscTypeOK
<1>8. OneSession'
  BY <1>1, <1>6 DEF SessionInv, OneSession
<1>9. OwnerInv'
  BY <1>1, <1>3, <1>5, <1>6 DEF SessionInv, OwnerInv, Mounting
<1>10. ReleaseInv'
  BY <1>2, <1>3, <1>4, <1>5, <1>6, <1>7 DEF ReleaseInv
<1>11. ScanInv' /\ ReadyInv'
  <2>1. ScanInv'
    BY <1>1, <1>5 DEF SessionInv, ScanInv, Active
  <2>2. round \in {"mount"} \cup Sources => path \notin todo
    BY <1>1, <1>3, <1>4 DEF SessionInv, ReadyInv
  <2>3. ReadyInv'
    BY <1>1, <1>5, <1>6, <1>7, <2>2 DEF SessionInv, ReadyInv, LoopTypeOK
  <2>4. QED
    BY <2>1, <2>3
<1>12. QED
  BY <1>8, <1>9, <1>10, <1>11 DEF SessionInv

\* Every step keeps SessionInv when discs are ejected and not yanked.
LEMMA SessionNext == ASSUME Calm, JInv, [Next]_vars PROVE JInv'
<1>1. IInv' /\ OpenInv'
  BY StepI, OpenNext DEF JInv, Calm
<1>2. SessionInv'
  <2>1. Loop \in Threads /\ Hook \in Threads /\ LeakFree
    BY Two DEF Calm
  <2>2. CASE Quiet
    BY <2>2, QuietSession
  <2>3. CASE LoopStep
    BY <2>1, <2>2, <2>3, TeardownSession, ReturnSession, StartSession, EndSession, CallSession
       DEF LoopStep, Quiet
  <2>4. CASE HookStep
    BY <2>1, <2>4, ReturnSession, CallSession DEF HookStep
  <2>5. CASE Environment
    BY <2>2, <2>5, AskSession DEF Environment, Quiet
  <2>6. QED
    BY <2>2, <2>3, <2>4, <2>5 DEF Next, Quiet, Exited
<1>3. QED
  BY <1>1, <1>2 DEF JInv

\* No source is opened while a session of ours has it open: the hold-off lasts
\* until the eject hook is through with the disc and the volume is gone.
THEOREM SessionsExclusive == ASSUME Calm PROVE Spec => []OneSession
<1>1. Init => JInv
  BY InitI, InitOpen, InitSession DEF Init, JInv
<1>2. JInv /\ [Next]_vars => JInv'
  BY SessionNext
<1>3. JInv => OneSession
  BY DEF JInv, SessionInv
<1>4. QED
  BY <1>1, <1>2, <1>3, PTL DEF Spec

\* The loop opens no source that is held off when it comes to it, however long
\* the mounts before it took and whatever the eject hook did meanwhile.
THEOREM MountsReady == ASSUME Calm PROVE Spec => MountOnlyReady
<1>1. Init => JInv
  BY InitI, InitOpen, InitSession DEF Init, JInv
<1>2. JInv /\ [Next]_vars => JInv'
  BY SessionNext
<1>3. ASSUME JInv, [Next]_vars, NEW s \in Sources, round # s, round' = s
      PROVE  released[s] = "no"
  <2>1. round' \notin Rounds
    BY <1>3, RoundsAssumption
  <2>2. PICK r \in Sources : StartMount(r)
    BY <1>3, <2>1
       DEF Next, LoopStep, HookStep, Environment, Exited, Tick, Forgotten, Scan, EndRound, Drained,
           Exit, Forget, PassOver, EndMount, Drain, Signal, Approve, Unmount, Clock, BackoffOver,
           Insert, Vanish, Ask, loopVars, vars, Rounds
  <2>3. r = s /\ s \in todo /\ round = "mount"
    BY <1>3, <2>2 DEF StartMount
  <2>4. QED
    BY <1>3, <2>3 DEF JInv, SessionInv, ReadyInv
<1>4. JInv /\ [Next]_vars =>
        [\A s \in Sources : round # s /\ round' = s => released[s] = "no"]_vars
  BY <1>3
<1>5. QED
  BY <1>1, <1>2, <1>4, PTL DEF Spec, MountOnlyReady

-----------------------------------------------------------------------------
(* When, besides, no two sources share a mountpoint *)

\* Every step keeps LiveInv when also no two sources share a mountpoint.
LEMMA LiveNext ==
    ASSUME Calm, OwnMountpoints, JInv, LiveInv, [Next]_vars
    PROVE  LiveInv'
<1>1. /\ IInv /\ DiscInv /\ DiscTypeOK /\ LoopInv /\ OneSession /\ ReleaseInv /\ LeakFree
      /\ Loop \in Threads /\ Hook \in Threads
      /\ call \in [Threads -> Call]
  BY Two DEF JInv, SessionInv, IInv, DiscInv, DiscTypeOK, Calm
<1>2. CASE Quiet
  <2>1. UNCHANGED <<disc, registry, call>>
    BY <1>1, <1>2, QuietDisc
  <2>2. view' = view
    BY <1>1, <1>2, NamesAssumption
       DEF Quiet, Tick, Scan, EndRound, Exit, Signal, Unmount, PassOver, Clock, Insert, Vanish,
           Settle, BackoffOver, HelperExits, Ask, vars, discVars, ReleaseInv
  <2>3. QED
    BY <2>1, <2>2, SameViews
<1>3. ASSUME NEW t \in Threads, At(t, "returned"), call' = [call EXCEPT ![t] = Idle],
             UNCHANGED <<view, registry, disc>>
      PROVE  LiveInv'
  <2>1. \A u \in Threads : call'[u].pc = "publish" => call'[u] = call[u]
    BY <1>1, <1>3 DEF Idle
  <2>2. QED
    BY <1>3, <2>1, SameViews
<1>4. ASSUME NEW t \in Threads, NEW m \in Mounts, NEW b \in BOOLEAN, Known(m), Teardown(t, m, b)
      PROVE  LiveInv'
  <2>1. /\ registry' = registry /\ view' = view
        /\ call'[t].pc \in {"deregister", "returned"}
        /\ \A u \in Threads \ {t} : call'[u] = call[u]
        /\ \A n \in Mounts : disc'[n].src = disc[n].src
    BY <1>1, <1>4, CallTeardown
  <2>2. \A u \in Threads : call'[u].pc = "publish" => call'[u] = call[u] /\ call[u].disc \in Mounts
    BY <1>1, <2>1, CallOnMount DEF Mounting
  <2>3. QED
    BY <2>1, <2>2, SameViews
<1>5. ASSUME NEW s \in Sources, Forget(s) \/ Drain(s) PROVE LiveInv'
  <2>1. active[s] \in Mounts /\ Known(active[s])
    BY <1>1, <1>5 DEF LoopInv, TodoInv, ActiveInv, Forget, Drain
  <2>2. CASE UNCHANGED <<view, registry, disc, call>>
    BY <2>2, SameViews
  <2>3. CASE Teardown(Loop, active[s], TRUE)
    BY <1>1, <1>4, <2>1, <2>3
  <2>4. QED
    BY <1>5, <2>2, <2>3 DEF Forget, Drain
<1>6. ASSUME NEW s \in Sources, StartMount(s) PROVE LiveInv'
  <2>1. Open(Loop, s)
    BY <1>6 DEF StartMount
  <2>2. /\ UNCHANGED <<registry, view>>
        /\ \A u \in Threads \ {Loop} : call'[u] = call[u]
        /\ \A n \in Mounts : Known(n) => disc'[n] = disc[n]
        /\ call'[Loop].pc # "publish"
    BY <1>1, <2>1, OpenEffect
  <2>3. ASSUME NEW u \in Threads, call'[u].pc = "publish"
        PROVE  /\ call'[u] = call[u]
               /\ disc'[call[u].disc].src = disc[call[u].disc].src
    <3>1. call'[u] = call[u] /\ Mounting(u)
      BY <2>2, <2>3 DEF Mounting
    <3>2. call[u].disc \in Mounts /\ disc[call[u].disc] # Unused
      BY <1>1, <3>1, OpenAtWork DEF Unused
    <3>3. disc' = disc \/ \E m \in Mounts : disc[m] = Unused /\ \A n \in Mounts \ {m} : disc'[n] = disc[n]
      BY <1>1, <2>1, OpenEffect
    <3>4. QED
      BY <3>1, <3>2, <3>3
  <2>4. QED
    BY <2>2, <2>3, SameViews DEF Known
<1>7. CASE Step(Loop) \/ Step(Hook)
  BY <1>1, <1>7, StepLive
<1>8. CASE Forgotten \/ Drained \/ Approve \/ \E s \in Sources : EndMount(s)
  BY <1>1, <1>3, <1>8 DEF Forgotten, Drained, Approve, EndMount
<1>9. ASSUME NEW path \in Asks, Ask(path), FindByPath(path) # None PROVE LiveInv'
  <2>1. FindByPath(path) \in Mounts /\ Known(FindByPath(path))
    BY <1>1, <1>9, FindByPathFinds DEF Known
  <2>2. \E b \in BOOLEAN : Teardown(Hook, FindByPath(path), b)
    BY <1>9 DEF Ask
  <2>3. QED
    BY <1>1, <1>4, <2>1, <2>2
<1>10. QED
  BY <1>2, <1>5, <1>6, <1>7, <1>8, <1>9
     DEF Next, LoopStep, HookStep, Environment, Exited, Quiet

\* A mount in the registry is what is mounted at its mountpoint: no sibling and
\* no teardown takes the view of a disc that is being served.
THEOREM LiveViews == ASSUME Calm, OwnMountpoints PROVE Spec => []LiveHasView
<1>1. Init => JInv /\ LiveInv
  BY InitI, InitOpen, InitSession, InitLive DEF Init, JInv
<1>2. JInv /\ LiveInv /\ [Next]_vars => (JInv /\ LiveInv)'
  BY SessionNext, LiveNext
<1>3. JInv /\ LiveInv => LiveHasView
  BY DEF LiveInv
<1>4. QED
  BY <1>1, <1>2, <1>3, PTL DEF Spec
=============================================================================
