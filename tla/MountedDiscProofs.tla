------------------------- MODULE MountedDiscProofs -------------------------
(***************************************************************************)
(* What the mounts and teardowns of MountedDisc keep, whatever loop and    *)
(* whatever callback run them: the lemmas that the proofs about Watch,     *)
(* MountMode and EjectCommand share.                                       *)
(***************************************************************************)
EXTENDS MountedDisc, VectorsProofs, TLAPS

-----------------------------------------------------------------------------
(* The inductive invariant of the calls *)

Mounting(t) == call[t].pc \in {"prepare", "nfs", "publish"}
Tearing(t)  == call[t].pc \in {"deregister", "unmount", "shutdown", "helpers", "wait"}

\* A mount under way is in no list yet and has a session and a server.
MountingInv ==
    \A t \in Threads : Mounting(t) =>
        /\ ~InRegistry(call[t].disc)
        /\ disc[call[t].disc].src \in Sources
        /\ disc[call[t].disc].engine = "open" /\ disc[call[t].disc].server
        /\ ~disc[call[t].disc].tornDown

\* A teardown under way is marked, and open until it is out of the list and its
\* engine is shut down.
TearingInv ==
    \A t \in Threads : Tearing(t) =>
        /\ disc[call[t].disc].tornDown /\ disc[call[t].disc].src \in Sources
        /\ call[t].pc # "deregister" => ~InRegistry(call[t].disc)
        /\ disc[call[t].disc].engine =
              IF call[t].pc \in {"helpers", "wait"} THEN "closed" ELSE "open"

\* No two threads work on the same mount.
ApartInv ==
    \A t, u \in Threads : (Mounting(t) \/ Tearing(t)) /\ (Mounting(u) \/ Tearing(u)) /\ t # u
        => call[t].disc # call[u].disc

\* A mount that is in the registry is open and served.
RegisteredInv ==
    \A m \in Mounts : InRegistry(m) =>
        disc[m].src \in Sources /\ disc[m].engine = "open" /\ disc[m].server

\* A mount that is marked as torn down and still open has its thread.
TornInv ==
    \A m \in Mounts : disc[m].tornDown /\ disc[m].engine = "open" =>
        \E t \in Threads : /\ call[t].pc \in {"deregister", "unmount", "shutdown"}
                           /\ call[t].disc = m

CallsInv == MountingInv /\ TearingInv /\ ApartInv /\ RegisteredInv /\ TornInv

DiscInv == DiscTypeOK /\ CallsInv

-----------------------------------------------------------------------------
(* Every step of a call keeps it *)

\* No mount and no call to begin with.
LEMMA InitDisc == ASSUME NEW present \in SUBSET Sources, DiscInit(present) PROVE DiscInv
BY NamesAssumption
   DEF DiscInit, DiscInv, CallsInv, DiscTypeOK, MountingInv, TearingInv, ApartInv,
       RegisteredInv, TornInv, Mounting, Tearing, InRegistry, Unused, Idle, Inner, Call

\* A call that is under way is on a mount.
LEMMA CallOnMount ==
    ASSUME DiscTypeOK, NEW t \in Threads, Mounting(t) \/ Tearing(t)
    PROVE  call[t].disc \in Mounts
BY DEF DiscTypeOK, Mounting, Tearing, Call

\* A mount that nothing uses: not in the registry, and in no call.
LEMMA FreshUnused ==
    ASSUME DiscInv, NEW m \in Fresh
    PROVE  /\ m \in Mounts /\ disc[m] = Unused /\ ~InRegistry(m)
           /\ \A t \in Threads : Mounting(t) \/ Tearing(t) => call[t].disc # m
<1>1. m \in Mounts /\ disc[m] = Unused /\ disc[m].src = None
  BY DEF Fresh, Unused
<1>2. QED
  BY <1>1, NamesAssumption DEF DiscInv, CallsInv, DiscTypeOK, MountingInv, TearingInv

\* A step of t that changes nothing but its call and the mount m, on which no
\* other thread works, keeps the invariant if it keeps it for t and m.
LEMMA LocalStep ==
    ASSUME CallsInv, DiscTypeOK, NEW t \in Threads, NEW m \in Mounts,
           \A n \in Mounts \ {m} : disc'[n] = disc[n] /\ (InRegistry(n)' <=> InRegistry(n)),
           \A u \in Threads \ {t} :
               call'[u] = call[u] /\ (Mounting(u) \/ Tearing(u) => call[u].disc # m),
           Mounting(t) \/ Tearing(t) => call[t].disc = m,
           Mounting(t)' \/ Tearing(t)' => call'[t].disc = m,
           Mounting(t)' => /\ ~InRegistry(m)' /\ disc'[m].src \in Sources
                           /\ disc'[m].engine = "open" /\ disc'[m].server /\ ~disc'[m].tornDown,
           Tearing(t)' => /\ disc'[m].tornDown /\ disc'[m].src \in Sources
                          /\ call'[t].pc # "deregister" => ~InRegistry(m)'
                          /\ disc'[m].engine =
                                IF call'[t].pc \in {"helpers", "wait"} THEN "closed" ELSE "open",
           InRegistry(m)' => disc'[m].src \in Sources /\ disc'[m].engine = "open" /\ disc'[m].server,
           disc'[m].tornDown /\ disc'[m].engine = "open" =>
               call'[t].pc \in {"deregister", "unmount", "shutdown"} /\ call'[t].disc = m
    PROVE  CallsInv'
<1>1. ASSUME NEW u \in Threads \ {t}, Mounting(u) \/ Tearing(u)
      PROVE  /\ call'[u] = call[u] /\ disc'[call[u].disc] = disc[call[u].disc]
             /\ InRegistry(call[u].disc)' <=> InRegistry(call[u].disc)
  BY <1>1, CallOnMount DEF CallsInv, InRegistry
<1>2. MountingInv'
  <2> SUFFICES ASSUME NEW u \in Threads, Mounting(u)'
               PROVE  /\ ~InRegistry(call[u].disc)'
                      /\ disc'[call'[u].disc].src \in Sources
                      /\ disc'[call'[u].disc].engine = "open" /\ disc'[call'[u].disc].server
                      /\ ~disc'[call'[u].disc].tornDown
    BY DEF MountingInv
  <2>1. CASE u = t
    BY <2>1 DEF InRegistry
  <2>2. CASE u # t
    <3>1. Mounting(u) /\ call'[u] = call[u]
      BY <2>2 DEF Mounting
    <3>2. QED
      BY <2>2, <3>1, <1>1 DEF CallsInv, MountingInv, InRegistry
  <2>3. QED
    BY <2>1, <2>2
<1>3. TearingInv'
  <2> SUFFICES ASSUME NEW u \in Threads, Tearing(u)'
               PROVE  /\ disc'[call'[u].disc].tornDown /\ disc'[call'[u].disc].src \in Sources
                      /\ call'[u].pc # "deregister" => ~InRegistry(call[u].disc)'
                      /\ disc'[call'[u].disc].engine =
                            IF call'[u].pc \in {"helpers", "wait"} THEN "closed" ELSE "open"
    BY DEF TearingInv
  <2>1. CASE u = t
    BY <2>1 DEF InRegistry
  <2>2. CASE u # t
    <3>1. Tearing(u) /\ call'[u] = call[u]
      BY <2>2 DEF Tearing
    <3>2. QED
      BY <2>2, <3>1, <1>1 DEF CallsInv, TearingInv, InRegistry
  <2>3. QED
    BY <2>1, <2>2
<1>4. ApartInv'
  BY DEF CallsInv, ApartInv, Mounting, Tearing
<1>5. RegisteredInv'
  BY DEF CallsInv, RegisteredInv
<1>6. TornInv'
  <2> SUFFICES ASSUME NEW n \in Mounts, disc'[n].tornDown, disc'[n].engine = "open"
               PROVE  \E u \in Threads : /\ call'[u].pc \in {"deregister", "unmount", "shutdown"}
                                         /\ call'[u].disc = n
    BY DEF TornInv
  <2>1. CASE n = m
    BY <2>1
  <2>2. CASE n # m
    <3>1. PICK u \in Threads : /\ call[u].pc \in {"deregister", "unmount", "shutdown"}
                               /\ call[u].disc = n
      BY <2>2 DEF CallsInv, TornInv
    <3>2. u # t
      BY <2>2, <3>1 DEF Tearing
    <3>3. QED
      BY <3>1, <3>2
  <2>3. QED
    BY <2>1, <2>2
<1>7. QED
  BY <1>2, <1>3, <1>4, <1>5, <1>6 DEF CallsInv

\* A call that begins with an error, or ends, and changes nothing but itself.
LEMMA CallStep ==
    ASSUME DiscInv, NEW t \in Threads, UNCHANGED <<disc, registry, volumes, view>>,
           ~Mounting(t), ~(call[t].pc \in {"deregister", "unmount", "shutdown"}),
           call' \in [Threads -> Call], \A u \in Threads \ {t} : call'[u] = call[u],
           call'[t].pc \in {"idle", "returned"},
           released' \in [Sources -> {"no", "settling", "settled"}], helpers' \subseteq Mounts
    PROVE  DiscInv'
<1>1. DiscTypeOK'
  BY DEF DiscInv, DiscTypeOK, InRegistry
<1>2. \A m : InRegistry(m)' <=> InRegistry(m)
  BY DEF InRegistry
<1>3. MountingInv' /\ TearingInv' /\ ApartInv' /\ RegisteredInv'
  BY <1>2 DEF DiscInv, CallsInv, MountingInv, TearingInv, ApartInv, RegisteredInv, Mounting, Tearing,
              InRegistry
<1>4. TornInv'
  BY DEF DiscInv, CallsInv, TornInv
<1>5. QED
  BY <1>1, <1>3, <1>4 DEF DiscInv, CallsInv

\* DiscInv when a disc is opened: its number is new.
LEMMA OpenStep ==
    ASSUME DiscInv, NEW t \in Threads, NEW s \in Sources, Open(t, s)
    PROVE  DiscInv'
<1> USE DEF DiscInv
<1>1. registry' = registry /\ UNCHANGED <<volumes, view, released>> /\ call[t].pc = "idle"
  BY DEF Open, At
<1>2. ASSUME UNCHANGED <<disc, helpers>>,
             call' = [call EXCEPT ![t] = [Idle EXCEPT !.pc = "returned", !.ok = FALSE]]
      PROVE  DiscInv'
  <2>1. [Idle EXCEPT !.pc = "returned", !.ok = FALSE] \in Call
    BY DEF Idle, Call
  <2>2. /\ call' \in [Threads -> Call] /\ call'[t].pc = "returned"
        /\ \A u \in Threads \ {t} : call'[u] = call[u]
    BY <1>2, <2>1 DEF DiscTypeOK, Idle
  <2>3. QED
    BY <1>1, <1>2, <2>2, CallStep DEF DiscTypeOK, Mounting
<1>3. ASSUME NEW m \in Fresh,
             disc' = [disc EXCEPT ![m] = [@ EXCEPT !.src = s, !.engine = "open", !.server = TRUE]],
             helpers' = helpers \cup {m},
             call' = [call EXCEPT ![t] = [Idle EXCEPT !.pc = "prepare", !.disc = m]]
      PROVE  DiscInv'
  <2>1. /\ m \in Mounts /\ disc[m] = Unused /\ ~InRegistry(m)
        /\ \A u \in Threads : Mounting(u) \/ Tearing(u) => call[u].disc # m
    BY FreshUnused
  <2>2. /\ disc'[m] = [Unused EXCEPT !.src = s, !.engine = "open", !.server = TRUE]
        /\ \A n \in Mounts \ {m} : disc'[n] = disc[n]
    BY <1>3, <2>1 DEF DiscTypeOK
  <2>3. /\ disc'[m] \in Inner
        /\ disc'[m].src = s /\ disc'[m].engine = "open" /\ disc'[m].server /\ ~disc'[m].tornDown
    BY <2>2 DEF Inner, Unused
  <2>4. [Idle EXCEPT !.pc = "prepare", !.disc = m] \in Call
    BY <2>1 DEF Idle, Call
  <2>5. /\ call'[t].pc = "prepare" /\ call'[t].disc = m
        /\ \A u \in Threads \ {t} : call'[u] = call[u]
    BY <1>3 DEF DiscTypeOK, Idle
  <2>6. m # None /\ s # None
    BY <2>1, NamesAssumption
  <2>7. disc' \in [Mounts -> Inner] /\ call' \in [Threads -> Call]
    BY <1>3, <2>1, <2>2, <2>3, <2>4 DEF DiscTypeOK
  <2>8. \A n : InRegistry(n)' <=> InRegistry(n)
    BY <1>1 DEF InRegistry
  <2>9. DiscTypeOK'
    BY <1>1, <1>3, <2>1, <2>2, <2>5, <2>6, <2>7, <2>8 DEF DiscTypeOK
  <2>10. ~Mounting(t) /\ ~Tearing(t) /\ ~Tearing(t)'
    BY <1>1, <2>5 DEF Mounting, Tearing
  <2>11. CallsInv'
    <3>1. /\ \A n \in Mounts \ {m} : disc'[n] = disc[n] /\ (InRegistry(n)' <=> InRegistry(n))
          /\ \A u \in Threads \ {t} :
               call'[u] = call[u] /\ (Mounting(u) \/ Tearing(u) => call[u].disc # m)
      BY <2>1, <2>2, <2>5, <2>8
    <3>2. disc'[m].src \in Sources /\ ~InRegistry(m)'
      BY <2>1, <2>3, <2>8
    <3>3. QED
      BY <2>1, <2>3, <2>5, <2>10, <3>1, <3>2, LocalStep
  <2>12. QED
    BY <2>9, <2>11
<1>4. QED
  BY <1>2, <1>3 DEF Open

\* The mount that a call works on is its own.
LEMMA OwnMount ==
    ASSUME DiscInv, NEW t \in Threads, NEW m, Mounting(t) \/ Tearing(t), m = call[t].disc
    PROVE  /\ m \in Mounts /\ disc[m] \in Inner /\ call[t] \in Call
           /\ disc[m].src \in Sources /\ disc[m].src # None
           /\ \A u \in Threads \ {t} : Mounting(u) \/ Tearing(u) => call[u].disc # m
BY CallOnMount, NamesAssumption DEF DiscInv, CallsInv, DiscTypeOK, ApartInv, MountingInv, TearingInv

\* A step of a call that changes only where the call is.
LEMMA MoveStep ==
    ASSUME DiscInv, NEW t \in Threads, NEW m, m = call[t].disc, Mounting(t) \/ Tearing(t),
           UNCHANGED <<disc, registry, volumes, released>>,
           view' \in [Labels -> Mounts \cup {None}], helpers' \subseteq Mounts,
           call' \in [Threads -> Call], \A u \in Threads \ {t} : call'[u] = call[u],
           call'[t].disc = m,
           Mounting(t) => Mounting(t)' \/ call'[t].pc = "returned",
           Tearing(t) => /\ call[t].pc # "deregister"
                         /\ \/ call'[t].pc = "wait" /\ call[t].pc = "helpers"
                            \/ call'[t].pc = "returned" /\ call[t].pc = "wait"
    PROVE  DiscInv'
<1>1. /\ m \in Mounts /\ disc[m] \in Inner /\ call[t] \in Call
      /\ disc[m].src \in Sources /\ disc[m].src # None
      /\ \A u \in Threads \ {t} : Mounting(u) \/ Tearing(u) => call[u].disc # m
  BY OwnMount
<1>2. \A n : InRegistry(n)' <=> InRegistry(n)
  BY DEF InRegistry
<1>3. m # None
  BY <1>1, NamesAssumption
<1>4. DiscTypeOK'
  BY <1>1, <1>2, <1>3 DEF DiscInv, DiscTypeOK
<1>5. /\ Mounting(t)' => Mounting(t)
      /\ Tearing(t)' => call'[t].pc = "wait" /\ call[t].pc = "helpers"
  BY DEF Mounting, Tearing
<1>6. /\ Mounting(t)' => /\ ~InRegistry(m)' /\ disc'[m].src \in Sources
                         /\ disc'[m].engine = "open" /\ disc'[m].server /\ ~disc'[m].tornDown
      /\ Tearing(t)' => /\ disc'[m].tornDown /\ disc'[m].src \in Sources
                        /\ call'[t].pc # "deregister" => ~InRegistry(m)'
                        /\ disc'[m].engine =
                              IF call'[t].pc \in {"helpers", "wait"} THEN "closed" ELSE "open"
  BY <1>2, <1>5 DEF DiscInv, CallsInv, MountingInv, TearingInv, Tearing
<1>7. InRegistry(m)' => disc'[m].src \in Sources /\ disc'[m].engine = "open" /\ disc'[m].server
  BY <1>1, <1>2 DEF DiscInv, CallsInv, RegisteredInv
<1>8. ~(disc'[m].tornDown /\ disc'[m].engine = "open")
  <2>1. CASE Mounting(t)
    BY <2>1 DEF DiscInv, CallsInv, MountingInv
  <2>2. CASE Tearing(t)
    BY <2>2 DEF DiscInv, CallsInv, TearingInv
  <2>3. QED
    BY <2>1, <2>2
<1>9. CallsInv'
  <2>1. DiscTypeOK /\ CallsInv
    BY DEF DiscInv
  <2>2. /\ \A n \in Mounts \ {m} : disc'[n] = disc[n] /\ (InRegistry(n)' <=> InRegistry(n))
        /\ \A u \in Threads \ {t} :
               call'[u] = call[u] /\ (Mounting(u) \/ Tearing(u) => call[u].disc # m)
    BY <1>1, <1>2
  <2>3. call[t].disc = m /\ call'[t].disc = m
    OBVIOUS
  <2>4. QED
    BY <1>1, <1>6, <1>7, <1>8, <2>1, <2>2, <2>3, LocalStep
<1>10. QED
  BY <1>4, <1>9 DEF DiscInv

\* Any step that only the OS takes: a mount, an unmount, a helper, the clock.
LEMMA QuietStep ==
    ASSUME DiscInv, UNCHANGED <<disc, registry, call>>, volumes' \subseteq Sources,
           view' \in [Labels -> Mounts \cup {None}], helpers' \subseteq Mounts,
           released' \in [Sources -> {"no", "settling", "settled"}]
    PROVE  DiscInv'
<1>1. \A n : InRegistry(n)' <=> InRegistry(n)
  BY DEF InRegistry
<1>2. DiscTypeOK'
  BY <1>1 DEF DiscInv, DiscTypeOK
<1>3. MountingInv' /\ TearingInv'
  BY DEF DiscInv, CallsInv, MountingInv, TearingInv, Mounting, Tearing, InRegistry
<1>4. ApartInv' /\ RegisteredInv' /\ TornInv'
  BY <1>1 DEF DiscInv, CallsInv, ApartInv, RegisteredInv, TornInv, Mounting, Tearing
<1>5. QED
  BY <1>2, <1>3, <1>4 DEF DiscInv, CallsInv

\* Where a step puts its call.
LEMMA GotoCall ==
    ASSUME DiscTypeOK, NEW t \in Threads, NEW pc, Goto(t, pc), [call[t] EXCEPT !.pc = pc] \in Call
    PROVE  /\ call' \in [Threads -> Call] /\ \A u \in Threads \ {t} : call'[u] = call[u]
           /\ call'[t] = [call[t] EXCEPT !.pc = pc]
           /\ call'[t].pc = pc /\ call'[t].disc = call[t].disc
BY DEF DiscTypeOK, Goto, Call

\* A call moves on; the others stay.
LEMMA GotoMoves ==
    ASSUME DiscTypeOK, NEW t \in Threads, NEW pc, Goto(t, pc)
    PROVE  /\ call'[t].pc = pc /\ call'[t].disc = call[t].disc
           /\ \A u \in Threads \ {t} : call'[u] = call[u]
<1>1. call[t] \in Call /\ call \in [Threads -> Call]
  BY DEF DiscTypeOK
<1>2. /\ call'[t] = [call[t] EXCEPT !.pc = pc]
      /\ \A u \in Threads \ {t} : call'[u] = call[u]
  BY <1>1 DEF Goto
<1>3. QED
  BY <1>1, <1>2 DEF Call

\* UnmountView marks its mount, and forgets neither where it is nor its server.
LEMMA UnmountFields ==
    ASSUME DiscTypeOK, NEW t \in Threads, NEW m \in Mounts, m = call[t].disc, UnmountView(t)
    PROVE  /\ call'[t].pc = "shutdown" /\ call'[t].disc = m
           /\ \A u \in Threads \ {t} : call'[u] = call[u]
           /\ \A n \in Mounts \ {m} : disc'[n] = disc[n]
           /\ disc'[m].src = disc[m].src /\ disc'[m].server = disc[m].server
           /\ disc'[m].engine = disc[m].engine /\ disc'[m].tornDown = disc[m].tornDown
           /\ \/ disc'[m].left = disc[m].left /\ Unmounted(Mountpoint(m))
              \/ disc'[m].left
<1>1. /\ call[t] \in Call /\ call \in [Threads -> Call]
      /\ disc[m] \in Inner /\ disc \in [Mounts -> Inner]
  BY DEF DiscTypeOK
<1>2. CASE Goto(t, "shutdown") /\ Unmounted(Mountpoint(m)) /\ disc' = [disc EXCEPT ![m].mounted = FALSE]
  <2>1. /\ disc'[m] = [disc[m] EXCEPT !.mounted = FALSE]
        /\ \A n \in Mounts \ {m} : disc'[n] = disc[n]
    BY <1>1, <1>2
  <2>2. QED
    BY <1>1, <1>2, <2>1, GotoMoves DEF Inner
<1>3. CASE disc' = [disc EXCEPT ![m].mounted = FALSE, ![m].left = TRUE]
  <2>1. /\ disc'[m] = [disc[m] EXCEPT !.mounted = FALSE, !.left = TRUE]
        /\ \A n \in Mounts \ {m} : disc'[n] = disc[n]
    BY <1>1, <1>3
  <2>2. /\ disc'[m].src = disc[m].src /\ disc'[m].server = disc[m].server /\ disc'[m].left
        /\ disc'[m].engine = disc[m].engine /\ disc'[m].tornDown = disc[m].tornDown
    BY <1>1, <2>1 DEF Inner
  <2>3. Goto(t, "shutdown") \/ call' = [call EXCEPT ![t].pc = "shutdown", ![t].ok = FALSE]
    BY DEF UnmountView
  <2>4. CASE Goto(t, "shutdown")
    BY <2>1, <2>2, <2>4, GotoMoves
  <2>5. CASE call' = [call EXCEPT ![t].pc = "shutdown", ![t].ok = FALSE]
    <3>1. /\ call'[t] = [call[t] EXCEPT !.pc = "shutdown", !.ok = FALSE]
          /\ \A u \in Threads \ {t} : call'[u] = call[u]
      BY <1>1, <2>5
    <3>2. call'[t].pc = "shutdown" /\ call'[t].disc = m
      BY <1>1, <3>1 DEF Call
    <3>3. QED
      BY <2>1, <2>2, <3>1, <3>2
  <2>6. QED
    BY <2>3, <2>4, <2>5
<1>4. QED
  BY <1>2, <1>3 DEF UnmountView

\* Deregister moves its call on, and changes no mount.
LEMMA DeregisterFields ==
    ASSUME DiscTypeOK, NEW t \in Threads, Deregister(t)
    PROVE  /\ call'[t].pc = "unmount" /\ call'[t].disc = call[t].disc
           /\ \A u \in Threads \ {t} : call'[u] = call[u]
           /\ disc' = disc
<1>1. PICK others : call' = [call EXCEPT ![t].pc = "unmount", ![t].others = others]
  BY DEF Deregister
<1>2. call[t] \in Call /\ call \in [Threads -> Call]
  BY DEF DiscTypeOK
<1>3. /\ call'[t] = [call[t] EXCEPT !.pc = "unmount", !.others = others]
      /\ \A u \in Threads \ {t} : call'[u] = call[u]
  BY <1>1, <1>2
<1>4. QED
  BY <1>2, <1>3 DEF Call, Deregister

\* A call returns; the others stay.
LEMMA ReturnCall ==
    ASSUME DiscTypeOK, NEW t \in Threads, NEW ok \in BOOLEAN, Return(t, ok)
    PROVE  /\ call' \in [Threads -> Call] /\ \A u \in Threads \ {t} : call'[u] = call[u]
           /\ call'[t].pc = "returned" /\ call'[t].disc = call[t].disc /\ call'[t].ok = ok
BY DEF DiscTypeOK, Return, Call

\* DiscInv over the preparing of the mountpoint.
LEMMA PrepareStep ==
    ASSUME DiscInv, NEW t \in Threads, PrepareMountpoint(t) PROVE DiscInv'
<1> SUFFICES ASSUME NEW m, m = call[t].disc PROVE DiscInv'
  OBVIOUS
<1>1. /\ Mounting(t) /\ ~Tearing(t) /\ call[t].pc = "prepare"
      /\ UNCHANGED <<volumes, registry, released, disc, helpers>>
  BY DEF PrepareMountpoint, At, Mounting, Tearing
<1>2. view' \in [Labels -> Mounts \cup {None}] /\ helpers' \subseteq Mounts
  BY <1>1 DEF PrepareMountpoint, Unmounted, UnmountFailed, DiscInv, DiscTypeOK
<1>3. CASE Goto(t, "nfs")
  <2>1. [call[t] EXCEPT !.pc = "nfs"] \in Call
    BY DEF DiscInv, DiscTypeOK, Call
  <2>2. QED
    BY <1>1, <1>2, <1>3, <2>1, GotoCall, MoveStep DEF DiscInv, Mounting
<1>4. CASE Return(t, FALSE)
  BY <1>1, <1>2, <1>4, ReturnCall, MoveStep DEF DiscInv
<1>5. QED
  BY <1>3, <1>4 DEF PrepareMountpoint

\* DiscInv over mount_nfs.
LEMMA MountNfsStep ==
    ASSUME DiscInv, NEW t \in Threads, RunMountNfs(t) PROVE DiscInv'
<1> SUFFICES ASSUME NEW m, m = call[t].disc PROVE DiscInv'
  OBVIOUS
<1>1. /\ Mounting(t) /\ ~Tearing(t) /\ call[t].pc = "nfs"
      /\ UNCHANGED <<volumes, registry, released>>
  BY DEF RunMountNfs, At, Mounting, Tearing
<1>2. /\ m \in Mounts /\ disc[m] \in Inner /\ disc[m].src \in Sources
      /\ \A u \in Threads \ {t} : Mounting(u) \/ Tearing(u) => call[u].disc # m
  BY <1>1, OwnMount
<1>3. ASSUME view' = [view EXCEPT ![Mountpoint(m)] = m], Goto(t, "publish"), UNCHANGED <<disc, helpers>>
      PROVE  DiscInv'
  <2>1. [call[t] EXCEPT !.pc = "publish"] \in Call
    BY DEF DiscInv, DiscTypeOK, Call
  <2>2. view' \in [Labels -> Mounts \cup {None}] /\ helpers' \subseteq Mounts
    BY <1>2, <1>3 DEF DiscInv, DiscTypeOK
  <2>3. QED
    BY <1>1, <1>3, <2>1, <2>2, GotoCall, MoveStep DEF DiscInv, Mounting
<1>4. ASSUME disc' = [disc EXCEPT ![m] = Unused], helpers' = helpers \ {m}, Return(t, FALSE),
             UNCHANGED view
      PROVE  DiscInv'
  <2>1. disc'[m] = Unused /\ \A n \in Mounts \ {m} : disc'[n] = disc[n]
    BY <1>2, <1>4 DEF DiscInv, DiscTypeOK
  <2>2. disc' \in [Mounts -> Inner] /\ disc'[m].engine # "open"
    <3>1. Unused \in Inner /\ Unused.engine # "open"
      BY DEF Unused, Inner
    <3>2. QED
      BY <1>4, <2>1, <3>1 DEF DiscInv, DiscTypeOK
  <2>3. /\ call' \in [Threads -> Call] /\ \A u \in Threads \ {t} : call'[u] = call[u]
        /\ call'[t].pc = "returned"
    BY <1>4, ReturnCall DEF DiscInv
  <2>4. \A n : InRegistry(n)' <=> InRegistry(n)
    BY <1>1 DEF InRegistry
  <2>5. ~InRegistry(m)
    BY <1>1 DEF DiscInv, CallsInv, MountingInv
  <2>6. DiscTypeOK'
    BY <1>1, <1>4, <2>1, <2>2, <2>3, <2>4, <2>5 DEF DiscInv, DiscTypeOK
  <2>7. ~Mounting(t)' /\ ~Tearing(t)'
    BY <2>3 DEF Mounting, Tearing
  <2>8. CallsInv'
    <3>1. /\ \A n \in Mounts \ {m} : disc'[n] = disc[n] /\ (InRegistry(n)' <=> InRegistry(n))
          /\ \A u \in Threads \ {t} :
               call'[u] = call[u] /\ (Mounting(u) \/ Tearing(u) => call[u].disc # m)
      BY <1>2, <2>1, <2>3, <2>4
    <3>2. CallsInv /\ DiscTypeOK /\ ~InRegistry(m)'
      BY <2>4, <2>5 DEF DiscInv
    <3>3. QED
      BY <1>2, <2>2, <2>7, <3>1, <3>2, LocalStep
  <2>9. QED
    BY <2>6, <2>8 DEF DiscInv
<1>5. QED
  BY <1>3, <1>4 DEF RunMountNfs

\* DiscInv when a mount enters the registry.
LEMMA PublishStep ==
    ASSUME DiscInv, NEW t \in Threads, Publish(t) PROVE DiscInv'
<1> SUFFICES ASSUME NEW m, m = call[t].disc PROVE DiscInv'
  OBVIOUS
<1>1. /\ Mounting(t) /\ ~Tearing(t) /\ disc' = [disc EXCEPT ![m].mounted = TRUE]
      /\ registry' = Append(registry, m) /\ Return(t, TRUE)
      /\ UNCHANGED <<volumes, view, released, helpers>>
  BY DEF Publish, At, Mounting, Tearing
<1>2. /\ m \in Mounts /\ disc[m] \in Inner /\ disc[m].src \in Sources /\ disc[m].src # None
      /\ \A u \in Threads \ {t} : Mounting(u) \/ Tearing(u) => call[u].disc # m
  BY <1>1, OwnMount
<1>3. /\ disc'[m] = [disc[m] EXCEPT !.mounted = TRUE] /\ \A n \in Mounts \ {m} : disc'[n] = disc[n]
      /\ disc' \in [Mounts -> Inner]
  BY <1>1, <1>2 DEF DiscInv, DiscTypeOK, Inner
<1>4. /\ disc'[m].src = disc[m].src /\ disc'[m].engine = "open" /\ disc'[m].server
      /\ ~disc'[m].tornDown
  BY <1>1, <1>2, <1>3 DEF DiscInv, CallsInv, MountingInv, Inner
<1>5. /\ call' \in [Threads -> Call] /\ \A u \in Threads \ {t} : call'[u] = call[u]
      /\ call'[t].pc = "returned"
  BY <1>1, ReturnCall DEF DiscInv
<1>6. registry \in Seq(Mounts)
  BY DEF DiscInv, DiscTypeOK
<1>7. registry' \in Seq(Mounts) /\ \A n : InRegistry(n)' <=> InRegistry(n) \/ n = m
  <2>1. /\ registry' \in Seq(Mounts) /\ DOMAIN registry' = DOMAIN registry \cup {Len(registry) + 1}
        /\ registry'[Len(registry) + 1] = m
        /\ \A i \in DOMAIN registry : registry'[i] = registry[i]
    BY <1>1, <1>2, <1>6
  <2>2. QED
    BY <2>1 DEF InRegistry
<1>8. DiscTypeOK'
  <2>1. \A n \in Mounts : InRegistry(n)' => disc'[n].src # None
    BY <1>2, <1>3, <1>4, <1>7 DEF DiscInv, DiscTypeOK
  <2>2. QED
    BY <1>1, <1>3, <1>5, <1>7, <2>1 DEF DiscInv, DiscTypeOK
<1>9. ~Mounting(t)' /\ ~Tearing(t)'
  BY <1>5 DEF Mounting, Tearing
<1>10. CallsInv'
  <2>1. /\ \A n \in Mounts \ {m} : disc'[n] = disc[n] /\ (InRegistry(n)' <=> InRegistry(n))
        /\ \A u \in Threads \ {t} :
             call'[u] = call[u] /\ (Mounting(u) \/ Tearing(u) => call[u].disc # m)
    BY <1>2, <1>3, <1>5, <1>7
  <2>2. CallsInv /\ DiscTypeOK /\ disc'[m].src \in Sources
    BY <1>2, <1>4 DEF DiscInv
  <2>3. QED
    BY <1>2, <1>4, <1>9, <2>1, <2>2, LocalStep
<1>11. QED
  BY <1>8, <1>10 DEF DiscInv

\* A teardown is called for a mount in the registry, or one that another call
\* has torn down.
LEMMA TeardownStep ==
    ASSUME DiscInv, NEW t \in Threads, NEW m \in Mounts, NEW b \in BOOLEAN, Teardown(t, m, b),
           disc[m].tornDown \/ InRegistry(m)
    PROVE  DiscInv'
<1>1. /\ call[t].pc = "idle" /\ MarkReleased(disc[m].src)
      /\ disc' = [disc EXCEPT ![m].tornDown = TRUE]
      /\ call' = [call EXCEPT ![t] = [Idle EXCEPT
                      !.pc = IF disc[m].tornDown THEN "returned" ELSE "deregister",
                      !.disc = m, !.unmountView = b]]
      /\ UNCHANGED <<volumes, view, registry, helpers>>
  BY DEF Teardown, At
<1>2. released' \in [Sources -> {"no", "settling", "settled"}]
  BY <1>1 DEF MarkReleased, DiscInv, DiscTypeOK
<1>3. \A pc \in {"returned", "deregister"} :
        [Idle EXCEPT !.pc = pc, !.disc = m, !.unmountView = b] \in Call
  BY DEF Idle, Call
<1>4. /\ call' \in [Threads -> Call] /\ \A u \in Threads \ {t} : call'[u] = call[u]
      /\ call'[t].pc = (IF disc[m].tornDown THEN "returned" ELSE "deregister")
      /\ call'[t].disc = m
  BY <1>1, <1>3 DEF DiscInv, DiscTypeOK, Idle
<1>5. CASE disc[m].tornDown
  <2>1. disc' = disc
    BY <1>1, <1>5 DEF DiscInv, DiscTypeOK, Inner
  <2>2. QED
    BY <1>1, <1>2, <1>4, <1>5, <2>1, CallStep DEF DiscInv, DiscTypeOK, Mounting
<1>6. CASE ~disc[m].tornDown
  <2>0. /\ disc[m].src \in Sources /\ disc[m].engine = "open"
        /\ \A u \in Threads : Mounting(u) => call[u].disc # m
    BY <1>6 DEF DiscInv, CallsInv, RegisteredInv, MountingInv
  <2>1. /\ disc'[m] = [disc[m] EXCEPT !.tornDown = TRUE] /\ \A n \in Mounts \ {m} : disc'[n] = disc[n]
        /\ disc' \in [Mounts -> Inner]
    <3>1. disc \in [Mounts -> Inner]
      BY DEF DiscInv, DiscTypeOK
    <3>2. [disc[m] EXCEPT !.tornDown = TRUE] \in Inner
      BY <3>1 DEF Inner
    <3>3. QED
      BY ONLY <1>1, <3>1, <3>2, m \in Mounts
  <2>2. /\ disc'[m].src = disc[m].src /\ disc'[m].engine = disc[m].engine
        /\ disc'[m].server = disc[m].server /\ disc'[m].tornDown
    BY <2>1 DEF DiscInv, DiscTypeOK, Inner
  <2>3. \A n : InRegistry(n)' <=> InRegistry(n)
    BY <1>1 DEF InRegistry
  <2>4. m # None
    BY NamesAssumption
  <2>5. DiscTypeOK'
    <3>1. \A n \in Mounts : InRegistry(n)' => disc'[n].src # None
      <4>1. \A n \in Mounts : InRegistry(n) => disc[n].src # None
        BY DEF DiscInv, DiscTypeOK
      <4>2. disc'[m].src # None
        BY <2>0, <2>2, NamesAssumption
      <4>3. QED
        BY <2>1, <2>3, <4>1, <4>2
    <3>2. QED
      BY <1>1, <1>2, <1>4, <2>1, <2>4, <3>1 DEF DiscInv, DiscTypeOK
  <2>6. ~Mounting(t) /\ ~Tearing(t) /\ ~Mounting(t)' /\ call'[t].pc = "deregister"
    BY <1>1, <1>4, <1>6 DEF Mounting, Tearing
  <2>7. CallsInv'
    <3>1. /\ \A n \in Mounts \ {m} : disc'[n] = disc[n] /\ (InRegistry(n)' <=> InRegistry(n))
          /\ \A u \in Threads \ {t} :
               call'[u] = call[u] /\ (Mounting(u) \/ Tearing(u) => call[u].disc # m)
      BY <1>4, <1>6, <2>0, <2>1, <2>3 DEF DiscInv, CallsInv, TearingInv
    <3>2. CallsInv /\ DiscTypeOK /\ disc'[m].src \in Sources
      BY <2>0, <2>2 DEF DiscInv
    <3>3. InRegistry(m)' => disc'[m].src \in Sources /\ disc'[m].engine = "open" /\ disc'[m].server
      BY <2>2, <2>3 DEF DiscInv, CallsInv, RegisteredInv
    <3>4. QED
      BY <1>4, <2>0, <2>2, <2>6, <3>1, <3>2, <3>3, LocalStep
  <2>8. QED
    BY <2>5, <2>7 DEF DiscInv
<1>7. QED
  BY <1>5, <1>6

\* What deregistering leaves in the registry.
LEMMA RegistryKept ==
    ASSUME DiscTypeOK, NEW m \in Mounts, registry' = Kept(registry, Mounts \ {m})
    PROVE  /\ registry' \in Seq(Mounts)
           /\ \A n \in Mounts : InRegistry(n)' <=> InRegistry(n) /\ n # m
<1>1. registry \in Seq(Mounts)
  BY DEF DiscTypeOK
<1>2. QED
  BY <1>1, KeptElements DEF InRegistry

\* DiscInv when a teardown takes its mount, marked before, out of the registry.
LEMMA DeregisterStep ==
    ASSUME DiscInv, NEW t \in Threads, Deregister(t) PROVE DiscInv'
<1> SUFFICES ASSUME NEW m, m = call[t].disc PROVE DiscInv'
  OBVIOUS
<1>1. /\ Tearing(t) /\ ~Mounting(t) /\ call[t].pc = "deregister"
      /\ registry' = Kept(registry, Mounts \ {m})
      /\ \E others \in BOOLEAN : call' = [call EXCEPT ![t].pc = "unmount", ![t].others = others]
      /\ UNCHANGED <<volumes, view, released, disc, helpers>>
  BY DEF Deregister, At, Mounting, Tearing
<1>2. /\ m \in Mounts /\ disc[m] \in Inner /\ disc[m].src \in Sources /\ disc[m].src # None
      /\ \A u \in Threads \ {t} : Mounting(u) \/ Tearing(u) => call[u].disc # m
  BY <1>1, OwnMount
<1>3. registry' \in Seq(Mounts) /\ \A n \in Mounts : InRegistry(n)' <=> InRegistry(n) /\ n # m
  BY <1>1, <1>2, RegistryKept DEF DiscInv
<1>4. /\ call' \in [Threads -> Call] /\ \A u \in Threads \ {t} : call'[u] = call[u]
      /\ call'[t].pc = "unmount" /\ call'[t].disc = m
  <2>1. PICK others \in BOOLEAN :
            call' = [call EXCEPT ![t].pc = "unmount", ![t].others = others]
    BY <1>1
  <2>2. call'[t] = [call[t] EXCEPT !.pc = "unmount", !.others = others]
        /\ \A u \in Threads \ {t} : call'[u] = call[u]
    BY <2>1 DEF DiscInv, DiscTypeOK
  <2>3. call[t] \in Call /\ call \in [Threads -> Call]
    BY DEF DiscInv, DiscTypeOK
  <2>4. call'[t] \in Call /\ call'[t].pc = "unmount" /\ call'[t].disc = call[t].disc
    BY <2>2, <2>3 DEF Call
  <2>5. call' = [call EXCEPT ![t] = call'[t]]
    BY <2>1, <2>2, <2>3
  <2>6. QED
    BY <2>2, <2>3, <2>4, <2>5
<1>5. m # None
  BY <1>2, NamesAssumption
<1>6. DiscTypeOK'
  BY <1>1, <1>3, <1>4, <1>5 DEF DiscInv, DiscTypeOK
<1>7. ~Mounting(t)'
  BY <1>4 DEF Mounting
<1>8. CallsInv'
  <2>1. /\ \A n \in Mounts \ {m} : disc'[n] = disc[n] /\ (InRegistry(n)' <=> InRegistry(n))
        /\ \A u \in Threads \ {t} :
             call'[u] = call[u] /\ (Mounting(u) \/ Tearing(u) => call[u].disc # m)
    BY <1>1, <1>2, <1>3, <1>4
  <2>2. CallsInv /\ DiscTypeOK /\ disc'[m].src \in Sources /\ disc'[m].tornDown
        /\ disc'[m].engine = "open"
    BY <1>1, <1>2 DEF DiscInv, CallsInv, TearingInv
  <2>3. QED
    BY <1>2, <1>3, <1>4, <1>7, <2>1, <2>2, LocalStep
<1>9. QED
  BY <1>6, <1>8 DEF DiscInv

\* A step of a teardown that is behind its Deregister, and changes its mount.
LEMMA BehindStep ==
    ASSUME DiscInv, NEW t \in Threads, NEW m, m = call[t].disc, Tearing(t), call[t].pc # "deregister",
           UNCHANGED <<volumes, registry, released, helpers>>,
           view' \in [Labels -> Mounts \cup {None}],
           disc'[m] \in Inner, disc' = [disc EXCEPT ![m] = disc'[m]],
           disc'[m].src = disc[m].src, disc'[m].tornDown,
           call' \in [Threads -> Call], \A u \in Threads \ {t} : call'[u] = call[u],
           call'[t].disc = m,
           \/ call'[t].pc = "shutdown" /\ disc'[m].engine = "open"
           \/ call'[t].pc \in {"helpers", "wait"} /\ disc'[m].engine = "closed"
    PROVE  DiscInv'
<1>1. /\ m \in Mounts /\ disc[m] \in Inner /\ disc[m].src \in Sources /\ disc[m].src # None
      /\ \A u \in Threads \ {t} : Mounting(u) \/ Tearing(u) => call[u].disc # m
  BY OwnMount
<1>2. disc' \in [Mounts -> Inner] /\ \A n \in Mounts \ {m} : disc'[n] = disc[n]
  BY <1>1 DEF DiscInv, DiscTypeOK
<1>3. \A n : InRegistry(n)' <=> InRegistry(n)
  BY DEF InRegistry
<1>4. ~InRegistry(m) /\ m # None
  BY <1>1, NamesAssumption DEF DiscInv, CallsInv, TearingInv
<1>5. DiscTypeOK'
  <2>1. \A n \in Mounts : InRegistry(n)' => disc'[n].src # None
    BY <1>2, <1>3, <1>4 DEF DiscInv, DiscTypeOK
  <2>2. QED
    BY <1>2, <1>4, <2>1 DEF DiscInv, DiscTypeOK
<1>6. ~Mounting(t)' /\ ~Mounting(t)
  BY DEF Mounting, Tearing
<1>7. CallsInv'
  <2>1. /\ \A n \in Mounts \ {m} : disc'[n] = disc[n] /\ (InRegistry(n)' <=> InRegistry(n))
        /\ \A u \in Threads \ {t} :
             call'[u] = call[u] /\ (Mounting(u) \/ Tearing(u) => call[u].disc # m)
    BY <1>1, <1>2, <1>3
  <2>2. CallsInv /\ DiscTypeOK /\ disc'[m].src \in Sources /\ ~InRegistry(m)'
    BY <1>1, <1>3, <1>4 DEF DiscInv
  <2>3. QED
    BY <1>1, <1>6, <2>1, <2>2, LocalStep
<1>8. QED
  BY <1>5, <1>7 DEF DiscInv

\* DiscInv over umount.
LEMMA UnmountViewStep ==
    ASSUME DiscInv, NEW t \in Threads, UnmountView(t) PROVE DiscInv'
<1> SUFFICES ASSUME NEW m, m = call[t].disc PROVE DiscInv'
  OBVIOUS
<1>1. Tearing(t) /\ call[t].pc = "unmount" /\ UNCHANGED <<volumes, registry, released, helpers>>
  BY DEF UnmountView, At, Tearing
<1>2. m \in Mounts /\ disc[m] \in Inner /\ call[t] \in Call /\ disc[m].tornDown
      /\ disc[m].engine = "open"
  BY <1>1, OwnMount DEF DiscInv, CallsInv, TearingInv
<1>3. view' \in [Labels -> Mounts \cup {None}]
  BY DEF UnmountView, Unmounted, UnmountFailed, DiscInv, DiscTypeOK
<1>4. PICK left \in BOOLEAN : disc' = [disc EXCEPT ![m] = [@ EXCEPT !.mounted = FALSE, !.left = left]]
  <2>1. \/ disc' = [disc EXCEPT ![m].mounted = FALSE]
        \/ disc' = [disc EXCEPT ![m].mounted = FALSE, ![m].left = TRUE]
    BY DEF UnmountView
  <2>2. CASE disc' = [disc EXCEPT ![m].mounted = FALSE]
    <3>1. disc' = [disc EXCEPT ![m] = [@ EXCEPT !.mounted = FALSE, !.left = disc[m].left]]
      BY <1>2, <2>2 DEF DiscInv, DiscTypeOK, Inner
    <3>2. disc[m].left \in BOOLEAN
      BY <1>2 DEF Inner
    <3>3. QED
      BY <3>1, <3>2
  <2>3. CASE disc' = [disc EXCEPT ![m].mounted = FALSE, ![m].left = TRUE]
    <3>1. disc' = [disc EXCEPT ![m] = [@ EXCEPT !.mounted = FALSE, !.left = TRUE]]
      BY <1>2, <2>3 DEF DiscInv, DiscTypeOK, Inner
    <3>2. QED
      BY <3>1
  <2>4. QED
    BY <2>1, <2>2, <2>3
<1>5. /\ disc'[m] = [disc[m] EXCEPT !.mounted = FALSE, !.left = left]
      /\ disc' = [disc EXCEPT ![m] = disc'[m]]
  BY <1>2, <1>4 DEF DiscInv, DiscTypeOK
<1>6. disc'[m] \in Inner /\ disc'[m].src = disc[m].src /\ disc'[m].tornDown
      /\ disc'[m].engine = "open"
  BY <1>2, <1>5 DEF Inner
<1>7. PICK ok \in BOOLEAN : call' = [call EXCEPT ![t] = [@ EXCEPT !.pc = "shutdown", !.ok = ok]]
  <2>1. \/ Goto(t, "shutdown")
        \/ call' = [call EXCEPT ![t].pc = "shutdown", ![t].ok = FALSE]
    BY DEF UnmountView
  <2>2. CASE Goto(t, "shutdown")
    <3>1. call' = [call EXCEPT ![t] = [@ EXCEPT !.pc = "shutdown", !.ok = call[t].ok]]
      BY <1>2, <2>2 DEF Goto, DiscInv, DiscTypeOK, Call
    <3>2. call[t].ok \in BOOLEAN
      BY <1>2 DEF Call
    <3>3. QED
      BY <3>1, <3>2
  <2>3. CASE call' = [call EXCEPT ![t].pc = "shutdown", ![t].ok = FALSE]
    <3>1. call' = [call EXCEPT ![t] = [@ EXCEPT !.pc = "shutdown", !.ok = FALSE]]
      BY <1>2, <2>3 DEF DiscInv, DiscTypeOK, Call
    <3>2. QED
      BY <3>1
  <2>4. QED
    BY <2>1, <2>2, <2>3
<1>8. /\ call'[t] = [call[t] EXCEPT !.pc = "shutdown", !.ok = ok]
      /\ \A u \in Threads \ {t} : call'[u] = call[u]
  BY <1>7 DEF DiscInv, DiscTypeOK
<1>9. call' \in [Threads -> Call] /\ call'[t].pc = "shutdown" /\ call'[t].disc = m
  BY <1>2, <1>7, <1>8 DEF DiscInv, DiscTypeOK, Call
<1>10. QED
  BY <1>1, <1>3, <1>5, <1>6, <1>8, <1>9, BehindStep

\* DiscInv when the session is closed.
LEMMA ShutdownStep ==
    ASSUME DiscInv, NEW t \in Threads, Shutdown(t) PROVE DiscInv'
<1> SUFFICES ASSUME NEW m, m = call[t].disc PROVE DiscInv'
  OBVIOUS
<1>1. /\ Tearing(t) /\ call[t].pc = "shutdown"
      /\ UNCHANGED <<volumes, view, registry, released, helpers>>
      /\ disc' = [disc EXCEPT ![m].server = FALSE, ![m].engine = "closed"]
      /\ Goto(t, IF call[t].others THEN "wait" ELSE "helpers")
  BY DEF Shutdown, At, Tearing
<1>2. m \in Mounts /\ disc[m] \in Inner /\ call[t] \in Call /\ disc[m].tornDown
  BY <1>1, OwnMount DEF DiscInv, CallsInv, TearingInv
<1>3. /\ disc'[m] = [disc[m] EXCEPT !.server = FALSE, !.engine = "closed"]
      /\ disc' = [disc EXCEPT ![m] = disc'[m]]
  BY <1>1, <1>2 DEF DiscInv, DiscTypeOK, Inner
<1>4. /\ disc'[m] \in Inner /\ disc'[m].src = disc[m].src /\ disc'[m].tornDown
      /\ disc'[m].engine = "closed"
  BY <1>2, <1>3 DEF Inner
<1>5. \A pc \in {"wait", "helpers"} : [call[t] EXCEPT !.pc = pc] \in Call
  BY <1>2 DEF Call
<1>6. PICK pc \in {"wait", "helpers"} : Goto(t, pc)
  BY <1>1
<1>7. view' \in [Labels -> Mounts \cup {None}]
  BY <1>1 DEF DiscInv, DiscTypeOK
<1>8. /\ call' \in [Threads -> Call] /\ \A u \in Threads \ {t} : call'[u] = call[u]
      /\ call'[t].pc = pc /\ call'[t].disc = m
  BY <1>5, <1>6, GotoCall DEF DiscInv
<1>9. QED
  BY <1>1, <1>3, <1>4, <1>6, <1>7, <1>8, BehindStep

\* DiscInv over the end of a teardown.
LEMMA EndingStep ==
    ASSUME DiscInv, NEW t \in Threads, ReleaseHelpers(t) \/ Wait(t) PROVE DiscInv'
<1> SUFFICES ASSUME NEW m, m = call[t].disc PROVE DiscInv'
  OBVIOUS
<1>1. /\ Tearing(t) /\ ~Mounting(t) /\ call[t].pc # "deregister"
      /\ UNCHANGED <<volumes, view, registry, released, disc>>
      /\ view' \in [Labels -> Mounts \cup {None}] /\ helpers' \subseteq Mounts
      /\ call[t] \in Call
  BY DEF ReleaseHelpers, Wait, At, Tearing, Mounting, DiscInv, DiscTypeOK
<1>2. CASE ReleaseHelpers(t)
  <2>1. call[t].pc = "helpers" /\ Goto(t, "wait") /\ [call[t] EXCEPT !.pc = "wait"] \in Call
    BY <1>1, <1>2 DEF ReleaseHelpers, At, Call
  <2>2. QED
    BY <1>1, <2>1, GotoCall, MoveStep DEF DiscInv
<1>3. CASE Wait(t)
  <2>1. call[t].pc = "wait" /\ call[t].ok \in BOOLEAN /\ Return(t, call[t].ok)
    BY <1>1, <1>3 DEF Wait, At, Call
  <2>2. QED
    BY <1>1, <2>1, ReturnCall, MoveStep DEF DiscInv
<1>4. QED
  BY <1>2, <1>3

\* DiscInv over every step of a call.
LEMMA StepStep ==
    ASSUME DiscInv, NEW t \in Threads, Step(t) PROVE DiscInv'
BY PrepareStep, MountNfsStep, PublishStep, DeregisterStep, UnmountViewStep, ShutdownStep, EndingStep
   DEF Step

-----------------------------------------------------------------------------
(* The inductive invariant of the views *)

HasView(m) == \E l \in Labels : view[l] = m

\* What is mounted is at the mountpoint of its mount, and served or left; a
\* mount that is not there yet, or whose unmount is through, has no view.
ViewInv ==
    /\ \A l \in Labels : view[l] # None =>
          /\ disc[view[l]].src \in Sources /\ l = Mountpoint(view[l])
          /\ disc[view[l]].server \/ disc[view[l]].left
    /\ \A t \in Threads :
          /\ call[t].pc \in {"prepare", "nfs"} => ~HasView(call[t].disc)
          /\ call[t].pc = "shutdown" => disc[call[t].disc].left \/ ~HasView(call[t].disc)

\* No view to begin with.
LEMMA InitView == ASSUME NEW present, DiscInit(present) PROVE ViewInv
BY DEF DiscInit, ViewInv, Idle

\* A step that takes views away, at most, and lets go of no server.
LEMMA ViewsGo ==
    ASSUME DiscTypeOK, ViewInv,
           \A l \in Labels : view'[l] \in {view[l], None},
           \A n \in Mounts : /\ disc'[n].src = disc[n].src
                             /\ disc[n].server => disc'[n].server
                             /\ disc[n].left => disc'[n].left,
           \A t \in Threads :
               /\ call'[t].pc \in {"prepare", "nfs", "shutdown"} =>
                     call'[t].disc = call[t].disc /\ call'[t].disc \in Mounts
               /\ call'[t].pc \in {"prepare", "nfs"} => call[t].pc \in {"prepare", "nfs"}
               /\ call'[t].pc = "shutdown" => \/ call[t].pc = "shutdown"
                                              \/ disc'[call[t].disc].left
                                              \/ ~HasView(call[t].disc)'
    PROVE  ViewInv'
<1>1. \A l \in Labels : view[l] # None => view[l] \in Mounts
  BY DEF DiscTypeOK
<1>2. \A n : HasView(n)' /\ n # None => HasView(n)
  BY DEF HasView
<1>3. ASSUME NEW l \in Labels, view'[l] # None
      PROVE  /\ disc'[view'[l]].src \in Sources /\ l = LabelOf[disc'[view'[l]].src]
             /\ disc'[view'[l]].server \/ disc'[view'[l]].left
  BY <1>1, <1>3 DEF ViewInv, Mountpoint
<1>4. ASSUME NEW t \in Threads
      PROVE  /\ call'[t].pc \in {"prepare", "nfs"} => ~HasView(call[t].disc)'
             /\ call'[t].pc = "shutdown" => disc'[call'[t].disc].left \/ ~HasView(call[t].disc)'
  <2>1. CASE call'[t].pc \in {"prepare", "nfs"}
    <3> SUFFICES ASSUME NEW n, n = call[t].disc PROVE ~HasView(n)'
      BY <2>1 DEF HasView
    <3>1. n \in Mounts /\ ~HasView(n)
      BY <2>1 DEF ViewInv
    <3>2. QED
      BY <1>2, <3>1, NamesAssumption
  <2>2. CASE call'[t].pc = "shutdown" /\ call[t].pc = "shutdown"
    <3> SUFFICES ASSUME NEW n, n = call[t].disc PROVE disc'[n].left \/ ~HasView(n)'
      BY <2>2 DEF HasView
    <3>1. n \in Mounts /\ (disc[n].left \/ ~HasView(n))
      BY <2>2 DEF ViewInv
    <3>2. QED
      BY <1>2, <3>1, NamesAssumption
  <2>3. QED
    BY <2>1, <2>2
<1>5. QED
  BY <1>3, <1>4 DEF ViewInv, Mountpoint

\* A step of t on the mount m that leaves the views alone.
LEMMA LocalView ==
    ASSUME DiscTypeOK, ViewInv, NEW t \in Threads, NEW m \in Mounts, view' = view,
           \A n \in Mounts \ {m} : disc'[n] = disc[n],
           \A u \in Threads \ {t} :
               call'[u] = call[u] /\ (Mounting(u) \/ Tearing(u) => call[u].disc # m),
           HasView(m) => /\ disc'[m].src = disc[m].src
                         /\ disc'[m].server \/ disc'[m].left,
           call'[t].pc \in {"prepare", "nfs"} => call'[t].disc = m /\ ~HasView(m),
           call'[t].pc # "shutdown"
    PROVE  ViewInv'
<1>1. \A l \in Labels : view[l] # None => view[l] \in Mounts
  BY DEF DiscTypeOK
<1>2. \A n : HasView(n)' <=> HasView(n)
  BY DEF HasView
<1>3. ASSUME NEW l \in Labels, view'[l] # None
      PROVE  /\ disc'[view'[l]].src \in Sources /\ l = LabelOf[disc'[view'[l]].src]
             /\ disc'[view'[l]].server \/ disc'[view'[l]].left
  BY <1>1, <1>3 DEF ViewInv, Mountpoint, HasView
<1>4. ASSUME NEW u \in Threads
      PROVE  /\ call'[u].pc \in {"prepare", "nfs"} => ~HasView(call[u].disc)'
             /\ call'[u].pc = "shutdown" => disc'[call'[u].disc].left \/ ~HasView(call[u].disc)'
  <2>1. CASE u = t
    <3>1. call'[t].pc \in {"prepare", "nfs"} => ~HasView(call[t].disc)'
      BY DEF HasView
    <3>2. QED
      BY <2>1, <3>1
  <2>2. CASE u # t
    <3>1. call'[u] = call[u]
      BY <2>2
    <3>2. call[u].pc \in {"prepare", "nfs", "shutdown"} =>
              call[u].disc \in Mounts \ {m} /\ disc'[call[u].disc] = disc[call[u].disc]
      BY <2>2, CallOnMount DEF Mounting, Tearing
    <3>3. HasView(call[u].disc)' <=> HasView(call[u].disc)
      BY <3>1 DEF HasView
    <3>4. QED
      BY <3>1, <3>2, <3>3 DEF ViewInv
  <2>3. QED
    BY <2>1, <2>2
<1>5. QED
  BY <1>3, <1>4 DEF ViewInv, Mountpoint

\* ViewInv when a disc is opened: it has no view yet.
LEMMA OpenView ==
    ASSUME DiscInv, ViewInv, NEW t \in Threads, NEW s \in Sources, Open(t, s)
    PROVE  ViewInv'
<1>1. view' = view /\ call[t].pc = "idle" /\ DiscTypeOK
  BY DEF Open, At, DiscInv
<1>2. CASE disc' = disc /\ call' = [call EXCEPT ![t] = [Idle EXCEPT !.pc = "returned", !.ok = FALSE]]
  <2>1. call'[t].pc = "returned" /\ \A u \in Threads \ {t} : call'[u] = call[u]
    BY <1>1, <1>2 DEF DiscTypeOK, Idle
  <2>2. \A u \in Threads : call'[u].pc \in {"prepare", "nfs", "shutdown"} =>
            u # t /\ call[u].pc = call'[u].pc /\ call[u].disc \in Mounts /\ call'[u].disc = call[u].disc
    BY <1>1, <2>1, CallOnMount DEF Mounting, Tearing
  <2>3. QED
    BY <1>1, <1>2, <2>2, ViewsGo
<1>3. ASSUME NEW m \in Fresh,
             disc' = [disc EXCEPT ![m] = [@ EXCEPT !.src = s, !.engine = "open", !.server = TRUE]],
             call' = [call EXCEPT ![t] = [Idle EXCEPT !.pc = "prepare", !.disc = m]]
      PROVE  ViewInv'
  <2>1. /\ m \in Mounts /\ disc[m] = Unused
        /\ \A u \in Threads : Mounting(u) \/ Tearing(u) => call[u].disc # m
    BY FreshUnused
  <2>2. ~HasView(m)
    BY <2>1, NamesAssumption DEF ViewInv, HasView, Unused
  <2>3. \A n \in Mounts \ {m} : disc'[n] = disc[n]
    BY <1>1, <1>3, <2>1 DEF DiscTypeOK
  <2>4. /\ call'[t].pc = "prepare" /\ call'[t].disc = m
        /\ \A u \in Threads \ {t} : call'[u] = call[u]
    BY <1>1, <1>3 DEF DiscTypeOK, Idle
  <2>5. QED
    BY <1>1, <2>1, <2>2, <2>3, <2>4, LocalView
<1>4. QED
  BY <1>2, <1>3 DEF Open

\* A call that marks its mount, and moves to where no view is spoken of.
LEMMA TeardownView ==
    ASSUME DiscInv, ViewInv, NEW t \in Threads, NEW m \in Mounts, NEW b, Teardown(t, m, b)
    PROVE  ViewInv'
<1>1. /\ view' = view /\ DiscTypeOK /\ disc' = [disc EXCEPT ![m].tornDown = TRUE]
      /\ call' = [call EXCEPT ![t] = [Idle EXCEPT
                      !.pc = IF disc[m].tornDown THEN "returned" ELSE "deregister",
                      !.disc = m, !.unmountView = b]]
  BY DEF Teardown, DiscInv
<1>2. /\ call'[t].pc \in {"returned", "deregister"}
      /\ \A u \in Threads \ {t} : call'[u] = call[u]
  BY <1>1 DEF DiscTypeOK, Idle
<1>3. \A n \in Mounts : /\ disc'[n].src = disc[n].src /\ disc'[n].server = disc[n].server
                        /\ disc'[n].left = disc[n].left
  BY <1>1 DEF DiscTypeOK, Inner
<1>4. \A u \in Threads : call'[u].pc \in {"prepare", "nfs", "shutdown"} =>
          u # t /\ call[u].pc = call'[u].pc /\ call[u].disc \in Mounts /\ call'[u].disc = call[u].disc
  BY <1>1, <1>2, CallOnMount DEF Mounting, Tearing
<1>5. QED
  BY <1>1, <1>3, <1>4, ViewsGo

\* The OS takes a view, or nothing.
LEMMA QuietView ==
    ASSUME DiscInv, ViewInv, UNCHANGED <<disc, call>>, \A l \in Labels : view'[l] \in {view[l], None}
    PROVE  ViewInv'
<1>1. DiscTypeOK
  BY DEF DiscInv
<1>2. \A u \in Threads : call'[u].pc \in {"prepare", "nfs", "shutdown"} => call[u].disc \in Mounts
  BY <1>1, CallOnMount DEF Mounting, Tearing
<1>3. QED
  BY <1>1, <1>2, ViewsGo

\* A step of a call leaves every other call alone, and works on its own mount.
LEMMA StepFrame ==
    ASSUME DiscInv, NEW t \in Threads, Step(t)
    PROVE  /\ Mounting(t) \/ Tearing(t)
           /\ call'[t].disc = call[t].disc
           /\ \A u \in Threads \ {t} : call'[u] = call[u]
           /\ \A n \in Mounts \ {call[t].disc} : disc'[n] = disc[n]
           /\ disc' # disc => call[t].pc \in {"nfs", "publish", "unmount", "shutdown"}
<1>1. Mounting(t) \/ Tearing(t)
  BY DEF Step, PrepareMountpoint, RunMountNfs, Publish, Deregister, UnmountView, Shutdown,
         ReleaseHelpers, Wait, At, Mounting, Tearing
<1>2. call[t].disc \in Mounts /\ DiscTypeOK
  BY <1>1, CallOnMount DEF DiscInv
<1>3. CASE PrepareMountpoint(t)
  BY <1>1, <1>2, <1>3, GotoMoves, ReturnCall DEF PrepareMountpoint
<1>4. CASE RunMountNfs(t)
  <2>1. \/ disc' = disc \/ disc' = [disc EXCEPT ![call[t].disc] = Unused]
    BY <1>4 DEF RunMountNfs
  <2>2. \A n \in Mounts \ {call[t].disc} : disc'[n] = disc[n]
    BY <1>2, <2>1 DEF DiscTypeOK
  <2>3. QED
    BY <1>1, <1>2, <1>4, <2>2, GotoMoves, ReturnCall DEF RunMountNfs, At
<1>5. CASE Publish(t)
  <2>1. \A n \in Mounts \ {call[t].disc} : disc'[n] = disc[n]
    BY <1>2, <1>5 DEF Publish, DiscTypeOK
  <2>2. QED
    BY <1>1, <1>2, <1>5, <2>1, ReturnCall DEF Publish, At
<1>6. CASE Deregister(t)
  BY <1>1, <1>2, <1>6, DeregisterFields
<1>7. CASE UnmountView(t)
  <2>1. call[t].pc = "unmount"
    BY <1>7 DEF UnmountView, At
  <2>2. /\ call'[t].disc = call[t].disc /\ \A u \in Threads \ {t} : call'[u] = call[u]
        /\ \A n \in Mounts \ {call[t].disc} : disc'[n] = disc[n]
    BY <1>2, <1>7, UnmountFields
  <2>3. QED
    BY <1>1, <2>1, <2>2
<1>8. CASE Shutdown(t)
  <2>1. \A n \in Mounts \ {call[t].disc} : disc'[n] = disc[n]
    BY <1>2, <1>8 DEF Shutdown, DiscTypeOK
  <2>2. QED
    BY <1>1, <1>2, <1>8, <2>1, GotoMoves DEF Shutdown, At
<1>9. CASE ReleaseHelpers(t)
  BY <1>1, <1>2, <1>9, GotoMoves DEF ReleaseHelpers
<1>10. CASE Wait(t)
  <2>1. call[t].ok \in BOOLEAN
    BY <1>2 DEF DiscTypeOK, Call
  <2>2. QED
    BY <1>1, <1>2, <1>10, <2>1, ReturnCall DEF Wait
<1>11. QED
  BY <1>3, <1>4, <1>5, <1>6, <1>7, <1>8, <1>9, <1>10 DEF Step

\* ViewInv over every step of a call: the server goes after its view.
LEMMA StepView ==
    ASSUME DiscInv, ViewInv, NEW t \in Threads, Step(t)
    PROVE  ViewInv'
<1> SUFFICES ASSUME NEW m, m = call[t].disc PROVE ViewInv'
  OBVIOUS
<1>1. /\ Mounting(t) \/ Tearing(t)
      /\ call'[t].disc = m /\ \A u \in Threads \ {t} : call'[u] = call[u]
      /\ \A n \in Mounts \ {m} : disc'[n] = disc[n]
      /\ disc' # disc => call[t].pc \in {"nfs", "publish", "unmount", "shutdown"}
  BY StepFrame
<1>2. /\ m \in Mounts /\ disc[m] \in Inner /\ call[t] \in Call /\ disc[m].src \in Sources
      /\ \A u \in Threads \ {t} : Mounting(u) \/ Tearing(u) => call[u].disc # m
      /\ DiscTypeOK
  BY <1>1, OwnMount DEF DiscInv
<1>3. ASSUME NEW u \in Threads, call'[u].pc \in {"prepare", "nfs", "shutdown"}, u # t
      PROVE  /\ call'[u].disc = call[u].disc /\ call'[u].disc \in Mounts
             /\ call'[u].pc = call[u].pc
  BY <1>1, <1>2, <1>3, CallOnMount DEF Mounting, Tearing
<1>4. CASE PrepareMountpoint(t)
  <2>1. disc' = disc /\ call[t].pc = "prepare" /\ \A l \in Labels : view'[l] \in {view[l], None}
    BY <1>2, <1>4 DEF PrepareMountpoint, At, Unmounted, UnmountFailed, DiscTypeOK
  <2>2. call'[t].pc \in {"nfs", "returned"}
    BY <1>2, <1>4, GotoMoves, ReturnCall DEF PrepareMountpoint
  <2>3. QED
    BY <1>1, <1>2, <1>3, <2>1, <2>2, ViewsGo
<1>5. CASE RunMountNfs(t)
  <2>1. call[t].pc = "nfs" /\ ~HasView(m)
    BY <1>5 DEF RunMountNfs, At, ViewInv
  <2>2. ASSUME view' = [view EXCEPT ![Mountpoint(m)] = m], Goto(t, "publish"), disc' = disc
        PROVE  ViewInv'
    <3>1. call'[t].pc = "publish"
      BY <1>2, <2>2, GotoMoves
    <3>2. disc[m].server
      BY <2>1 DEF DiscInv, CallsInv, MountingInv, Mounting
    <3>3. \A l \in Labels : view'[l] = IF l = Mountpoint(m) THEN m ELSE view[l]
      BY <1>2, <2>2 DEF DiscTypeOK
    <3>4. ASSUME NEW l \in Labels, view'[l] # None
          PROVE  /\ disc'[view'[l]].src \in Sources /\ l = LabelOf[disc'[view'[l]].src]
                 /\ disc'[view'[l]].server \/ disc'[view'[l]].left
      <4>1. CASE l = Mountpoint(m)
        BY <1>2, <2>2, <3>2, <3>3, <4>1 DEF Mountpoint
      <4>2. CASE l # Mountpoint(m)
        BY <2>2, <3>3, <3>4, <4>2 DEF ViewInv, Mountpoint
      <4>3. QED
        BY <4>1, <4>2
    <3>5. ASSUME NEW u \in Threads, call'[u].pc \in {"prepare", "nfs", "shutdown"}
          PROVE  /\ call'[u] = call[u] /\ call[u].disc \in Mounts \ {m}
                 /\ HasView(call[u].disc)' => HasView(call[u].disc)
      <4>1. u # t
        BY <3>1, <3>5
      <4>2. call'[u] = call[u] /\ call[u].disc \in Mounts \ {m}
        BY <1>1, <1>2, <1>3, <3>5, <4>1 DEF Mounting, Tearing
      <4>3. QED
        BY <3>3, <4>2 DEF HasView
    <3>6. ASSUME NEW u \in Threads
          PROVE  /\ call'[u].pc \in {"prepare", "nfs"} => ~HasView(call[u].disc)'
                 /\ call'[u].pc = "shutdown" => disc'[call'[u].disc].left \/ ~HasView(call[u].disc)'
      BY <2>2, <3>5 DEF ViewInv
    <3>7. QED
      BY <3>4, <3>6 DEF ViewInv, Mountpoint
  <2>3. ASSUME UNCHANGED view, Return(t, FALSE)
        PROVE  ViewInv'
    <3>1. call'[t].pc \notin {"prepare", "nfs", "shutdown"}
      BY <1>2, <2>3, ReturnCall
    <3>2. QED
      BY <1>1, <1>2, <2>1, <2>3, <3>1, LocalView
  <2>4. QED
    BY <1>5, <2>2, <2>3 DEF RunMountNfs
<1>6. CASE Publish(t)
  <2>1. view' = view /\ call'[t].pc = "returned" /\ disc' = [disc EXCEPT ![m].mounted = TRUE]
    BY <1>2, <1>6, ReturnCall DEF Publish
  <2>2. \A n \in Mounts : /\ disc'[n].src = disc[n].src /\ disc'[n].server = disc[n].server
                          /\ disc'[n].left = disc[n].left
    BY <1>2, <2>1 DEF DiscTypeOK, Inner
  <2>3. QED
    BY <1>1, <1>2, <1>3, <2>1, <2>2, ViewsGo
<1>7. CASE Deregister(t)
  <2>1. view' = view /\ disc' = disc /\ call'[t].pc = "unmount"
    BY <1>2, <1>7, DeregisterFields DEF Deregister
  <2>2. QED
    BY <1>1, <1>2, <1>3, <2>1, ViewsGo
<1>8. CASE UnmountView(t)
  <2>1. \A l \in Labels : view'[l] \in {view[l], None}
    BY <1>2, <1>8 DEF UnmountView, Unmounted, UnmountFailed, DiscTypeOK
  <2>2. \A n \in Mounts : /\ disc'[n].src = disc[n].src /\ disc'[n].server = disc[n].server
                          /\ disc[n].left => disc'[n].left
    BY <1>2, <1>8, UnmountFields
  <2>3. disc'[m].left \/ ~HasView(m)'
    <3>1. CASE view' = [view EXCEPT ![Mountpoint(m)] = None]
      <4>1. \A l \in Labels : view[l] = m => l = Mountpoint(m)
        BY <1>2, NamesAssumption DEF ViewInv
      <4>2. QED
        BY <1>2, <3>1, <4>1, NamesAssumption DEF HasView, DiscTypeOK
    <3>2. QED
      BY <1>2, <1>8, <3>1, UnmountFields DEF Unmounted
  <2>4. call'[t].pc = "shutdown"
    BY <1>2, <1>8, UnmountFields
  <2>5. ~HasView(call[t].disc)' <=> ~HasView(m)'
    BY <1>1 DEF HasView
  <2>6. QED
    BY <1>1, <1>2, <1>3, <2>1, <2>2, <2>3, <2>4, <2>5, ViewsGo
<1>9. CASE Shutdown(t)
  <2>1. /\ call[t].pc = "shutdown" /\ view' = view
        /\ disc' = [disc EXCEPT ![m].server = FALSE, ![m].engine = "closed"]
    BY <1>9 DEF Shutdown, At
  <2>2. disc'[m].src = disc[m].src /\ disc'[m].left = disc[m].left
    BY <1>2, <2>1 DEF DiscTypeOK, Inner
  <2>3. call'[t].pc \notin {"prepare", "nfs", "shutdown"}
    BY <1>2, <1>9, GotoMoves DEF Shutdown
  <2>4. HasView(m) => disc'[m].src = disc[m].src /\ (disc'[m].server \/ disc'[m].left)
    BY <2>1, <2>2 DEF ViewInv
  <2>5. view' = view
    BY <2>1
  <2>6. QED
    BY <1>1, <1>2, <2>3, <2>4, <2>5, LocalView
<1>10. CASE ReleaseHelpers(t) \/ Wait(t)
  <2>1. view' = view /\ disc' = disc
    BY <1>10 DEF ReleaseHelpers, Wait
  <2>2. call'[t].pc \in {"wait", "returned"}
    <3>1. call[t].ok \in BOOLEAN
      BY <1>2 DEF Call
    <3>2. QED
      BY <1>2, <1>10, <3>1, GotoMoves, ReturnCall DEF ReleaseHelpers, Wait
  <2>3. QED
    BY <1>1, <1>2, <1>3, <2>1, <2>2, ViewsGo
<1>11. QED
  BY <1>4, <1>5, <1>6, <1>7, <1>8, <1>9, <1>10 DEF Step

\* What the OS takes leaves both invariants alone.
LEMMA QuietBoth ==
    ASSUME DiscInv, ViewInv, UNCHANGED <<disc, registry, call>>, volumes' \subseteq Sources,
           view' \in [Labels -> Mounts \cup {None}], \A l \in Labels : view'[l] \in {view[l], None},
           helpers' \subseteq Mounts, released' \in [Sources -> {"no", "settling", "settled"}]
    PROVE  DiscInv' /\ ViewInv'
BY QuietStep, QuietView

\* Who touches no mount keeps DiscInv and ViewInv.
LEMMA SameDisc ==
    ASSUME DiscInv, ViewInv, UNCHANGED discVars PROVE DiscInv' /\ ViewInv'
BY QuietBoth DEF DiscInv, DiscTypeOK, discVars

\* A hold-off is set.
LEMMA Marked ==
    ASSUME DiscInv, NEW s, MarkReleased(s)
    PROVE  released' \in [Sources -> {"no", "settling", "settled"}]
BY DEF MarkReleased, DiscInv, DiscTypeOK

\* The thread of a call that has returned goes on.
LEMMA BackToIdle ==
    ASSUME DiscInv, ViewInv, NEW t \in Threads, At(t, "returned"),
           UNCHANGED <<volumes, view, registry, disc, helpers>>, call' = [call EXCEPT ![t] = Idle],
           released' \in [Sources -> {"no", "settling", "settled"}]
    PROVE  /\ DiscInv' /\ ViewInv'
           /\ call'[t] = Idle /\ \A u \in Threads \ {t} : call'[u] = call[u]
<1>1. DiscTypeOK /\ Idle \in Call /\ Idle.pc = "idle"
  BY DEF DiscInv, Idle, Call
<1>2. /\ call'[t] = Idle /\ call'[t].pc = "idle" /\ call' \in [Threads -> Call]
      /\ \A u \in Threads \ {t} : call'[u] = call[u]
  BY <1>1 DEF DiscTypeOK
<1>3. ~Mounting(t) /\ ~(call[t].pc \in {"deregister", "unmount", "shutdown"})
  BY DEF At, Mounting
<1>4. helpers' \subseteq Mounts
  BY <1>1 DEF DiscTypeOK
<1>5. DiscInv'
  BY <1>2, <1>3, <1>4, CallStep
<1>6. \A u \in Threads : call'[u].pc \in {"prepare", "nfs", "shutdown"} =>
          u # t /\ call[u].pc = call'[u].pc /\ call[u].disc \in Mounts /\ call'[u].disc = call[u].disc
  BY <1>1, <1>2, CallOnMount DEF Mounting, Tearing
<1>7. ViewInv'
  BY <1>1, <1>6, ViewsGo
<1>8. QED
  BY <1>2, <1>5, <1>7

-----------------------------------------------------------------------------
(* What a step of a call does to the mounts, as the loops see it *)

\* A mount that is in the registry, or was and has been torn down.
Known(m) == disc[m].tornDown \/ InRegistry(m)

\* find_by_path finds a mount of that path in the registry, or nothing.
LEMMA FindByPathFinds ==
    ASSUME DiscTypeOK, NEW path
    PROVE  \/ FindByPath(path) = None
           \/ /\ FindByPath(path) \in Mounts /\ InRegistry(FindByPath(path))
              /\ path \in {disc[FindByPath(path)].src, Mountpoint(FindByPath(path))}
<1> DEFINE hits == {i \in DOMAIN registry : path \in {disc[registry[i]].src, Mountpoint(registry[i])}}
<1>1. CASE hits = {}
  BY <1>1 DEF FindByPath
<1>2. CASE hits # {}
  <2>1. registry \in Seq(Mounts) /\ hits \subseteq Nat
    BY DEF DiscTypeOK
  <2>2. PICK i \in hits : \A j \in hits : ~ (<<j, i>> \in OpToRel(<, Nat))
    BY <1>2, <2>1, NatLessThanWellFounded, WFMin
  <2>3. ASSUME NEW j \in hits PROVE i <= j
    <3>1. i \in Nat /\ j \in Nat /\ ~ (<<j, i>> \in OpToRel(<, Nat))
      BY <2>1, <2>2
    <3>2. QED
      BY <3>1 DEF OpToRel
  <2>4. FindByPath(path) = registry[CHOOSE k \in hits : \A j \in hits : k <= j]
    BY <1>2 DEF FindByPath
  <2>5. PICK k \in hits : FindByPath(path) = registry[k]
    BY <2>2, <2>3, <2>4
  <2>6. k \in DOMAIN registry /\ registry[k] \in Mounts
    BY <2>1
  <2>7. QED
    BY <2>5, <2>6 DEF InRegistry
<1>3. QED
  BY <1>1, <1>2

\* What a step changes of its own mount, and of the registry.
LEMMA StepEffect ==
    ASSUME DiscInv, NEW t \in Threads, NEW m, m = call[t].disc, Step(t)
    PROVE  /\ volumes' = volumes /\ released' = released
           /\ Mounting(t)' => Mounting(t)
           /\ Tearing(t)' => Tearing(t)
           /\ Mounting(t)' \/ Tearing(t)' \/ call'[t].pc = "returned"
           /\ \/ disc'[m].tornDown = disc[m].tornDown /\ disc'[m].src = disc[m].src
              \/ disc'[m] = Unused /\ Mounting(t)
           /\ disc'[m].engine = "open" => disc[m].engine = "open" /\ disc'[m] # Unused
           /\ \A n \in Mounts : InRegistry(n)' <=>
                  \/ InRegistry(n) /\ ~(n = m /\ call[t].pc = "deregister")
                  \/ n = m /\ call[t].pc = "publish"
           /\ Mounting(t) /\ call'[t].pc = "returned" /\ call'[t].ok => call[t].pc = "publish"
           /\ disc'[m] = Unused => call'[t].pc = "returned" /\ ~call'[t].ok
<1>1. Mounting(t) \/ Tearing(t)
  BY StepFrame
<1>2. /\ m \in Mounts /\ disc[m] \in Inner /\ call[t] \in Call /\ disc[m].src \in Sources
      /\ DiscTypeOK /\ disc[m] # Unused
  BY <1>1, OwnMount, NamesAssumption DEF DiscInv, Unused
<1>3. registry' = registry => \A n : InRegistry(n)' <=> InRegistry(n)
  BY DEF InRegistry
<1>4. CASE PrepareMountpoint(t)
  <2>1. /\ UNCHANGED <<volumes, registry, released, disc>> /\ call[t].pc = "prepare"
        /\ Goto(t, "nfs") \/ Return(t, FALSE)
    BY <1>4 DEF PrepareMountpoint, At
  <2>2. call'[t].pc = "nfs" \/ (call'[t].pc = "returned" /\ call'[t].ok = FALSE)
    BY <1>2, <2>1, GotoMoves, ReturnCall
  <2>3. QED
    BY <1>2, <1>3, <2>1, <2>2 DEF Mounting, Tearing
<1>5. CASE RunMountNfs(t)
  <2>1. UNCHANGED <<volumes, registry, released>> /\ call[t].pc = "nfs"
    BY <1>5 DEF RunMountNfs, At
  <2>2. \/ disc' = disc /\ call'[t].pc = "publish"
        \/ disc'[m] = Unused /\ call'[t].pc = "returned" /\ call'[t].ok = FALSE
    <3>1. CASE disc' = disc /\ Goto(t, "publish")
      BY <1>2, <3>1, GotoMoves
    <3>2. CASE disc' = [disc EXCEPT ![m] = Unused] /\ Return(t, FALSE)
      <4>1. disc'[m] = Unused
        BY <1>2, <3>2 DEF DiscTypeOK
      <4>2. QED
        BY <1>2, <3>2, <4>1, ReturnCall
    <3>3. QED
      BY <1>5, <3>1, <3>2 DEF RunMountNfs
  <2>3. Unused.engine # "open"
    BY DEF Unused
  <2>4. QED
    BY <1>2, <1>3, <2>1, <2>2, <2>3 DEF Mounting, Tearing
<1>6. CASE Publish(t)
  <2>1. /\ UNCHANGED <<volumes, released>> /\ call[t].pc = "publish"
        /\ registry' = Append(registry, m) /\ disc'[m] = [disc[m] EXCEPT !.mounted = TRUE]
    BY <1>2, <1>6 DEF Publish, At, DiscTypeOK
  <2>2. call'[t].pc = "returned" /\ call'[t].ok = TRUE
    BY <1>2, <1>6, ReturnCall DEF Publish
  <2>3. \A n \in Mounts : InRegistry(n)' <=> InRegistry(n) \/ n = m
    <3>1. registry \in Seq(Mounts)
      BY <1>2 DEF DiscTypeOK
    <3>2. /\ DOMAIN registry' = DOMAIN registry \cup {Len(registry) + 1}
          /\ registry'[Len(registry) + 1] = m
          /\ \A i \in DOMAIN registry : registry'[i] = registry[i]
      BY <1>2, <2>1, <3>1
    <3>3. QED
      BY <3>2 DEF InRegistry
  <2>4. /\ disc'[m].tornDown = disc[m].tornDown /\ disc'[m].src = disc[m].src
        /\ disc'[m].engine = disc[m].engine
    BY <1>2, <2>1 DEF Inner
  <2>5. disc'[m] # Unused
    BY <1>2, <2>4, NamesAssumption DEF Unused
  <2>6. QED
    BY <2>1, <2>2, <2>3, <2>4, <2>5 DEF Mounting, Tearing
<1>7. CASE Deregister(t)
  <2>1. /\ UNCHANGED <<volumes, released, disc>> /\ call[t].pc = "deregister"
        /\ registry' = Kept(registry, Mounts \ {m}) /\ call'[t].pc = "unmount"
    BY <1>2, <1>7, DeregisterFields DEF Deregister, At
  <2>2. \A n \in Mounts : InRegistry(n)' <=> InRegistry(n) /\ n # m
    BY <1>2, <2>1, RegistryKept
  <2>3. QED
    BY <1>2, <2>1, <2>2 DEF Mounting, Tearing
<1>8. CASE UnmountView(t)
  <2>1. UNCHANGED <<volumes, registry, released>> /\ call[t].pc = "unmount"
    BY <1>8 DEF UnmountView, At
  <2>2. /\ call'[t].pc = "shutdown" /\ disc'[m].src = disc[m].src
        /\ disc'[m].tornDown = disc[m].tornDown /\ disc'[m].engine = disc[m].engine
    BY <1>2, <1>8, UnmountFields
  <2>3. disc'[m] # Unused
    BY <1>2, <2>2, NamesAssumption DEF Unused
  <2>4. QED
    BY <1>3, <2>1, <2>2, <2>3 DEF Mounting, Tearing
<1>9. CASE Shutdown(t)
  <2>1. /\ UNCHANGED <<volumes, registry, released>> /\ call[t].pc = "shutdown"
        /\ disc'[m] = [disc[m] EXCEPT !.server = FALSE, !.engine = "closed"]
    BY <1>2, <1>9 DEF Shutdown, At, DiscTypeOK
  <2>2. /\ disc'[m].src = disc[m].src /\ disc'[m].tornDown = disc[m].tornDown
        /\ disc'[m].engine = "closed"
    BY <1>2, <2>1 DEF Inner
  <2>3. disc'[m] # Unused
    BY <1>2, <2>2, NamesAssumption DEF Unused
  <2>4. call'[t].pc \in {"wait", "helpers"}
    BY <1>2, <1>9, GotoMoves DEF Shutdown
  <2>5. QED
    BY <1>3, <2>1, <2>2, <2>3, <2>4 DEF Mounting, Tearing
<1>10. CASE ReleaseHelpers(t)
  <2>1. /\ UNCHANGED <<volumes, registry, released, disc>> /\ call[t].pc = "helpers"
        /\ call'[t].pc = "wait"
    BY <1>2, <1>10, GotoMoves DEF ReleaseHelpers, At
  <2>2. QED
    BY <1>2, <1>3, <2>1 DEF Mounting, Tearing
<1>11. CASE Wait(t)
  <2>1. UNCHANGED <<volumes, registry, released, disc>> /\ call[t].pc = "wait"
    BY <1>11 DEF Wait, At
  <2>2. call'[t].pc = "returned"
    BY <1>2, <1>11, ReturnCall DEF Wait, Call
  <2>3. QED
    BY <1>2, <1>3, <2>1, <2>2 DEF Mounting, Tearing
<1>12. QED
  BY <1>4, <1>5, <1>6, <1>7, <1>8, <1>9, <1>10, <1>11 DEF Step

\* A mount that is known stays known, and is not made another.
LEMMA StepKnown ==
    ASSUME DiscInv, NEW t \in Threads, Step(t), NEW n \in Mounts, Known(n)
    PROVE  Known(n)' /\ disc'[n].src = disc[n].src /\ disc'[n].tornDown = disc[n].tornDown
<1> SUFFICES ASSUME NEW m, m = call[t].disc PROVE Known(n)' /\ disc'[n].src = disc[n].src
                                                   /\ disc'[n].tornDown = disc[n].tornDown
  OBVIOUS
<1>1. n # m => disc'[n] = disc[n]
  BY StepFrame
<1>2. n = m => ~Mounting(t)
  BY DEF DiscInv, CallsInv, MountingInv, Known
<1>3. disc'[n].src = disc[n].src /\ disc'[n].tornDown = disc[n].tornDown
  BY <1>1, <1>2, StepEffect
<1>4. n = m /\ call[t].pc = "deregister" => disc[n].tornDown
  BY DEF DiscInv, CallsInv, TearingInv, Tearing
<1>5. QED
  BY <1>3, <1>4, StepEffect DEF Known

\* A mount begins on an instance that nobody knows, or not at all.
LEMMA OpenEffect ==
    ASSUME DiscInv, NEW t \in Threads, NEW s \in Sources, Open(t, s)
    PROVE  /\ UNCHANGED <<volumes, registry, view, released>>
           /\ \A u \in Threads \ {t} : call'[u] = call[u]
           /\ \A n \in Mounts : Known(n) => Known(n)' /\ disc'[n] = disc[n]
           /\ \/ disc' = disc /\ call'[t].pc = "returned" /\ call'[t].ok = FALSE
              \/ \E m \in Mounts :
                    /\ disc[m] = Unused /\ ~Known(m)
                    /\ call'[t].pc = "prepare" /\ call'[t].disc = m
                    /\ disc'[m].src = s /\ disc'[m].engine = "open" /\ ~disc'[m].tornDown
                    /\ \A n \in Mounts \ {m} : disc'[n] = disc[n]
<1>1. UNCHANGED <<volumes, registry, view, released>> /\ DiscTypeOK
  BY DEF Open, DiscInv
<1>2. \A n : InRegistry(n)' <=> InRegistry(n)
  BY <1>1 DEF InRegistry
<1>3. CASE disc' = disc /\ call' = [call EXCEPT ![t] = [Idle EXCEPT !.pc = "returned", !.ok = FALSE]]
  <2>1. /\ call'[t].pc = "returned" /\ call'[t].ok = FALSE
        /\ \A u \in Threads \ {t} : call'[u] = call[u]
    BY <1>1, <1>3 DEF DiscTypeOK, Idle
  <2>2. QED
    BY <1>1, <1>2, <1>3, <2>1 DEF Known
<1>4. ASSUME NEW m \in Fresh,
             disc' = [disc EXCEPT ![m] = [@ EXCEPT !.src = s, !.engine = "open", !.server = TRUE]],
             call' = [call EXCEPT ![t] = [Idle EXCEPT !.pc = "prepare", !.disc = m]]
      PROVE  /\ \A u \in Threads \ {t} : call'[u] = call[u]
             /\ disc[m] = Unused /\ ~Known(m) /\ m \in Mounts
             /\ call'[t].pc = "prepare" /\ call'[t].disc = m
             /\ disc'[m].src = s /\ disc'[m].engine = "open" /\ ~disc'[m].tornDown
             /\ \A n \in Mounts \ {m} : disc'[n] = disc[n]
  <2>1. m \in Mounts /\ disc[m] = Unused /\ ~InRegistry(m)
    BY FreshUnused
  <2>2. /\ call'[t].pc = "prepare" /\ call'[t].disc = m
        /\ \A u \in Threads \ {t} : call'[u] = call[u]
    BY <1>1, <1>4 DEF DiscTypeOK, Idle
  <2>3. /\ disc'[m] = [Unused EXCEPT !.src = s, !.engine = "open", !.server = TRUE]
        /\ \A n \in Mounts \ {m} : disc'[n] = disc[n]
    BY <1>1, <1>4, <2>1 DEF DiscTypeOK
  <2>4. disc'[m].src = s /\ disc'[m].engine = "open" /\ ~disc'[m].tornDown /\ ~disc[m].tornDown
    BY <2>1, <2>3 DEF Unused
  <2>5. QED
    BY <2>1, <2>2, <2>3, <2>4 DEF Known
<1>5. ASSUME NEW m \in Mounts, ~Known(m), \A n \in Mounts \ {m} : disc'[n] = disc[n]
      PROVE  \A n \in Mounts : Known(n) => Known(n)' /\ disc'[n] = disc[n]
  BY <1>2, <1>5 DEF Known
<1>6. QED
  BY <1>1, <1>3, <1>4, <1>5 DEF Open

-----------------------------------------------------------------------------
(* AllLiveMounts, when preparing a mountpoint cannot fail *)

\* The two ways in which prepare_mountpoint can fail.
LeakFree == Failures \cap {"prepare", "umount"} = {}

\* An open mount that is not marked is in the registry, or being mounted.
OpenInv ==
    \A m \in Mounts : disc[m].engine = "open" /\ ~disc[m].tornDown =>
        InRegistry(m) \/ \E t \in Threads : Mounting(t) /\ call[t].disc = m

\* OpenInv implies AllLiveMounts.
LEMMA OpenListed == ASSUME DiscInv, OpenInv PROVE AllLiveMounts
<1> SUFFICES ASSUME NEW m \in Mounts, disc[m].engine = "open", ~InRegistry(m) PROVE Busy(m)
  BY DEF AllLiveMounts
<1>1. PICK t \in Threads : (Mounting(t) \/ Tearing(t)) /\ call[t].disc = m
  BY DEF OpenInv, DiscInv, CallsInv, TornInv, Tearing
<1>2. QED
  BY <1>1 DEF Busy, At, Mounting, Tearing

\* No open mount to begin with.
LEMMA InitOpen == ASSUME NEW present, DiscInit(present) PROVE OpenInv
BY DEF DiscInit, OpenInv, Unused

\* Only a mount that fails before it has begun leaves nothing behind.
LEMMA MountFails ==
    ASSUME LeakFree, DiscInv, NEW t \in Threads, Step(t), Mounting(t),
           call'[t].pc = "returned", ~call'[t].ok
    PROVE  disc'[call[t].disc] = Unused
<1> SUFFICES ASSUME NEW m, m = call[t].disc PROVE disc'[m] = Unused
  OBVIOUS
<1>1. m \in Mounts /\ DiscTypeOK
  BY OwnMount DEF DiscInv
<1>2. CASE PrepareMountpoint(t)
  <2>1. "prepare" \notin Failures /\ "umount" \notin Failures
    BY DEF LeakFree
  <2>2. Goto(t, "nfs")
    BY <1>2, <2>1 DEF PrepareMountpoint, UnmountFailed
  <2>3. call'[t].pc = "nfs"
    BY <1>1, <2>2, GotoMoves
  <2>4. QED
    BY <2>3
<1>3. CASE RunMountNfs(t)
  <2>1. Goto(t, "publish") \/ disc' = [disc EXCEPT ![m] = Unused]
    BY <1>3 DEF RunMountNfs
  <2>2. Goto(t, "publish") => call'[t].pc = "publish"
    BY <1>1, GotoMoves
  <2>3. QED
    BY <1>1, <2>1, <2>2 DEF DiscTypeOK
<1>4. CASE Publish(t)
  BY <1>1, <1>4, ReturnCall DEF Publish
<1>5. QED
  BY <1>2, <1>3, <1>4
     DEF Step, Mounting, Deregister, UnmountView, Shutdown, ReleaseHelpers, Wait, At

\* OpenInv over every step of a call, when preparing a mountpoint cannot fail.
LEMMA StepOpenInv ==
    ASSUME LeakFree, DiscInv, OpenInv, NEW t \in Threads, Step(t)
    PROVE  OpenInv'
<1> SUFFICES ASSUME NEW m, m = call[t].disc,
                    NEW n \in Mounts, disc'[n].engine = "open", ~disc'[n].tornDown
             PROVE  InRegistry(n)' \/ \E u \in Threads : Mounting(u)' /\ call'[u].disc = n
  BY DEF OpenInv
<1>1. /\ Mounting(t) \/ Tearing(t)
      /\ call'[t].disc = m /\ \A u \in Threads \ {t} : call'[u] = call[u]
      /\ n # m => disc'[n] = disc[n]
  BY StepFrame
<1>2. CASE n = m
  <2>1. disc[m].engine = "open" /\ ~disc[m].tornDown /\ disc'[m] # Unused
    BY <1>2, StepEffect
  <2>2. Mounting(t)
    BY <1>1, <2>1 DEF DiscInv, CallsInv, TearingInv
  <2>3. Mounting(t)' \/ call'[t].pc = "returned"
    BY <2>2, StepEffect DEF Mounting, Tearing
  <2>4. call'[t].pc = "returned" => call[t].pc = "publish"
    BY <2>1, <2>2, MountFails, StepEffect
  <2>5. QED
    BY <1>1, <1>2, <2>3, <2>4, StepEffect
<1>3. CASE n # m
  <2>1. InRegistry(n) \/ \E u \in Threads : Mounting(u) /\ call[u].disc = n
    BY <1>1, <1>3 DEF OpenInv
  <2>2. InRegistry(n) => InRegistry(n)'
    BY <1>3, StepEffect
  <2>3. QED
    BY <1>1, <1>3, <2>1, <2>2 DEF Mounting
<1>4. QED
  BY <1>2, <1>3

\* A step that opens nothing, and leaves registry and mounts under way alone.
LEMMA KeepOpenInv ==
    ASSUME OpenInv, UNCHANGED registry,
           \A n \in Mounts : disc'[n].engine = "open" /\ ~disc'[n].tornDown =>
               disc[n].engine = "open" /\ ~disc[n].tornDown,
           \A u \in Threads : Mounting(u) => call'[u] = call[u]
    PROVE  OpenInv'
BY DEF OpenInv, InRegistry, Mounting

\* OpenInv when a disc is opened: it is the call's.
LEMMA OpenOpenInv ==
    ASSUME DiscInv, OpenInv, NEW t \in Threads, NEW s \in Sources, Open(t, s)
    PROVE  OpenInv'
<1>1. UNCHANGED registry /\ call[t].pc = "idle" /\ DiscTypeOK
  BY DEF Open, At, DiscInv
<1>2. CASE disc' = disc /\ call' = [call EXCEPT ![t] = [Idle EXCEPT !.pc = "returned", !.ok = FALSE]]
  <2>1. \A u \in Threads : Mounting(u) => call'[u] = call[u]
    BY <1>1, <1>2 DEF DiscTypeOK, Mounting
  <2>2. QED
    BY <1>1, <1>2, <2>1, KeepOpenInv
<1>3. ASSUME NEW m \in Fresh,
             disc' = [disc EXCEPT ![m] = [@ EXCEPT !.src = s, !.engine = "open", !.server = TRUE]],
             call' = [call EXCEPT ![t] = [Idle EXCEPT !.pc = "prepare", !.disc = m]]
      PROVE  OpenInv'
  <2>1. m \in Mounts
    BY DEF Fresh
  <2>2. /\ call'[t].pc = "prepare" /\ call'[t].disc = m
        /\ \A u \in Threads \ {t} : call'[u] = call[u]
        /\ \A n \in Mounts \ {m} : disc'[n] = disc[n]
    BY <1>1, <1>3, <2>1 DEF DiscTypeOK, Idle
  <2>3. \A n : InRegistry(n)' <=> InRegistry(n)
    BY <1>1 DEF InRegistry
  <2>4. ASSUME NEW n \in Mounts, disc'[n].engine = "open", ~disc'[n].tornDown
        PROVE  InRegistry(n)' \/ \E u \in Threads : Mounting(u)' /\ call'[u].disc = n
    <3>1. CASE n = m
      BY <2>2, <3>1 DEF Mounting
    <3>2. CASE n # m
      <4>1. InRegistry(n) \/ \E u \in Threads : Mounting(u) /\ call[u].disc = n
        BY <2>2, <2>4, <3>2 DEF OpenInv
      <4>2. \A u \in Threads : Mounting(u) => u # t
        BY <1>1 DEF Mounting
      <4>3. QED
        BY <2>2, <2>3, <4>1, <4>2 DEF Mounting
    <3>3. QED
      BY <3>1, <3>2
  <2>5. QED
    BY <2>4 DEF OpenInv
<1>4. QED
  BY <1>2, <1>3 DEF Open

\* OpenInv when a teardown begins: the mount is marked.
LEMMA TeardownOpenInv ==
    ASSUME DiscInv, OpenInv, NEW t \in Threads, NEW m \in Mounts, NEW b, Teardown(t, m, b)
    PROVE  OpenInv'
<1>1. /\ call[t].pc = "idle" /\ UNCHANGED registry /\ DiscTypeOK
      /\ disc' = [disc EXCEPT ![m].tornDown = TRUE]
      /\ \E c : call' = [call EXCEPT ![t] = c]
  BY DEF Teardown, At, DiscInv
<1>2. \A n \in Mounts : ~disc'[n].tornDown => disc'[n] = disc[n]
  BY <1>1 DEF DiscTypeOK, Inner
<1>3. \A u \in Threads : Mounting(u) => call'[u] = call[u]
  BY <1>1 DEF DiscTypeOK, Mounting
<1>4. QED
  BY <1>1, <1>2, <1>3, KeepOpenInv

-----------------------------------------------------------------------------
(* Sessions and views of the mounts *)

\* A step of a call opens nothing, and what stays open is what it was.
LEMMA StepSessions ==
    ASSUME DiscInv, NEW t \in Threads, Step(t), NEW n \in Mounts, disc'[n].engine = "open"
    PROVE  /\ disc[n].engine = "open" /\ disc'[n].src = disc[n].src
           /\ disc'[n].tornDown = disc[n].tornDown /\ disc'[n] # Unused
<1> SUFFICES ASSUME NEW m, m = call[t].disc
             PROVE  /\ disc[n].engine = "open" /\ disc'[n].src = disc[n].src
                    /\ disc'[n].tornDown = disc[n].tornDown /\ disc'[n] # Unused
  OBVIOUS
<1>1. CASE n = m
  BY <1>1, StepEffect
<1>2. CASE n # m
  <2>1. disc'[n] = disc[n]
    BY <1>2, StepFrame
  <2>2. QED
    BY <2>1 DEF Unused
<1>3. QED
  BY <1>1, <1>2

\* A disc that is looked at, is mounted or torn down, or in the list is open.
LEMMA OpenAtWork ==
    ASSUME DiscInv
    PROVE  /\ \A n \in Mounts : InRegistry(n) => disc[n].engine = "open" /\ disc[n].src \in Sources
           /\ \A t \in Threads : Mounting(t) \/ call[t].pc \in {"deregister", "unmount"} =>
                 /\ call[t].disc \in Mounts /\ disc[call[t].disc].engine = "open"
                 /\ disc[call[t].disc].src \in Sources
BY CallOnMount DEF DiscInv, CallsInv, RegisteredInv, MountingInv, TearingInv, Mounting, Tearing

\* No two sources share a mountpoint.
OwnMountpoints == \A r, s \in Sources : LabelOf[r] = LabelOf[s] => r = s

\* What is registered, or about to be, is what is mounted at its mountpoint.
LiveInv == LiveHasView /\
    \A t \in Threads : call[t].pc = "publish" => view[Mountpoint(call[t].disc)] = call[t].disc

\* The only mount at its mountpoint that is in the list, or about to be.
LEMMA OwnView ==
    ASSUME DiscInv, OneSession, OwnMountpoints, NEW m \in Mounts, NEW n \in Mounts,
           disc[m].engine = "open", disc[m].src \in Sources,
           disc[n].engine = "open", disc[n].src \in Sources, Mountpoint(m) = Mountpoint(n)
    PROVE  m = n
BY DEF OneSession, OwnMountpoints, Mountpoint

\* A step of t that takes the view of its own mount's mountpoint, or none.
LEMMA KeepLive ==
    ASSUME DiscInv, LiveInv, OneSession, OwnMountpoints, NEW t \in Threads, NEW m \in Mounts,
           Step(t), m = call[t].disc,
           \/ view' = view
           \/ /\ Mounting(t) \/ call[t].pc = "unmount"
              /\ \A l \in Labels : l # Mountpoint(m) => view'[l] = view[l],
           InRegistry(m)' => view'[LabelOf[disc'[m].src]] = m,
           call'[t].pc = "publish" => view'[LabelOf[disc'[m].src]] = m
    PROVE  LiveInv'
<1>1. /\ Mounting(t) \/ Tearing(t)
      /\ call'[t].disc = m /\ \A u \in Threads \ {t} : call'[u] = call[u]
      /\ \A n \in Mounts \ {m} : disc'[n] = disc[n]
  BY StepFrame
<1>2. ASSUME NEW n \in Mounts \ {m}, disc[n].engine = "open", disc[n].src \in Sources
      PROVE  view'[LabelOf[disc'[n].src]] = view[Mountpoint(n)]
  <2>1. CASE view' = view
    BY <1>1, <2>1 DEF Mountpoint
  <2>2. CASE /\ Mounting(t) \/ call[t].pc = "unmount"
             /\ \A l \in Labels : l # Mountpoint(m) => view'[l] = view[l]
    <3>1. Mountpoint(n) # Mountpoint(m)
      BY <1>2, <2>2, OpenAtWork, OwnView
    <3>2. Mountpoint(n) \in Labels
      BY <1>2, NamesAssumption DEF Mountpoint
    <3>3. QED
      BY <1>1, <2>2, <3>1, <3>2 DEF Mountpoint
  <2>3. QED
    BY <2>1, <2>2
<1>3. LiveHasView'
  <2> SUFFICES ASSUME NEW n \in Mounts, InRegistry(n)' PROVE view'[LabelOf[disc'[n].src]] = n
    BY DEF LiveHasView, Mountpoint
  <2>1. CASE n = m
    BY <2>1
  <2>2. CASE n # m
    <3>1. InRegistry(n)
      BY <2>2, StepEffect
    <3>2. QED
      BY <1>2, <2>2, <3>1, OpenAtWork DEF LiveInv, LiveHasView
  <2>3. QED
    BY <2>1, <2>2
<1>4. ASSUME NEW u \in Threads, call'[u].pc = "publish"
      PROVE  view'[LabelOf[disc'[call'[u].disc].src]] = call'[u].disc
  <2>1. CASE u = t
    BY <1>1, <1>4, <2>1
  <2>2. CASE u # t
    <3> SUFFICES ASSUME NEW n, n = call[u].disc PROVE view'[LabelOf[disc'[n].src]] = n
      BY <1>1, <2>2
    <3>1. call[u].pc = "publish" /\ Mounting(u)
      BY <1>1, <1>4, <2>2 DEF Mounting
    <3>2. n \in Mounts \ {m} /\ disc[n].engine = "open" /\ disc[n].src \in Sources
      BY <1>1, <2>2, <3>1, OpenAtWork DEF DiscInv, CallsInv, ApartInv
    <3>3. QED
      BY <1>2, <3>1, <3>2 DEF LiveInv
  <2>3. QED
    BY <2>1, <2>2
<1>5. QED
  BY <1>3, <1>4 DEF LiveInv, Mountpoint

\* LiveInv over every step of a call, when no two sources share a mountpoint.
LEMMA StepLive ==
    ASSUME LeakFree, DiscInv, LiveInv, OneSession, OwnMountpoints, NEW t \in Threads, Step(t)
    PROVE  LiveInv'
<1> SUFFICES ASSUME NEW m, m = call[t].disc PROVE LiveInv'
  OBVIOUS
<1>1. Mounting(t) \/ Tearing(t)
  BY StepFrame
<1>2. /\ m \in Mounts /\ disc[m] \in Inner /\ disc[m].src \in Sources /\ DiscTypeOK
      /\ Mountpoint(m) \in Labels
  BY <1>1, OwnMount, NamesAssumption DEF DiscInv, Mountpoint
<1>3. Mounting(t) => ~InRegistry(m)
  BY DEF DiscInv, CallsInv, MountingInv
<1>4. Tearing(t) /\ call[t].pc # "deregister" => ~InRegistry(m)
  BY DEF DiscInv, CallsInv, TearingInv
<1>5. InRegistry(m)' => \/ InRegistry(m) /\ call[t].pc # "deregister"
                        \/ call[t].pc = "publish"
  BY <1>2, StepEffect
<1>6. InRegistry(m)' => call[t].pc = "publish"
  BY <1>1, <1>3, <1>4, <1>5
<1>7. CASE PrepareMountpoint(t)
  <2>1. /\ call[t].pc = "prepare" /\ Mounting(t)
        /\ view' = view \/ view' = [view EXCEPT ![Mountpoint(m)] = None]
    BY <1>7 DEF PrepareMountpoint, At, Mounting, Unmounted, UnmountFailed
  <2>2. \A l \in Labels : l # Mountpoint(m) => view'[l] = view[l]
    BY <1>2, <2>1 DEF DiscTypeOK
  <2>3. call'[t].pc # "publish"
    <3>1. Goto(t, "nfs") \/ Return(t, FALSE)
      BY <1>7 DEF PrepareMountpoint
    <3>2. call'[t].pc \in {"nfs", "returned"}
      BY <1>2, <3>1, GotoMoves, ReturnCall
    <3>3. QED
      BY <3>2
  <2>4. QED
    BY <1>2, <1>6, <2>1, <2>2, <2>3, KeepLive
<1>8. CASE RunMountNfs(t)
  <2>1. /\ call[t].pc = "nfs" /\ Mounting(t)
    BY <1>8 DEF RunMountNfs, At, Mounting
  <2>2. CASE view' = [view EXCEPT ![Mountpoint(m)] = m] /\ disc' = disc
    <3>1. /\ \A l \in Labels : l # Mountpoint(m) => view'[l] = view[l]
          /\ view'[LabelOf[disc'[m].src]] = m
      BY <1>2, <2>2 DEF DiscTypeOK, Mountpoint
    <3>2. QED
      BY <1>2, <2>1, <3>1, KeepLive
  <2>3. CASE view' = view /\ Return(t, FALSE)
    <3>1. call'[t].pc = "returned"
      BY <1>2, <2>3, ReturnCall
    <3>2. QED
      BY <1>2, <1>6, <2>1, <2>3, <3>1, KeepLive
  <2>4. QED
    BY <1>8, <2>2, <2>3 DEF RunMountNfs
<1>9. CASE Publish(t)
  <2>1. call[t].pc = "publish" /\ view' = view /\ disc'[m] = [disc[m] EXCEPT !.mounted = TRUE]
    BY <1>2, <1>9 DEF Publish, At, DiscTypeOK
  <2>2. disc'[m].src = disc[m].src
    BY <1>2, <2>1 DEF Inner
  <2>3. view'[LabelOf[disc'[m].src]] = m
    BY <2>1, <2>2 DEF LiveInv, Mountpoint
  <2>4. QED
    BY <1>2, <2>1, <2>3, KeepLive
<1>10. CASE UnmountView(t)
  <2>1. /\ call[t].pc = "unmount"
        /\ view' = view \/ view' = [view EXCEPT ![Mountpoint(m)] = None]
    BY <1>10 DEF UnmountView, At, Unmounted, UnmountFailed
  <2>2. \A l \in Labels : l # Mountpoint(m) => view'[l] = view[l]
    BY <1>2, <2>1 DEF DiscTypeOK
  <2>3. call'[t].pc = "shutdown"
    BY <1>2, <1>10, UnmountFields
  <2>4. QED
    BY <1>2, <1>6, <2>1, <2>2, <2>3, KeepLive
<1>11. CASE Deregister(t) \/ Shutdown(t) \/ ReleaseHelpers(t) \/ Wait(t)
  <2>1. view' = view /\ call[t].pc # "publish" /\ Tearing(t) /\ ~Mounting(t)
    BY <1>11 DEF Deregister, Shutdown, ReleaseHelpers, Wait, At, Tearing, Mounting
  <2>2. ~Mounting(t)'
    BY <2>1, StepEffect
  <2>3. call'[t].pc # "publish"
    BY <2>2 DEF Mounting
  <2>4. QED
    BY <1>2, <1>6, <2>1, <2>3, KeepLive
<1>12. QED
  BY <1>7, <1>8, <1>9, <1>10, <1>11 DEF Step

\* A step that takes no view, registers nothing, and publishes nothing.
LEMMA SameViews ==
    ASSUME LiveInv, view' = view, registry' = registry,
           \A n \in Mounts : InRegistry(n) => disc'[n].src = disc[n].src,
           \A u \in Threads : call'[u].pc = "publish" =>
               /\ call[u].pc = "publish" /\ call'[u].disc = call[u].disc
               /\ disc'[call[u].disc].src = disc[call[u].disc].src
    PROVE  LiveInv'
<1>1. \A n \in Mounts : InRegistry(n)' <=> InRegistry(n)
  BY DEF InRegistry
<1>2. QED
  BY <1>1 DEF LiveInv, LiveHasView, Mountpoint

\* Nothing is registered to begin with.
LEMMA InitLive == ASSUME NEW present, DiscInit(present) PROVE LiveInv
BY DEF DiscInit, LiveInv, LiveHasView, InRegistry, Idle
=============================================================================
