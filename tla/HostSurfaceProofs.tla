-------------------------- MODULE HostSurfaceProofs --------------------------
(***************************************************************************)
(* Hosts beside each other, for any set of them: what a guest was told,    *)
(* what its host thinks and where its surface stands never disagree.  And  *)
(* the frames a guest draws, for any number of them, any depth of saves    *)
(* and any sizes of the window: each begins clean and is shown whole.      *)
(* Then the window itself, for any panel, orientations, insets and         *)
(* overlays: buffer and layout follow its size, an overlay its edge.       *)
(* Then the layers a guest records, for any number of them nested in any   *)
(* way: each is counted as often as it is held, and freed with the last.   *)
(* Last the text: each paragraph is built as it was written.               *)
(***************************************************************************)
EXTENDS HostSurface, FiniteSetTheorems, SequenceTheorems, WellFoundedInduction, TLAPS

-----------------------------------------------------------------------------
\* The local state of one render loop, of one guest's lifecycle, of one surface.
LoopStates == [pc : Apps!PCs, cur : Apps!Roles, last : Apps!Roles \union {"none"},
               dirty : BOOLEAN, frame : 0..FocusEvery - 1]
LifeStates == [current : Apps!States, pending : Apps!States, told : Apps!States]
SurfaceStates == [layer : {"fg", "0"}, visible : BOOLEAN]

\* TypeOK with the records named.
Typed ==
    /\ wanted \in [Hosts -> Apps!Roles] /\ orders \in 0..MaxOrders
    /\ sigs \in [Hosts -> SUBSET Apps!Roles] /\ role \in [Hosts -> Apps!Roles]
    /\ host \in [Hosts -> LoopStates] /\ life \in [Hosts -> LifeStates]
    /\ layers \in [Hosts -> SurfaceStates] /\ focus \in Hosts \union {NoHost}

\* A role's meaning for the guest and for the surface has the right type.
LEMMA RoleMeaning ==
    ASSUME NEW q \in Apps!Roles
    PROVE  Apps!LifeOf(q) \in Apps!States /\ Apps!SurfaceOf(q) \in SurfaceStates
BY DEF Apps!Roles, Apps!LifeOf, Apps!SurfaceOf, Apps!States, SurfaceStates

\* Replacing one host's entry in a family of states keeps the family's type.
LEMMA OneEntry ==
    ASSUME NEW S, NEW f \in [Hosts -> S], NEW h \in Hosts, NEW v \in S
    PROVE  [f EXCEPT ![h] = v] \in [Hosts -> S]
OBVIOUS

\* The roles of the hosts behave as HostRoles says.
LEMMA RolesImplemented == HostSpec => Apps!Spec
<1>1. HostInit => Apps!Init
  BY DEF HostInit
<1>2. [HostNext]_hostVars => [Apps!Next]_Apps!vars
  BY DEF HostNext, OfGeometry, OfRoles, OfFrames, OfScene, OfText, hostVars, roleVars, Apps!vars
<1> QED
  BY <1>1, <1>2, PTL DEF HostSpec, Apps!Spec

\* Every field keeps its type in every step of HostRoles.
THEOREM TypeCorrect == HostSpec => []Apps!TypeOK
<1>0. Apps!ConstantsOK
  BY Constants
<1>1. Apps!Init => Typed
  BY <1>0 DEF Apps!ConstantsOK, Apps!Init, Typed, LoopStates, LifeStates, SurfaceStates,
                          Apps!Roles, Apps!States, Apps!PCs
<1>2. Typed /\ [Apps!Next]_Apps!vars => Typed'
  <2> SUFFICES ASSUME Typed, [Apps!Next]_Apps!vars PROVE Typed'
    OBVIOUS
  <2>pc. ASSUME NEW h \in Hosts, NEW p \in Apps!PCs
         PROVE  [host EXCEPT ![h].pc = p] \in [Hosts -> LoopStates]
    <3>1. [host[h] EXCEPT !.pc = p] \in LoopStates
      BY DEF Typed, LoopStates
    <3> QED
      BY <3>1, OneEntry DEF Typed
  <2>1. ASSUME NEW h \in Hosts, Apps!Launch(h) PROVE Typed'
    <3>1. wanted' \in [Hosts -> Apps!Roles]
      BY <2>1, OneEntry DEF Apps!Launch, Typed, Apps!Roles
    <3> QED
      BY <2>1, <2>pc, <3>1 DEF Apps!Launch, Typed, Apps!PCs
  <2>2. ASSUME NEW h \in Hosts, NEW q \in Apps!Roles, Apps!Order(h, q) PROVE Typed'
    <3>1. orders' \in 0..MaxOrders
      BY <1>0, <2>2 DEF Apps!ConstantsOK, Apps!Order, Typed
    <3> QED
      BY <2>2, <3>1 DEF Apps!Order, Typed
  <2>3. ASSUME NEW h \in Hosts, NEW q \in Apps!Roles, Apps!Deliver(h, q) PROVE Typed'
    BY <2>3 DEF Apps!Deliver, Typed
  <2>4. ASSUME NEW h \in Hosts, Apps!ReadRole(h) PROVE Typed'
    <3> DEFINE v == [host[h] EXCEPT !.pc = "apply", !.cur = role[h], !.dirty = FALSE]
    <3>1. v \in LoopStates
      BY DEF Typed, LoopStates, Apps!PCs
    <3>2. host' = [host EXCEPT ![h] = v]
      BY <2>4 DEF Apps!ReadRole
    <3> QED
      BY <2>4, <3>1, <3>2, OneEntry DEF Apps!ReadRole, Typed
  <2>5. ASSUME NEW h \in Hosts, Apps!ApplyRole(h) PROVE Typed'
    <3> DEFINE cur == host[h].cur
               target == Apps!LifeOf(cur)
               v == [host[h] EXCEPT !.pc = "frame", !.last = cur, !.dirty = TRUE]
               lf == [life[h] EXCEPT !.current = target, !.told = target]
    <3>1. cur \in Apps!Roles /\ target \in Apps!States /\ Apps!SurfaceOf(cur) \in SurfaceStates
      BY RoleMeaning DEF Typed, LoopStates
    <3>2. v \in LoopStates /\ lf \in LifeStates
      BY <3>1 DEF Typed, LoopStates, LifeStates, Apps!PCs
    <3>3. host' = [host EXCEPT ![h].pc = "frame"] \/ host' = [host EXCEPT ![h] = v]
      BY <2>5 DEF Apps!ApplyRole
    <3>4. host' \in [Hosts -> LoopStates]
      <4>1. [host EXCEPT ![h].pc = "frame"] \in [Hosts -> LoopStates]
        BY <2>pc DEF Apps!PCs
      <4>2. [host EXCEPT ![h] = v] \in [Hosts -> LoopStates]
        BY <3>2, OneEntry DEF Typed
      <4> QED
        BY <3>3, <4>1, <4>2
    <3>5. life' = life \/ life' = [life EXCEPT ![h] = lf]
      BY <2>5 DEF Apps!ApplyRole
    <3>6. layers' = layers \/ layers' = [layers EXCEPT ![h] = Apps!SurfaceOf(cur)]
      BY <2>5 DEF Apps!ApplyRole
    <3>7. life' \in [Hosts -> LifeStates] /\ layers' \in [Hosts -> SurfaceStates]
      BY <3>1, <3>2, <3>5, <3>6, OneEntry DEF Typed
    <3>8. focus' \in Hosts \union {NoHost}
      BY <2>5 DEF Apps!ApplyRole, Typed
    <3> QED
      BY <2>5, <3>4, <3>7, <3>8 DEF Apps!ApplyRole, Typed
  <2>6. ASSUME NEW h \in Hosts, Apps!SkipFrame(h) PROVE Typed'
    BY <2>6, <2>pc DEF Apps!SkipFrame, Typed, Apps!PCs
  <2>7. ASSUME NEW h \in Hosts, Apps!RenderFrame(h) PROVE Typed'
    <3> DEFINE lf == [life[h] EXCEPT !.told = life[h].pending, !.pending = "none"]
    <3>1. lf \in LifeStates
      BY DEF Typed, LifeStates, Apps!States
    <3>2. life' = life \/ life' = [life EXCEPT ![h] = lf]
      BY <2>7 DEF Apps!RenderFrame
    <3>3. life' \in [Hosts -> LifeStates]
      BY <3>1, <3>2, OneEntry DEF Typed
    <3> QED
      BY <2>7, <2>pc, <3>3 DEF Apps!RenderFrame, Typed, Apps!PCs
  <2>8. ASSUME NEW h \in Hosts, NEW p \in BOOLEAN, Apps!FailFrame(h, p) PROVE Typed'
    BY <2>8, <2>pc DEF Apps!FailFrame, Typed, Apps!PCs
  <2>9. ASSUME NEW h \in Hosts, Apps!RefreshFocus(h) PROVE Typed'
    <3> DEFINE turn == (host[h].frame + 1) % FocusEvery
               ask == turn = 0 /\ role[h] = "Foreground"
               v == [host[h] EXCEPT !.frame = turn, !.pc = IF ask THEN "focus" ELSE "top"]
    <3>1. host[h] \in LoopStates /\ host[h].frame \in Nat
      BY <1>0 DEF Apps!ConstantsOK, Typed, LoopStates
    <3>2. turn \in 0..FocusEvery - 1
      BY <1>0, <3>1 DEF Apps!ConstantsOK
    <3> HIDE DEF turn
    <3>3. v \in LoopStates
      BY <3>1, <3>2 DEF LoopStates, Apps!PCs
    <3>4. host' = [host EXCEPT ![h] = v]
      BY <2>9 DEF Apps!RefreshFocus, turn
    <3>5. host' \in [Hosts -> LoopStates]
      BY <3>3, <3>4, OneEntry DEF Typed
    <3> QED
      BY <2>9, <3>5 DEF Apps!RefreshFocus, Typed
  <2>10. ASSUME NEW h \in Hosts, Apps!RequestFocus(h) PROVE Typed'
    BY <2>10, <2>pc DEF Apps!RequestFocus, Typed, Apps!PCs
  <2>11. ASSUME NEW h \in Hosts, Apps!Shutdown(h) PROVE Typed'
    <3> DEFINE lf == [life[h] EXCEPT !.current = "Destroyed", !.told = "Destroyed"]
    <3>1. lf \in LifeStates /\ life' = [life EXCEPT ![h] = lf]
      BY <2>11 DEF Apps!Shutdown, Typed, LifeStates, Apps!States
    <3>2. life' \in [Hosts -> LifeStates]
      BY <3>1, OneEntry DEF Typed
    <3> QED
      BY <2>11, <2>pc, <3>2 DEF Apps!Shutdown, Typed, Apps!PCs
  <2>12. CASE UNCHANGED Apps!vars
    BY <2>12 DEF Apps!vars, Typed
  <2> QED
    BY <2>1, <2>2, <2>3, <2>4, <2>5, <2>6, <2>7, <2>8, <2>9, <2>10, <2>11, <2>12
       DEF Apps!Next, Apps!Iterate
<1>3. Typed => Apps!TypeOK
  BY DEF Typed, Apps!TypeOK, LoopStates, LifeStates, SurfaceStates
<1> QED
  BY <1>1, <1>2, <1>3, RolesImplemented, PTL DEF Apps!Spec

-----------------------------------------------------------------------------
(* The inductive invariant, host by host.                                  *)

\* Only the cold start queues a transition, and a loop that has not met its
\* first role has told its guest nothing.
OnlyStartQueues(h) ==
    /\ life[h].pending \in {"none", "Resumed"}
    /\ host[h].pc = "off" => host[h].last = "none"
    /\ host[h].last = "none" /\ host[h].pc # "gone" =>
           life[h] = [current |-> "Resumed", pending |-> "Resumed", told |-> "none"]

\* Past the transition block the role read is the role applied.
AppliedIsRead(h) == host[h].pc \in {"frame", "refresh", "focus"} =>
                        host[h].last = host[h].cur

\* A running host's guest and surface are what its last applied role says.
RoleIsApplied(h) == Apps!Running(h) /\ host[h].last # "none" =>
    /\ life[h].current = Apps!LifeOf(host[h].last)
    /\ layers[h] = Apps!SurfaceOf(host[h].last)

\* GuestIsNotMisled, of one host.
NotMisled(h) ==
    \/ life[h].told = life[h].current
    \/ life[h].told = "none" /\ life[h].pending = "Resumed"
         /\ life[h].current = "Resumed"

HostInv(h) == OnlyStartQueues(h) /\ AppliedIsRead(h) /\ RoleIsApplied(h) /\ NotMisled(h)

-----------------------------------------------------------------------------
\* What a step leaves alone in a host's records it leaves alone in HostInv.
LEMMA Untouched ==
    ASSUME NEW g \in Hosts, HostInv(g), host'[g] = host[g], life'[g] = life[g],
           layers'[g] = layers[g]
    PROVE  HostInv(g)'
BY DEF HostInv, OnlyStartQueues, AppliedIsRead, RoleIsApplied, NotMisled, Apps!Running,
       Apps!SurfaceOf, Apps!LifeOf

\* Nor does it matter where the loop moves before the block or past it.
LEMMA OnlyPcMoves ==
    ASSUME NEW h \in Hosts, HostInv(h), life' = life, layers' = layers,
           host'[h].last = host[h].last,
           \/ host'[h].pc \in {"top", "apply", "gone"}
           \/ /\ host'[h].pc \in {"frame", "refresh", "focus"}
              /\ host'[h].last = host'[h].cur,
           host[h].pc # "gone"
    PROVE  HostInv(h)'
BY DEF HostInv, OnlyStartQueues, AppliedIsRead, RoleIsApplied, NotMisled, Apps!Running

\* A step of one host disturbs no other.
LEMMA OneHost ==
    ASSUME Apps!TypeOK, NEW h \in Hosts, Apps!Iterate(h) \/ Apps!Launch(h) \/ Apps!Shutdown(h),
           NEW g \in Hosts \ {h}
    PROVE  host'[g] = host[g] /\ life'[g] = life[g] /\ layers'[g] = layers[g]
<1> USE DEF Apps!TypeOK
<1>1. CASE Apps!Launch(h) BY <1>1 DEF Apps!Launch
<1>2. CASE Apps!Shutdown(h) BY <1>2 DEF Apps!Shutdown
<1>3. CASE Apps!ReadRole(h) BY <1>3 DEF Apps!ReadRole
<1>4. CASE Apps!ApplyRole(h) BY <1>4 DEF Apps!ApplyRole
<1>5. CASE Apps!SkipFrame(h) BY <1>5 DEF Apps!SkipFrame
<1>6. CASE Apps!RenderFrame(h) BY <1>6 DEF Apps!RenderFrame
<1>7. CASE \E p \in BOOLEAN : Apps!FailFrame(h, p) BY <1>7 DEF Apps!FailFrame
<1>8. CASE Apps!RefreshFocus(h) BY <1>8 DEF Apps!RefreshFocus
<1>9. CASE Apps!RequestFocus(h) BY <1>9 DEF Apps!RequestFocus
<1> QED
  BY <1>1, <1>2, <1>3, <1>4, <1>5, <1>6, <1>7, <1>8, <1>9 DEF Apps!Iterate

\* The invariant is kept for the host that steps.
LEMMA SameHost ==
    ASSUME Apps!TypeOK, NEW h \in Hosts, HostInv(h), Apps!Iterate(h) \/ Apps!Launch(h) \/ Apps!Shutdown(h)
    PROVE  HostInv(h)'
<1>0. host \in [Hosts -> LoopStates] /\ life \in [Hosts -> LifeStates]
      /\ layers \in [Hosts -> SurfaceStates]
  BY DEF Apps!TypeOK, LoopStates, LifeStates, SurfaceStates
<1>1. CASE Apps!Launch(h)
  <2>1. /\ host'[h].pc = "top" /\ host'[h].last = host[h].last
        /\ life' = life /\ layers' = layers
    BY <1>0, <1>1 DEF Apps!Launch, LoopStates
  <2> QED
    BY <1>1, <2>1, OnlyPcMoves DEF Apps!Launch
<1>2. CASE Apps!Shutdown(h)
  <2>1. /\ host'[h].pc = "gone" /\ host'[h].last = host[h].last
        /\ life'[h] = [life[h] EXCEPT !.current = "Destroyed", !.told = "Destroyed"]
    BY <1>0, <1>2 DEF Apps!Shutdown, LoopStates
  <2> QED
    BY <1>0, <2>1 DEF HostInv, OnlyStartQueues, AppliedIsRead, RoleIsApplied, NotMisled,
                      Apps!Running, LifeStates
<1>3. CASE Apps!ReadRole(h)
  <2>1. /\ host'[h].pc = "apply" /\ host'[h].last = host[h].last
        /\ life' = life /\ layers' = layers /\ Apps!Running(h)
    BY <1>0, <1>3 DEF Apps!ReadRole, LoopStates, Apps!Running
  <2> QED
    BY <2>1, OnlyPcMoves DEF Apps!Running
<1>4. CASE Apps!ApplyRole(h)
  <2> DEFINE cur == host[h].cur
             target == Apps!LifeOf(cur)
  <2>1. CASE cur = host[h].last
    <3>1. /\ host'[h].pc = "frame" /\ host'[h].last = host[h].last /\ host'[h].cur = cur
          /\ life' = life /\ layers' = layers /\ Apps!Running(h)
      BY <1>0, <1>4, <2>1 DEF Apps!ApplyRole, LoopStates, Apps!Running
    <3> QED
      BY <2>1, <3>1, OnlyPcMoves DEF Apps!Running
  <2>2. CASE cur # host[h].last
    <3>1. /\ host'[h].pc = "frame" /\ host'[h].last = cur /\ host'[h].cur = cur
          /\ layers'[h] = Apps!SurfaceOf(cur) /\ cur \in Apps!Roles
      BY <1>0, <1>4, <2>2 DEF Apps!ApplyRole, LoopStates
    <3>2. \/ life' = life /\ life[h].current = target
          \/ life'[h] = [life[h] EXCEPT !.current = target, !.told = target]
      BY <1>0, <1>4, <2>2 DEF Apps!ApplyRole
    <3>3. /\ life'[h].current = target /\ life'[h].pending = life[h].pending
          /\ NotMisled(h)'
      BY <1>0, <3>2 DEF LifeStates, NotMisled, HostInv
    <3> QED
      BY <3>1, <3>3 DEF HostInv, OnlyStartQueues, AppliedIsRead, RoleIsApplied, Apps!Running, Apps!Roles
  <2> QED
    BY <2>1, <2>2
<1>5. CASE Apps!SkipFrame(h)
  <2>1. /\ host'[h].pc = "refresh" /\ host'[h].last = host[h].last
        /\ host'[h].cur = host[h].cur /\ host[h].last = host[h].cur
        /\ life' = life /\ layers' = layers /\ Apps!Running(h)
    BY <1>0, <1>5 DEF Apps!SkipFrame, LoopStates, Apps!Running, HostInv, AppliedIsRead
  <2> QED
    BY <2>1, OnlyPcMoves DEF Apps!Running
<1>6. CASE Apps!RenderFrame(h)
  <2>1. /\ host'[h].pc = "refresh" /\ host'[h].last = host[h].last
        /\ host'[h].cur = host[h].cur /\ host[h].last = host[h].cur
        /\ host[h].cur \in Apps!Roles \ {"Background"} /\ layers' = layers /\ Apps!Running(h)
    BY <1>0, <1>6 DEF Apps!RenderFrame, LoopStates, Apps!Running, HostInv, AppliedIsRead
  <2>2. life[h].current = "Resumed"
    BY <2>1 DEF HostInv, RoleIsApplied, Apps!LifeOf, Apps!Roles
  <2>3. \/ life' = life /\ life[h].pending = "none"
        \/ /\ life[h].pending # "none"
           /\ life'[h] = [life[h] EXCEPT !.told = life[h].pending, !.pending = "none"]
    BY <1>0, <1>6 DEF Apps!RenderFrame
  <2>4. /\ life'[h].current = life[h].current /\ life'[h].pending = "none"
        /\ NotMisled(h)'
    BY <1>0, <2>2, <2>3 DEF LifeStates, NotMisled, HostInv, OnlyStartQueues
  <2> QED
    BY <2>1, <2>4 DEF HostInv, OnlyStartQueues, AppliedIsRead, RoleIsApplied, Apps!Running, Apps!Roles
<1>7. CASE \E p \in BOOLEAN : Apps!FailFrame(h, p)
  <2>1. /\ host'[h].pc \in {"gone", "refresh"} /\ host'[h].last = host[h].last
        /\ host'[h].cur = host[h].cur /\ host[h].last = host[h].cur
        /\ life' = life /\ layers' = layers /\ Apps!Running(h)
    BY <1>0, <1>7 DEF Apps!FailFrame, LoopStates, Apps!Running, HostInv, AppliedIsRead
  <2> QED
    BY <2>1, OnlyPcMoves DEF Apps!Running
<1>8. CASE Apps!RefreshFocus(h)
  <2>1. /\ host'[h].pc \in {"focus", "top"} /\ host'[h].last = host[h].last
        /\ host'[h].cur = host[h].cur /\ host[h].last = host[h].cur
        /\ life' = life /\ layers' = layers /\ Apps!Running(h)
    BY <1>0, <1>8 DEF Apps!RefreshFocus, LoopStates, Apps!Running, HostInv, AppliedIsRead
  <2> QED
    BY <2>1, OnlyPcMoves DEF Apps!Running
<1>9. CASE Apps!RequestFocus(h)
  <2>1. /\ host'[h].pc = "top" /\ host'[h].last = host[h].last
        /\ life' = life /\ layers' = layers /\ Apps!Running(h)
    BY <1>0, <1>9 DEF Apps!RequestFocus, LoopStates, Apps!Running
  <2> QED
    BY <2>1, OnlyPcMoves DEF Apps!Running
<1> QED
  BY <1>1, <1>2, <1>3, <1>4, <1>5, <1>6, <1>7, <1>8, <1>9 DEF Apps!Iterate

\* The invariant holds initially and is kept by every step.
LEMMA Inductive == HostSpec => [](\A h \in Hosts : HostInv(h))
<1>1. Apps!Init => \A h \in Hosts : HostInv(h)
  BY DEF Apps!Init, HostInv, OnlyStartQueues, AppliedIsRead, RoleIsApplied, NotMisled, Apps!Running
<1>2. Apps!TypeOK /\ (\A h \in Hosts : HostInv(h)) /\ [Apps!Next]_Apps!vars =>
          (\A h \in Hosts : HostInv(h))'
  <2> SUFFICES ASSUME Apps!TypeOK, \A h \in Hosts : HostInv(h), [Apps!Next]_Apps!vars, NEW g \in Hosts
               PROVE  HostInv(g)'
    OBVIOUS
  <2>1. ASSUME NEW h \in Hosts, Apps!Launch(h) \/ Apps!Iterate(h) \/ Apps!Shutdown(h) PROVE HostInv(g)'
    <3>1. CASE g = h
      BY <2>1, <3>1, SameHost
    <3>2. CASE g # h
      BY <2>1, <3>2, OneHost, Untouched
    <3> QED
      BY <3>1, <3>2
  <2>2. ASSUME NEW h \in Hosts, NEW q \in Apps!Roles, Apps!Order(h, q) \/ Apps!Deliver(h, q)
        PROVE  HostInv(g)'
    BY <2>2, Untouched DEF Apps!Order, Apps!Deliver
  <2>3. CASE UNCHANGED Apps!vars
    BY <2>3, Untouched DEF Apps!vars
  <2> QED
    BY <2>1, <2>2, <2>3 DEF Apps!Next
<1> QED
  BY <1>1, <1>2, TypeCorrect, RolesImplemented, PTL DEF Apps!Spec

\* The Resumed a cold start queues is never delivered over a later Paused: what
\* a guest was told last is always what its host thinks of it.
THEOREM NeverMisled == HostSpec => []GuestIsNotMisled
<1>1. (\A h \in Hosts : HostInv(h)) => GuestIsNotMisled
  BY DEF HostInv, NotMisled, GuestIsNotMisled, Apps!GuestIsNotMisled
<1> QED
  BY <1>1, Inductive, PTL

\* A running guest is Paused exactly while its surface is hidden, whatever
\* signals arrive between the iterations of its loop.
THEOREM PausedMeansHidden == HostSpec => []Apps!PausedIffHidden
<1>1. Apps!TypeOK /\ (\A h \in Hosts : HostInv(h)) => Apps!PausedIffHidden
  BY DEF Apps!TypeOK, HostInv, RoleIsApplied, Apps!PausedIffHidden, Apps!LifeOf, Apps!SurfaceOf, Apps!Roles
<1> QED
  BY <1>1, Inductive, TypeCorrect, PTL

-----------------------------------------------------------------------------
(* Frames.                                                                 *)

\* The last element of a stack.
LEMMA TopOfStack ==
    ASSUME NEW S, NEW s \in Seq(S), s # <<>>
    PROVE  Len(s) \in Nat \ {0} /\ Picture!Last(s) = s[Len(s)] /\ s[Len(s)] \in S
BY DEF Picture!Last

\* The stack below its last element.
LEMMA BelowTop ==
    ASSUME NEW S, NEW s \in Seq(S), s # <<>>
    PROVE  /\ Picture!Front(s) \in Seq(S) /\ Len(Picture!Front(s)) = Len(s) - 1
           /\ \A i \in 1..Len(s) - 1 : Picture!Front(s)[i] = s[i]
<1> DEFINE n == Len(s) - 1
<1>1. Len(s) \in Nat \ {0} /\ 1 \in Int /\ n \in Nat /\ n \in Int
  BY TopOfStack
<1>2. \A i \in 1..n : s[i] \in S
  BY <1>1, ElementOfSeq
<1> HIDE DEF n
<1>3. /\ SubSeq(s, 1, n) \in Seq(S) /\ Len(SubSeq(s, 1, n)) = IF 1 <= n THEN n - 1 + 1 ELSE 0
      /\ \A i \in 1..n - 1 + 1 : SubSeq(s, 1, n)[i] = s[1 + i - 1]
  BY <1>1, <1>2, SubSeqProperties
<1>4. Len(SubSeq(s, 1, n)) = n
  BY <1>1, <1>3
<1>5. ASSUME NEW i \in 1..n PROVE SubSeq(s, 1, n)[i] = s[i]
  <2>1. i \in 1..n - 1 + 1 /\ 1 + i - 1 = i
    BY <1>1
  <2> QED
    BY <1>3, <2>1
<1> QED
  BY <1>3, <1>4, <1>5 DEF n, Picture!Front

\* Another element in the place of the last.
LEMMA NewTop ==
    ASSUME NEW S, NEW s \in Seq(S), s # <<>>, NEW x \in S
    PROVE  /\ Picture!Front(s) \o <<x>> \in Seq(S) /\ Len(Picture!Front(s) \o <<x>>) = Len(s)
           /\ \A i \in 1..Len(s) - 1 : (Picture!Front(s) \o <<x>>)[i] = s[i]
           /\ (Picture!Front(s) \o <<x>>)[Len(s)] = x
BY TopOfStack, BelowTop

\* What is saved and restored is as it was.
LEMMA SavedAndRestored ==
    ASSUME NEW S, NEW s \in Seq(S), NEW x \in S
    PROVE  Picture!Front(Append(s, x)) = s
<1>1. Append(s, x) \in Seq(S) /\ Append(s, x) # <<>> /\ Len(Append(s, x)) = Len(s) + 1
      /\ \A i \in 1..Len(s) : Append(s, x)[i] = s[i]
  BY AppendProperties
<1>2. Len(s) \in Nat
  OBVIOUS
<1>3. /\ Picture!Front(Append(s, x)) \in Seq(S) /\ Len(Picture!Front(Append(s, x))) = Len(Append(s, x)) - 1
      /\ \A i \in 1..Len(Append(s, x)) - 1 : Picture!Front(Append(s, x))[i] = Append(s, x)[i]
  BY <1>1, BelowTop
<1>4. /\ Picture!Front(Append(s, x)) \in Seq(S) /\ Len(Picture!Front(Append(s, x))) = Len(s)
      /\ \A i \in 1..Len(s) : Picture!Front(Append(s, x))[i] = s[i]
  BY <1>1, <1>2, <1>3
<1> QED
  BY <1>4, SeqEqual

Inked == {"black", "clear"}
CanvasStates == [m : {"identity", "base", "moved"}, clip : SUBSET Picture!Regions]
Buffers == [by : Presenters, size : Sizes, is : [Picture!Regions -> {"blank", "old"} \union Inked]]

FramesTyped ==
    /\ live \in Sizes /\ buffer \in Buffers
    /\ stack \in Seq(CanvasStates) /\ stack # <<>>
    /\ under \in BOOLEAN /\ frame \in {"none", "open"} /\ frames \in Nat
    /\ clips \in [clips : Seq(SUBSET Picture!Regions), tidy : BOOLEAN] /\ clips.clips # <<>>

\* What a guest that was tidy so far believes of the canvas is what it is.
Mirrors(s, g) ==
    g.tidy => /\ Len(s) = Len(g.clips)
              /\ \A i \in 1..Len(s) : s[i].clip = g.clips[i]

\* Nothing blank, or of an earlier frame, is in the frame a tidy guest draws.
Inking == frame = "open" /\ clips.tidy => \A g \in Picture!Regions : buffer.is[g] \in Inked

FramesInv == FramesTyped /\ Mirrors(stack, clips) /\ Inking

\* A clear or a colour over what is there.
LEMMA OverTyped ==
    ASSUME FramesTyped, NEW colour \in Inked,
           NEW is \in [Picture!Regions -> {"blank", "old"} \union Inked]
    PROVE  /\ Picture!Over(is, colour) \in [Picture!Regions -> {"blank", "old"} \union Inked]
           /\ \A g \in Picture!Regions : Picture!Over(is, colour)[g] \in {is[g], colour}
           /\ Picture!Top.clip = Picture!Regions =>
                  \A g \in Picture!Regions : Picture!Over(is, colour)[g] = colour
BY DEF Picture!Over

\* A guest that left things tidy has one state, with no clip.
LEMMA TidyTop ==
    ASSUME FramesInv, Picture!LeftTidy
    PROVE  Len(stack) = 1 /\ Picture!Top.clip = Picture!Regions
<1>1. clips.tidy /\ clips.clips = <<Picture!Regions>>
  BY DEF Picture!LeftTidy
<1>2. Len(stack) = 1 /\ stack[1].clip = Picture!Regions
  BY <1>1 DEF FramesInv, Mirrors
<1> QED
  BY <1>2 DEF Picture!Top, Picture!Last

\* The base matrix is set, the clear covers all of it.
LEMMA BeginsClean ==
    ASSUME FramesInv, Picture!Begin
    PROVE  /\ FramesInv'
           /\ clips'.tidy => /\ \A g \in Picture!Regions : buffer'.is[g] \in Inked
                             /\ Len(stack') = 1 /\ Picture!Last(stack').m = "base"
<1> DEFINE colour == IF under THEN "clear" ELSE "black"
           state == [Picture!Top EXCEPT !.m = "base"]
<1>0. FramesTyped /\ colour \in Inked
  BY DEF FramesInv, Inked
<1>1. Picture!Aged \in [Picture!Regions -> {"blank", "old"} \union Inked]
  BY DEF Picture!Aged
<1>2. /\ Picture!Over(Picture!Aged, colour) \in [Picture!Regions -> {"blank", "old"} \union Inked]
      /\ Picture!LeftTidy => \A g \in Picture!Regions : Picture!Over(Picture!Aged, colour)[g] \in Inked
  BY <1>0, <1>1, OverTyped, TidyTop
<1>3. /\ buffer' = [buffer EXCEPT !.is = Picture!Over(Picture!Aged, colour)]
      /\ stack' = Picture!Front(stack) \o <<state>>
      /\ clips' = [clips EXCEPT !.tidy = Picture!LeftTidy]
      /\ UNCHANGED <<live, under, shown>> /\ frame' = "open" /\ frames' = frames + 1
  BY DEF Picture!Begin, Picture!SetTop
<1>4. Picture!Top \in CanvasStates /\ Picture!Top = stack[Len(stack)]
  BY <1>0, TopOfStack DEF FramesTyped, Picture!Top
<1>5. state \in CanvasStates /\ state.clip = stack[Len(stack)].clip /\ state.m = "base"
  BY <1>4 DEF CanvasStates
<1> HIDE DEF colour, state
<1>6. /\ stack' \in Seq(CanvasStates) /\ Len(stack') = Len(stack) /\ Len(stack) \in Nat \ {0}
      /\ \A i \in 1..Len(stack) - 1 : stack'[i] = stack[i]
      /\ stack'[Len(stack)] = state
  BY <1>0, <1>3, <1>5, TopOfStack, NewTop DEF FramesTyped
<1>7. clips'.clips = clips.clips /\ clips'.tidy = Picture!LeftTidy /\ (clips'.tidy => clips.tidy)
  BY <1>0, <1>3 DEF FramesTyped, Picture!LeftTidy
<1>8. buffer' \in Buffers /\ buffer'.is = Picture!Over(Picture!Aged, colour)
  BY <1>0, <1>2, <1>3 DEF FramesTyped, Buffers
<1>9. FramesTyped'
  <2>1. clips' \in [clips : Seq(SUBSET Picture!Regions), tidy : BOOLEAN]
    BY <1>0, <1>3 DEF FramesTyped, Picture!LeftTidy
  <2> QED
    BY <1>0, <1>3, <1>6, <1>7, <1>8, <2>1 DEF FramesTyped
<1>10. Mirrors(stack, clips)'
  BY <1>5, <1>6, <1>7 DEF FramesInv, Mirrors
<1>11. clips'.tidy => \A g \in Picture!Regions : buffer'.is[g] \in Inked
  BY <1>2, <1>7, <1>8
<1>12. clips'.tidy => Len(stack') = 1 /\ Picture!Last(stack').m = "base"
  BY <1>5, <1>6, <1>7, TidyTop DEF Picture!Last
<1> QED
  BY <1>9, <1>10, <1>11, <1>12 DEF FramesInv, Inking

\* The states of the canvas, and what the guest believes of them.
LEMMA Canvas ==
    ASSUME FramesTyped
    PROVE  /\ Picture!Top \in CanvasStates /\ Picture!Top = stack[Len(stack)]
           /\ Picture!Top.m \in {"identity", "base", "moved"} /\ Picture!Top.clip \subseteq Picture!Regions
           /\ stack \in Seq(CanvasStates) /\ stack # <<>> /\ Len(stack) \in Nat \ {0}
           /\ clips.clips \in Seq(SUBSET Picture!Regions) /\ clips.clips # <<>>
           /\ Len(clips.clips) \in Nat \ {0} /\ clips.tidy \in BOOLEAN
           /\ Picture!Last(clips.clips) \in SUBSET Picture!Regions
           /\ Picture!Last(clips.clips) = clips.clips[Len(clips.clips)]
<1>1. /\ Picture!Top \in CanvasStates /\ Picture!Top = stack[Len(stack)]
      /\ stack \in Seq(CanvasStates) /\ stack # <<>> /\ Len(stack) \in Nat \ {0}
  BY TopOfStack DEF FramesTyped, Picture!Top
<1>2. /\ clips.clips \in Seq(SUBSET Picture!Regions) /\ clips.clips # <<>> /\ clips.tidy \in BOOLEAN
  BY DEF FramesTyped
<1>3. Picture!Top.m \in {"identity", "base", "moved"} /\ Picture!Top.clip \subseteq Picture!Regions
  BY <1>1 DEF CanvasStates
<1> QED
  BY <1>1, <1>2, <1>3, TopOfStack

\* The types of the rest of the state, which drawing leaves alone.
LEMMA DrawingTyped ==
    ASSUME FramesInv, Picture!Drawing, buffer' \in Buffers,
           stack' \in Seq(CanvasStates), stack' # <<>>,
           NEW c \in Seq(SUBSET Picture!Regions), c # <<>>, clips' = [clips EXCEPT !.clips = c]
    PROVE  FramesTyped' /\ clips'.clips = c /\ clips'.tidy = clips.tidy
BY DEF FramesInv, FramesTyped, Picture!Drawing

LEMMA SavePreserves ==
    ASSUME FramesInv, Picture!Save
    PROVE  FramesInv'
<1> DEFINE c == Append(clips.clips, Picture!Last(clips.clips))
<1>0. FramesTyped /\ Picture!Drawing /\ UNCHANGED buffer
  BY DEF FramesInv, Picture!Save
<1>1. stack' = Append(stack, Picture!Top) /\ clips' = [clips EXCEPT !.clips = c]
  BY DEF Picture!Save
<1>2. /\ stack' \in Seq(CanvasStates) /\ stack' # <<>> /\ Len(stack') = Len(stack) + 1
      /\ \A i \in 1..Len(stack) : stack'[i] = stack[i]
      /\ stack'[Len(stack) + 1] = Picture!Top
  BY <1>0, <1>1, Canvas, AppendProperties
<1>3. /\ c \in Seq(SUBSET Picture!Regions) /\ c # <<>> /\ Len(c) = Len(clips.clips) + 1
      /\ \A i \in 1..Len(clips.clips) : c[i] = clips.clips[i]
      /\ c[Len(clips.clips) + 1] = Picture!Last(clips.clips)
  BY <1>0, Canvas, AppendProperties
<1> HIDE DEF c
<1>4. FramesTyped' /\ clips'.clips = c /\ clips'.tidy = clips.tidy
  BY <1>0, <1>1, <1>2, <1>3, DrawingTyped DEF FramesTyped
<1>5. Mirrors(stack, clips)'
  <2> SUFFICES ASSUME clips.tidy
               PROVE  Len(stack') = Len(c) /\ \A i \in 1..Len(stack') : stack'[i].clip = c[i]
    BY <1>4 DEF Mirrors
  <2>1. Len(stack) = Len(clips.clips) /\ \A i \in 1..Len(stack) : stack[i].clip = clips.clips[i]
    BY DEF FramesInv, Mirrors
  <2>2. Len(stack) \in Nat \ {0}
    BY <1>0, Canvas
  <2>3. Picture!Top.clip = Picture!Last(clips.clips)
    BY <1>0, <2>1, <2>2, Canvas
  <2>4. Len(stack') = Len(stack) + 1 /\ Len(c) = Len(stack) + 1
    BY <1>2, <1>3, <2>1
  <2>5. ASSUME NEW i \in 1..Len(stack') PROVE stack'[i].clip = c[i]
    <3>1. CASE i \in 1..Len(stack)
      BY <1>2, <1>3, <2>1, <3>1
    <3>2. CASE i = Len(stack) + 1
      BY <1>2, <1>3, <2>1, <2>3, <3>2
    <3> QED
      BY <2>2, <2>4, <3>1, <3>2
  <2> QED
    BY <2>4, <2>5
<1>6. Inking'
  BY <1>0, <1>4 DEF FramesInv, Inking, Picture!Drawing
<1> QED
  BY <1>4, <1>5, <1>6 DEF FramesInv

LEMMA RestorePreserves ==
    ASSUME FramesInv, Picture!Restore
    PROVE  FramesInv'
<1> DEFINE c == IF Len(clips.clips) = 1 THEN clips.clips ELSE Picture!Front(clips.clips)
<1>0. FramesTyped /\ Picture!Drawing /\ UNCHANGED buffer
  BY DEF FramesInv, Picture!Restore
<1>1. /\ stack' = IF Len(stack) = 1 THEN stack ELSE Picture!Front(stack)
      /\ clips' = [clips EXCEPT !.clips = c]
  BY DEF Picture!Restore
<1>2. /\ stack' \in Seq(CanvasStates) /\ stack' # <<>>
      /\ Len(stack') = IF Len(stack) = 1 THEN 1 ELSE Len(stack) - 1
      /\ \A i \in 1..Len(stack') : stack'[i] = stack[i]
  <2>1. stack \in Seq(CanvasStates) /\ stack # <<>> /\ Len(stack) \in Nat \ {0}
    BY <1>0, Canvas
  <2>2. /\ Picture!Front(stack) \in Seq(CanvasStates) /\ Len(Picture!Front(stack)) = Len(stack) - 1
        /\ \A i \in 1..Len(stack) - 1 : Picture!Front(stack)[i] = stack[i]
    BY <2>1, BelowTop
  <2>3. Len(stack) # 1 => Picture!Front(stack) # <<>>
    BY <2>1, <2>2
  <2> HIDE DEF Picture!Front
  <2> QED
    BY <1>1, <2>1, <2>2, <2>3
<1>3. /\ c \in Seq(SUBSET Picture!Regions) /\ c # <<>>
      /\ Len(c) = IF Len(clips.clips) = 1 THEN 1 ELSE Len(clips.clips) - 1
      /\ \A i \in 1..Len(c) : c[i] = clips.clips[i]
  <2> DEFINE d == clips.clips
  <2>1. d \in Seq(SUBSET Picture!Regions) /\ d # <<>> /\ Len(d) \in Nat \ {0}
    BY <1>0, Canvas
  <2>2. /\ Picture!Front(d) \in Seq(SUBSET Picture!Regions) /\ Len(Picture!Front(d)) = Len(d) - 1
        /\ \A i \in 1..Len(d) - 1 : Picture!Front(d)[i] = d[i]
    BY <2>1, BelowTop
  <2>3. Len(d) # 1 => Picture!Front(d) # <<>>
    <3> HIDE DEF d
    <3>1. Len(Picture!Front(d)) = Len(d) - 1 /\ Len(d) \in Nat \ {0}
      BY <2>1, <2>2
    <3> HIDE DEF Picture!Front
    <3> QED
      BY <3>1
  <2> HIDE DEF d
  <2>4. c = IF Len(d) = 1 THEN d ELSE Picture!Front(d)
    BY DEF d
  <2> HIDE DEF c
  <2>5. /\ c \in Seq(SUBSET Picture!Regions) /\ c # <<>>
        /\ Len(c) = IF Len(d) = 1 THEN 1 ELSE Len(d) - 1
        /\ \A i \in 1..Len(c) : c[i] = d[i]
    BY <2>1, <2>2, <2>3, <2>4
  <2> QED
    BY <2>5 DEF d
<1> HIDE DEF c
<1>4. FramesTyped' /\ clips'.clips = c /\ clips'.tidy = clips.tidy
  BY <1>0, <1>1, <1>2, <1>3, DrawingTyped DEF FramesTyped
<1>5. Mirrors(stack, clips)'
  <2> SUFFICES ASSUME clips.tidy
               PROVE  Len(stack') = Len(c) /\ \A i \in 1..Len(stack') : stack'[i].clip = c[i]
    BY <1>4 DEF Mirrors
  <2>1. Len(stack) = Len(clips.clips) /\ \A i \in 1..Len(stack) : stack[i].clip = clips.clips[i]
    BY DEF FramesInv, Mirrors
  <2>2. Len(stack) \in Nat \ {0}
    BY <1>0, Canvas
  <2>3. Len(stack') = Len(c) /\ 1..Len(stack') \subseteq 1..Len(stack)
    BY <1>2, <1>3, <2>1, <2>2
  <2> QED
    BY <1>2, <1>3, <2>1, <2>3
<1>6. Inking'
  BY <1>0, <1>4 DEF FramesInv, Inking, Picture!Drawing
<1> QED
  BY <1>4, <1>5, <1>6 DEF FramesInv

\* A matrix replaced, with the clips as they are.
LEMMA MovePreserves ==
    ASSUME FramesInv, Picture!Move
    PROVE  FramesInv'
<1> DEFINE state == [Picture!Top EXCEPT !.m = "moved"]
<1>0. FramesTyped /\ Picture!Drawing /\ UNCHANGED <<buffer, clips>>
  BY DEF FramesInv, Picture!Move
<1>1. stack' = Picture!Front(stack) \o <<state>>
  BY DEF Picture!Move, Picture!SetTop
<1>2. state \in CanvasStates /\ state.clip = stack[Len(stack)].clip
  BY <1>0, Canvas DEF CanvasStates
<1> HIDE DEF state
<1>3. /\ stack' \in Seq(CanvasStates) /\ Len(stack') = Len(stack) /\ stack' # <<>>
      /\ \A i \in 1..Len(stack) - 1 : stack'[i] = stack[i]
      /\ stack'[Len(stack)] = state
  BY <1>0, <1>1, <1>2, Canvas, NewTop
<1>4. FramesTyped'
  BY <1>0, <1>3 DEF FramesTyped, Picture!Drawing
<1>5. Mirrors(stack, clips)'
  BY <1>0, <1>2, <1>3, Canvas DEF FramesInv, Mirrors
<1>6. Inking'
  BY <1>0 DEF FramesInv, Inking, Picture!Drawing
<1> QED
  BY <1>4, <1>5, <1>6 DEF FramesInv

LEMMA ClipPreserves ==
    ASSUME FramesInv, Picture!Clip
    PROVE  FramesInv'
<1> DEFINE state == [Picture!Top EXCEPT !.clip = @ \intersect {"in"}]
           within == Picture!Last(clips.clips) \intersect {"in"}
           c == Picture!Front(clips.clips) \o <<within>>
<1>0. FramesTyped /\ Picture!Drawing /\ UNCHANGED buffer
  BY DEF FramesInv, Picture!Clip
<1>1. /\ stack' = Picture!Front(stack) \o <<state>>
      /\ clips' = [clips EXCEPT !.clips = c]
  BY DEF Picture!Clip, Picture!SetTop
<1>2. state \in CanvasStates /\ state.clip = stack[Len(stack)].clip \intersect {"in"}
  BY <1>0, Canvas DEF CanvasStates
<1>3. within \in SUBSET Picture!Regions /\ within = clips.clips[Len(clips.clips)] \intersect {"in"}
  BY <1>0, Canvas
<1> HIDE DEF state, within
<1>4. /\ stack' \in Seq(CanvasStates) /\ Len(stack') = Len(stack) /\ stack' # <<>>
      /\ \A i \in 1..Len(stack) - 1 : stack'[i] = stack[i]
      /\ stack'[Len(stack)] = state
  BY <1>0, <1>1, <1>2, Canvas, NewTop
<1>5. /\ c \in Seq(SUBSET Picture!Regions) /\ Len(c) = Len(clips.clips) /\ c # <<>>
      /\ \A i \in 1..Len(clips.clips) - 1 : c[i] = clips.clips[i]
      /\ c[Len(clips.clips)] = within
  <2> DEFINE d == clips.clips
  <2>1. d \in Seq(SUBSET Picture!Regions) /\ d # <<>> /\ Len(d) \in Nat \ {0}
    BY <1>0, Canvas
  <2> HIDE DEF d
  <2>2. /\ Picture!Front(d) \o <<within>> \in Seq(SUBSET Picture!Regions)
        /\ Len(Picture!Front(d) \o <<within>>) = Len(d)
        /\ \A i \in 1..Len(d) - 1 : (Picture!Front(d) \o <<within>>)[i] = d[i]
        /\ (Picture!Front(d) \o <<within>>)[Len(d)] = within
    BY <1>3, <2>1, NewTop
  <2>3. c = Picture!Front(d) \o <<within>>
    BY DEF d
  <2> HIDE DEF c
  <2>4. /\ c \in Seq(SUBSET Picture!Regions) /\ Len(c) = Len(d) /\ c # <<>>
        /\ \A i \in 1..Len(d) - 1 : c[i] = d[i]
        /\ c[Len(d)] = within
    BY <2>1, <2>2, <2>3
  <2> QED
    BY <2>4 DEF d
<1> HIDE DEF c
<1>6. FramesTyped' /\ clips'.clips = c /\ clips'.tidy = clips.tidy
  BY <1>0, <1>1, <1>4, <1>5, DrawingTyped DEF FramesTyped
<1>7. Mirrors(stack, clips)'
  <2> SUFFICES ASSUME clips.tidy
               PROVE  Len(stack') = Len(c) /\ \A i \in 1..Len(stack') : stack'[i].clip = c[i]
    BY <1>6 DEF Mirrors
  <2>1. Len(stack) = Len(clips.clips) /\ \A i \in 1..Len(stack) : stack[i].clip = clips.clips[i]
    BY DEF FramesInv, Mirrors
  <2>2. Len(stack) \in Nat \ {0}
    BY <1>0, Canvas
  <2>3. Len(stack') = Len(stack) /\ Len(c) = Len(stack)
    BY <1>4, <1>5, <2>1
  <2>4. ASSUME NEW i \in 1..Len(stack') PROVE stack'[i].clip = c[i]
    <3>1. CASE i \in 1..Len(stack) - 1
      BY <1>4, <1>5, <2>1, <3>1
    <3>2. CASE i = Len(stack)
      <4>1. stack[Len(stack)].clip = clips.clips[Len(clips.clips)]
        BY <2>1, <2>2
      <4> QED
        BY <1>2, <1>3, <1>4, <1>5, <2>1, <3>2, <4>1
    <3> QED
      BY <2>2, <2>3, <3>1, <3>2
  <2> QED
    BY <2>3, <2>4
<1>8. Inking'
  BY <1>0, <1>6 DEF FramesInv, Inking, Picture!Drawing
<1> QED
  BY <1>6, <1>7, <1>8 DEF FramesInv

LEMMA ClearPreserves ==
    ASSUME FramesInv, Picture!Clear
    PROVE  FramesInv'
<1>0. /\ FramesTyped /\ Picture!Drawing /\ UNCHANGED <<stack, clips>>
      /\ buffer' = [buffer EXCEPT !.is = Picture!Over(buffer.is, "black")]
      /\ "black" \in Inked
      /\ buffer.is \in [Picture!Regions -> {"blank", "old"} \union Inked]
  BY DEF FramesInv, Picture!Clear, Inked, FramesTyped, Buffers
<1>1. /\ Picture!Over(buffer.is, "black") \in [Picture!Regions -> {"blank", "old"} \union Inked]
      /\ \A g \in Picture!Regions : Picture!Over(buffer.is, "black")[g] \in {buffer.is[g], "black"}
  BY <1>0, OverTyped
<1>2. buffer' \in Buffers /\ buffer'.is = Picture!Over(buffer.is, "black")
  BY <1>0, <1>1 DEF FramesTyped, Buffers
<1>3. FramesTyped'
  BY <1>0, <1>2 DEF FramesTyped, Picture!Drawing
<1>4. Inking'
  BY <1>0, <1>1, <1>2 DEF FramesInv, Inking, Picture!Drawing
<1>5. Mirrors(stack, clips)'
  BY <1>0 DEF FramesInv, Mirrors
<1> QED
  BY <1>3, <1>4, <1>5 DEF FramesInv

\* A composited video leaves the guest's states as they were.
LEMMA CompositeLeavesTheStack ==
    ASSUME FramesTyped
    PROVE  Picture!Composite(stack) = stack
<1>1. [Picture!Last(stack) EXCEPT !.m = "identity"] \in CanvasStates
  BY Canvas DEF Picture!Top, CanvasStates
<1>2. Picture!Front(Picture!VideoState(stack)) = stack
  BY <1>1, Canvas, SavedAndRestored DEF Picture!VideoState
<1> QED
  BY <1>2 DEF Picture!Composite

\* A canvas of a new size, or none: the guest's idea of it holds if it left it tidy.
LEMMA ResizedTyped ==
    ASSUME FramesInv, NEW size \in Sizes, Picture!Resized(size),
           clips' = [clips EXCEPT !.tidy = Picture!LeftTidy]
    PROVE  /\ buffer' \in Buffers /\ stack' \in Seq(CanvasStates) /\ stack' # <<>>
           /\ Mirrors(stack, clips)'
<1>1. FramesTyped /\ Mirrors(stack, clips)
  BY DEF FramesInv
<1>2. buffer' \in Buffers
  BY <1>1 DEF Picture!Resized, FramesTyped, Buffers, Picture!Blank
<1>3. clips'.clips = clips.clips /\ clips'.tidy = Picture!LeftTidy
  BY <1>1 DEF FramesTyped, Picture!LeftTidy
<1>4. CASE size = 0
  <2>1. stack' = stack
    BY <1>1, <1>4, CompositeLeavesTheStack DEF Picture!Resized
  <2> QED
    BY <1>1, <1>2, <1>3, <2>1 DEF Mirrors, FramesTyped, Picture!LeftTidy
<1>5. CASE size # 0
  <2>1. stack' = <<Picture!Fresh>> /\ Picture!Fresh \in CanvasStates
    BY <1>5 DEF Picture!Resized, Picture!Fresh, CanvasStates
  <2>2. stack' \in Seq(CanvasStates) /\ Len(stack') = 1 /\ stack' # <<>>
        /\ stack'[1].clip = Picture!Regions
    BY <2>1 DEF Picture!Fresh
  <2>3. Mirrors(stack, clips)'
    <3>1. clips'.tidy => clips'.clips = <<Picture!Regions>>
      BY <1>3 DEF Picture!LeftTidy
    <3>2. Len(<<Picture!Regions>>) = 1 /\ <<Picture!Regions>>[1] = Picture!Regions
      OBVIOUS
    <3>3. clips'.tidy => Len(stack') = Len(clips'.clips)
                         /\ \A i \in 1..Len(stack') : stack'[i].clip = clips'.clips[i]
      BY <2>2, <3>1, <3>2
    <3> QED
      BY <3>3 DEF Mirrors
  <2> QED
    BY <1>2, <2>2, <2>3
<1> QED
  BY <1>4, <1>5

\* A frame ends with its canvas, or with another.
LEMMA PresentPreserves ==
    ASSUME FramesInv, Picture!Present
    PROVE  FramesInv'
<1>0. /\ FramesTyped /\ clips' = [clips EXCEPT !.tidy = Picture!LeftTidy]
      /\ frame' = "none" /\ UNCHANGED <<live, under, frames>>
  BY DEF FramesInv, Picture!Present
<1>1. clips' \in [clips : Seq(SUBSET Picture!Regions), tidy : BOOLEAN] /\ clips'.clips = clips.clips
      /\ clips'.tidy = Picture!LeftTidy
  BY <1>0 DEF FramesTyped, Picture!LeftTidy
<1>2. \/ UNCHANGED <<stack, buffer>>
      \/ Picture!Resized(live)
  BY <1>0, CompositeLeavesTheStack DEF Picture!Present
<1>3. /\ buffer' \in Buffers /\ stack' \in Seq(CanvasStates) /\ stack' # <<>>
      /\ Mirrors(stack, clips)'
  <2>1. CASE UNCHANGED <<stack, buffer>>
    BY <1>0, <1>1, <2>1 DEF FramesInv, FramesTyped, Mirrors, Picture!LeftTidy
  <2>2. CASE Picture!Resized(live)
    BY <1>0, <2>2, ResizedTyped DEF FramesTyped
  <2> QED
    BY <1>2, <2>1, <2>2
<1>4. FramesTyped'
  BY <1>0, <1>1, <1>3 DEF FramesTyped
<1>5. Inking'
  BY <1>0 DEF Inking
<1> QED
  BY <1>3, <1>4, <1>5 DEF FramesInv

LEMMA ReconcilePreserves ==
    ASSUME FramesInv, Picture!Reconcile
    PROVE  FramesInv'
<1>0. /\ FramesTyped /\ clips' = [clips EXCEPT !.tidy = Picture!LeftTidy]
      /\ frame' = "none" /\ UNCHANGED <<live, under, frames>>
      /\ Picture!Resized(live)
  BY DEF FramesInv, Picture!Reconcile
<1>1. clips' \in [clips : Seq(SUBSET Picture!Regions), tidy : BOOLEAN] /\ clips'.clips = clips.clips
  BY <1>0 DEF FramesTyped, Picture!LeftTidy
<1>2. /\ buffer' \in Buffers /\ stack' \in Seq(CanvasStates) /\ stack' # <<>>
      /\ Mirrors(stack, clips)'
  BY <1>0, ResizedTyped DEF FramesTyped
<1>3. FramesTyped'
  BY <1>0, <1>1, <1>2 DEF FramesTyped
<1>4. Inking'
  BY <1>0 DEF Inking
<1> QED
  BY <1>2, <1>3, <1>4 DEF FramesInv

\* A guest that leaves its canvas tidy draws each frame on a clean one.
LEMMA FramesInductive ==
    ASSUME FramesInv, [Picture!Next]_(Picture!vars)
    PROVE  FramesInv'
<1>1. CASE Picture!Begin
  BY <1>1, BeginsClean
<1>2. CASE Picture!Save \/ Picture!Restore
  BY <1>2, SavePreserves, RestorePreserves
<1>3. CASE Picture!Move \/ Picture!Clip
  BY <1>3, MovePreserves, ClipPreserves
<1>4. CASE Picture!Clear \/ Picture!Present \/ Picture!Reconcile
  BY <1>4, ClearPreserves, PresentPreserves, ReconcilePreserves
<1>5. CASE Picture!WindowChanges \/ Picture!VideoChanges
  BY <1>5 DEF Picture!WindowChanges, Picture!VideoChanges, FramesInv, FramesTyped, Mirrors,
     Inking, Picture!Regions, Inked, CanvasStates, Buffers
<1>6. CASE UNCHANGED Picture!vars
  BY <1>6 DEF Picture!vars, FramesInv, FramesTyped, Mirrors,
     Inking, Picture!Regions, Inked, CanvasStates, Buffers
<1> QED
  BY <1>1, <1>2, <1>3, <1>4, <1>5, <1>6 DEF Picture!Next

LEMMA FramesInvInit == HostInit => FramesInv
<1> SUFFICES ASSUME HostInit PROVE FramesInv
  OBVIOUS
<1>1. Picture!Init
  BY DEF HostInit
<1>2. Picture!Fresh \in CanvasStates /\ Picture!Fresh.clip = Picture!Regions
  BY DEF Picture!Fresh, CanvasStates
<1>3. FramesTyped
  <2>1. buffer \in Buffers /\ live \in Sizes
    BY <1>1 DEF Picture!Init, Buffers, Picture!Blank
  <2>2. stack \in Seq(CanvasStates) /\ stack # <<>>
    BY <1>1, <1>2 DEF Picture!Init
  <2>3. clips \in [clips : Seq(SUBSET Picture!Regions), tidy : BOOLEAN] /\ clips.clips # <<>>
    BY <1>1 DEF Picture!Init
  <2> QED
    BY <1>1, <2>1, <2>2, <2>3 DEF Picture!Init, FramesTyped
<1>4. Mirrors(stack, clips)
  BY <1>1, <1>2 DEF Picture!Init, Mirrors
<1> QED
  BY <1>1, <1>3, <1>4 DEF Picture!Init, Inking, FramesInv

LEMMA FramesImplemented == HostSpec => Picture!Spec
<1>1. HostInit => Picture!Init
  BY DEF HostInit
<1>2. [HostNext]_hostVars => [Picture!Next]_(Picture!vars)
  BY DEF HostNext, OfGeometry, OfRoles, OfFrames, OfScene, OfText, hostVars, roleVars, frameVars,
     sceneVars, textVars, vars, Picture!vars
<1> QED
  BY <1>1, <1>2, PTL DEF HostSpec, Picture!Spec

\* Drawing begins and is shown in these steps only.
LEMMA FramesStep ==
    ASSUME FramesInv, [Picture!Next]_(Picture!vars)
    PROVE  /\ frames' > frames => Picture!Begin
           /\ shown' # shown => Picture!Present /\ shown' = [size |-> buffer.size, is |-> buffer.is,
                                   tidy |-> Picture!LeftTidy, under |-> under] /\ Picture!Fits
<1>1. frames \in Nat
  BY DEF FramesInv, FramesTyped
<1>2. CASE Picture!Begin
  BY <1>2 DEF Picture!Begin
<1>3. CASE Picture!Save \/ Picture!Restore \/ Picture!Move \/ Picture!Clip \/ Picture!Clear
  BY <1>1, <1>3 DEF Picture!Save, Picture!Restore, Picture!Move, Picture!Clip, Picture!Clear,
     Picture!Drawing
<1>4. CASE Picture!Present
  BY <1>1, <1>4 DEF Picture!Present
<1>5. CASE Picture!Reconcile \/ Picture!WindowChanges \/ Picture!VideoChanges
  BY <1>1, <1>5 DEF Picture!Reconcile, Picture!WindowChanges, Picture!VideoChanges
<1>6. CASE UNCHANGED Picture!vars
  BY <1>1, <1>6 DEF Picture!vars
<1> QED
  BY <1>2, <1>3, <1>4, <1>5, <1>6 DEF Picture!Next

\* A guest that undoes its saves and clips finds every frame cleared all over and
\* drawn through the base matrix, and what a window shows of it is of one frame.
THEOREM WholeFrames == HostSpec => FramesAreWhole
<1> DEFINE Clean == frames' > frames /\ clips'.tidy
                      => /\ \A g \in Picture!Regions : buffer'.is[g] \in {"black", "clear"}
                         /\ Len(stack') = 1 /\ Picture!Last(stack').m = "base"
           Whole == shown' # shown
                      => /\ shown'.tidy => \A g \in Picture!Regions : shown'.is[g] \in {"black", "clear"}
                         /\ buffer.by = "softbuffer" => shown'.size = live
<1>1. HostInit => FramesInv
  BY FramesInvInit
<1>2. FramesInv /\ [Picture!Next]_(Picture!vars) => FramesInv'
  BY FramesInductive
<1>3. FramesInv /\ [Picture!Next]_(Picture!vars) => [Clean]_(Picture!vars)
  BY FramesStep, BeginsClean DEF Inked
<1>4. FramesInv /\ [Picture!Next]_(Picture!vars) => [Whole]_(Picture!vars)
  <2> SUFFICES ASSUME FramesInv, [Picture!Next]_(Picture!vars), shown' # shown
               PROVE  Whole
    OBVIOUS
  <2>1. /\ Picture!Present /\ shown'.is = buffer.is /\ shown'.size = buffer.size
        /\ shown'.tidy = Picture!LeftTidy /\ Picture!Fits
    BY FramesStep
  <2>2. shown'.tidy => \A g \in Picture!Regions : shown'.is[g] \in {"black", "clear"}
    BY <2>1 DEF Picture!Present, FramesInv, Inking, Inked, Picture!LeftTidy
  <2>3. buffer.by = "softbuffer" => shown'.size = live
    BY <2>1 DEF Picture!Fits
  <2> QED
    BY <2>2, <2>3
<1> QED
  BY <1>1, <1>2, <1>3, <1>4, FramesImplemented, PTL
     DEF HostSpec, Picture!Spec, FramesAreWhole, Picture!FramesStartClean, Picture!ShownIsWhole

-----------------------------------------------------------------------------
(* What the operators return.                                              *)

Rects == [x : Int, y : Int, w : Nat, h : Nat]
Renderers == [w : Nat, h : Nat, orient : 0..7, top : Nat, bottom : Nat, kb : Nat]

\* A layout is never empty: the height is clamped to one pixel.
LEMMA LogicalType ==
    ASSUME NEW q \in Renderers
    PROVE  Logical(q) \in Nat \X (Nat \ {0})
BY DEF Renderers, Logical

\* An overlay's rectangle is one, whichever edge it is anchored to.
LEMMA OverlayRectType ==
    ASSUME NEW mode,
           NEW orient \in 0..7, NEW t \in Nat, NEW bars \in Nat \X Nat
    PROVE  OverlayRect(mode, orient, t, bars) \in Rects
<1> DEFINE th == CASE mode = "Top" -> bars[1] [] mode = "BottomBar" -> bars[2]
                   [] OTHER -> t
           off == IF mode = "Bottom" THEN bars[2] ELSE 0
           userBottom == CASE orient = 3 -> "N" [] orient = 4 -> "W"
                           [] orient = 7 -> "E" [] OTHER -> "S"
           opposite == [N |-> "S", S |-> "N", W |-> "E", E |-> "W"]
           edge == IF mode = "Top" THEN opposite[userBottom] ELSE userBottom
<1>1. th \in Nat /\ off \in Nat /\ PanelW \in Nat /\ PanelH \in Nat
  BY SizeAssumption
<1>2. userBottom \in {"N", "S", "W", "E"}
  OBVIOUS
<1>3. edge \in {"N", "S", "W", "E"}
  BY <1>2
<1> HIDE DEF th, off, edge
<1>4. /\ Rect(0, 0, PanelW, PanelH) \in Rects
      /\ Rect(0, PanelH - off - th, PanelW, th) \in Rects
      /\ Rect(0, off, PanelW, th) \in Rects
      /\ Rect(off, 0, th, PanelH) \in Rects
      /\ Rect(PanelW - off - th, 0, th, PanelH) \in Rects
  BY <1>1 DEF Rect, Rects
<1>5. OverlayRect(mode, orient, t, bars) =
        IF mode \notin Overlays THEN Rect(0, 0, PanelW, PanelH)
        ELSE CASE edge = "S" -> Rect(0, PanelH - off - th, PanelW, th)
               [] edge = "N" -> Rect(0, off, PanelW, th)
               [] edge = "W" -> Rect(off, 0, th, PanelH)
               [] edge = "E" -> Rect(PanelW - off - th, 0, th, PanelH)
  BY DEF OverlayRect, th, off, edge
<1> QED
  BY <1>3, <1>4, <1>5

LEMMA StartRectType ==
    StartRect \in Rects
BY SizeAssumption, BarsAssumption DEF StartRect, Rect, Rects

-----------------------------------------------------------------------------
(* The inductive invariant.                                                *)

GeometryTyped ==
    /\ env \in Settings
    /\ pc \in {"overlay", "orient", "inbound", "frame"}
    /\ batch \in 0..MaxBatch
    /\ pending \in Heights \union {0}
    /\ strip \in Nat
    /\ auth \in Orients \union {Keep}
    /\ chrome \in Nat \X Nat
    /\ rect \in Rects
    /\ r \in Renderers
    /\ told \in Nat \X (Nat \ {0})

\* The size told is the size drawn, unless a flip is recorded and due.
ToldUnlessFlipping == FlipPending \/ told = Logical(r)

\* Only overlays move.
OthersStay == ~IsOverlay => rect = StartRect

\* The condition of OverlayAnchored, and the chrome that goes with it.
Steady == (\A bars \in env.bars : Kept(bars) \/ bars = StartBars) /\ ~env.mayFail
ChromeStays == Steady => chrome = StartBars

GeometryInv ==
    /\ GeometryTyped
    /\ ToldUnlessFlipping
    /\ BufferFitsSurface
    /\ OthersStay
    /\ ChromeStays
    /\ OverlayAnchored

-----------------------------------------------------------------------------
\* The setting of a host never changes, nor does what depends on it alone.
LEMMA SameEnv ==
    ASSUME env' = env
    PROVE  /\ Mode' = Mode /\ (IsOverlay' <=> IsOverlay)
           /\ StartRect' = StartRect
           /\ Steady' <=> Steady
BY DEF Mode, IsOverlay, StartRect, Steady, Kept

\* The invariant does not look at the program counter or at what is to come.
LEMMA OnlyControlMoves ==
    ASSUME GeometryInv, UNCHANGED <<env, strip, auth, chrome, rect, r, told>>,
           pc' \in {"overlay", "orient", "inbound", "frame"}, batch' \in 0..MaxBatch,
           pending' \in Heights \union {0}
    PROVE  GeometryInv'
<1>1. GeometryTyped' /\ ToldUnlessFlipping' /\ BufferFitsSurface'
  BY DEF GeometryInv, GeometryTyped, ToldUnlessFlipping, FlipPending, BufferFitsSurface
<1>2. OthersStay' /\ ChromeStays'
  BY SameEnv DEF GeometryInv, OthersStay, ChromeStays
<1>3. OverlayAnchored'
  BY SameEnv DEF GeometryInv, OverlayAnchored, Steady
<1> QED
  BY <1>1, <1>2, <1>3 DEF GeometryInv

\* Moving the surface keeps its types, resizes the buffer with it, and puts an
\* overlay where the orientation wants it.
LEMMA PlaceFits ==
    ASSUME GeometryTyped, BufferFitsSurface, NEW orient \in 0..7, NEW t \in Nat, NEW ok \in BOOLEAN,
           NEW q \in Renderers, q.w = r.w, q.h = r.h, q.orient = orient,
           Place(q, orient, t, ok)
    PROVE  /\ rect' \in Rects /\ r' \in Renderers
           /\ BufferFitsSurface'
           /\ r'.orient = orient
           /\ IsOverlay /\ ok => rect' = OverlayRect(Mode, orient, t, chrome)
           /\ ~(IsOverlay /\ ok) => rect' = rect /\ r' = q
<1>1. CASE IsOverlay /\ ok
  <2>1. /\ rect' = OverlayRect(Mode, orient, t, chrome)
        /\ r' = [q EXCEPT !.w = rect'.w, !.h = rect'.h]
    BY <1>1 DEF Place
  <2>2. rect' \in Rects
    BY <2>1, OverlayRectType DEF GeometryTyped
  <2>3. rect'.w \in Nat /\ rect'.h \in Nat
    BY <2>2 DEF Rects
  <2> QED
    BY <1>1, <2>1, <2>2, <2>3 DEF Renderers, BufferFitsSurface
<1>2. CASE ~(IsOverlay /\ ok)
  BY <1>2 DEF Place, GeometryTyped, BufferFitsSurface
<1> QED
  BY <1>1, <1>2

\* Under a steady chrome the cached heights never change.
LEMMA CachedType ==
    ASSUME GeometryTyped, NEW bars \in env.bars
    PROVE  /\ bars \in Nat \X Nat
           /\ Cached(bars) \in Nat \X Nat
           /\ Steady /\ chrome = StartBars => Cached(bars) = StartBars
<1>1. bars \in Nat \X Nat
  BY SettingsAssumption DEF GeometryTyped
<1>2. Cached(bars) \in Nat \X Nat
  BY <1>1 DEF Cached, GeometryTyped
<1>3. ASSUME Steady, chrome = StartBars PROVE Cached(bars) = StartBars
  BY <1>1, <1>3, BarsAssumption DEF Steady, Cached
<1> QED
  BY <1>1, <1>2, <1>3

\* TakeHeight and ApplyOrient: at most a move and a resize, told together.
LEMMA MovesKeep ==
    ASSUME GeometryInv, NEW ok \in {TRUE, ~env.mayFail}, TakeHeight(ok) \/ ApplyOrient(ok)
    PROVE  GeometryInv'
<1> USE OrientAssumption, SizeAssumption
<1>1. Mode \in Modes /\ ok \in BOOLEAN /\ (Steady => ok)
  BY SettingsAssumption DEF GeometryInv, GeometryTyped, Steady, Mode
<1>2. CASE TakeHeight(ok) /\ pending = 0
  <2>1. /\ UNCHANGED <<env, strip, auth, chrome, rect, r, told, batch>>
        /\ pc' = "orient" /\ pending' = 0
    BY <1>2 DEF TakeHeight
  <2> QED
    BY <2>1, OnlyControlMoves DEF GeometryInv, GeometryTyped
<1>3. CASE TakeHeight(ok) /\ pending > 0
  <2>1. /\ strip' = pending /\ pending' = 0 /\ pc' = "orient"
        /\ UNCHANGED <<env, batch, auth, chrome>>
        /\ Place(r, r.orient, pending, ok)
        /\ told' = IF IsOverlay /\ ok THEN Logical(r') ELSE told
    BY <1>3 DEF TakeHeight
  <2>2. r \in Renderers /\ r.orient \in 0..7 /\ pending \in Nat
    BY <1>3 DEF GeometryInv, GeometryTyped, Renderers
  <2>3. /\ rect' \in Rects /\ r' \in Renderers
        /\ BufferFitsSurface'
        /\ r'.orient = r.orient
        /\ IsOverlay /\ ok => rect' = OverlayRect(Mode, r.orient, pending, chrome)
        /\ ~(IsOverlay /\ ok) => rect' = rect /\ r' = r
    BY <1>1, <2>1, <2>2, PlaceFits DEF GeometryInv
  <2>4. told' \in Nat \X (Nat \ {0})
    BY <2>1, <2>3, LogicalType DEF GeometryInv, GeometryTyped
  <2>5. GeometryTyped' /\ ChromeStays'
    BY <2>1, <2>2, <2>3, <2>4, SameEnv DEF GeometryInv, GeometryTyped, ChromeStays
  <2>6. ToldUnlessFlipping'
    BY <2>1, <2>3 DEF GeometryInv, ToldUnlessFlipping, FlipPending
  <2>7. OthersStay'
    BY <2>1, <2>3, SameEnv DEF GeometryInv, OthersStay
  <2>8. OverlayAnchored'
    <3> SUFFICES ASSUME Steady', (rect # StartRect)'
                 PROVE  (rect = OverlayRect(Mode, r.orient, strip, chrome))'
      BY DEF OverlayAnchored, Steady
    <3>1. Steady /\ ok
      BY <1>1, <2>1, SameEnv
    <3>2. IsOverlay
      BY <2>1, <2>7, SameEnv DEF OthersStay
    <3>3. rect' = OverlayRect(Mode, r'.orient, strip', chrome')
      BY <2>1, <2>3, <3>1, <3>2
    <3> QED
      BY <2>1, <3>3, SameEnv
  <2> QED
    BY <2>3, <2>5, <2>6, <2>7, <2>8 DEF GeometryInv
<1>4. CASE ApplyOrient(ok) /\ ~FlipPending
  <2>1. /\ UNCHANGED <<env, strip, auth, chrome, rect, r, told, pending>>
        /\ pc' = "inbound" /\ batch' \in 0..MaxBatch
    BY <1>4 DEF ApplyOrient
  <2> QED
    BY <2>1, OnlyControlMoves DEF GeometryInv, GeometryTyped
<1>5. CASE ApplyOrient(ok) /\ FlipPending
  <2> DEFINE q == [r EXCEPT !.orient = auth]
  <2>1. /\ pc' = "inbound" /\ batch' \in 0..MaxBatch
        /\ UNCHANGED <<env, pending, strip, auth, chrome>>
        /\ Place(q, auth, strip, ok)
        /\ told' = Logical(r')
    BY <1>5 DEF ApplyOrient
  <2>2. /\ auth \in 0..7 /\ strip \in Nat
        /\ q \in Renderers /\ q.w = r.w /\ q.h = r.h /\ q.orient = auth
    BY <1>5 DEF GeometryInv, GeometryTyped, FlipPending, Renderers
  <2> HIDE DEF q
  <2>3. /\ rect' \in Rects /\ r' \in Renderers
        /\ BufferFitsSurface'
        /\ r'.orient = auth
        /\ IsOverlay /\ ok => rect' = OverlayRect(Mode, auth, strip, chrome)
        /\ ~(IsOverlay /\ ok) => rect' = rect /\ r' = q
    BY <1>1, <2>1, <2>2, PlaceFits DEF GeometryInv
  <2>4. told' \in Nat \X (Nat \ {0})
    BY <2>1, <2>3, LogicalType
  <2>5. GeometryTyped' /\ ChromeStays'
    BY <2>1, <2>2, <2>3, <2>4, SameEnv DEF GeometryInv, GeometryTyped, ChromeStays
  <2>6. ToldUnlessFlipping'
    BY <2>1 DEF ToldUnlessFlipping
  <2>7. OthersStay'
    BY <2>1, <2>3, SameEnv DEF GeometryInv, OthersStay
  <2>8. OverlayAnchored'
    <3> SUFFICES ASSUME Steady', (rect # StartRect)'
                 PROVE  (rect = OverlayRect(Mode, r.orient, strip, chrome))'
      BY DEF OverlayAnchored, Steady
    <3>1. Steady /\ ok
      BY <1>1, <2>1, SameEnv
    <3>2. IsOverlay
      BY <2>1, <2>7, SameEnv DEF OthersStay
    <3>3. rect' = OverlayRect(Mode, r'.orient, strip', chrome')
      BY <2>1, <2>3, <3>1, <3>2
    <3> QED
      BY <2>1, <3>3, SameEnv
  <2> QED
    BY <2>3, <2>5, <2>6, <2>7, <2>8 DEF GeometryInv
<1> QED
  BY <1>2, <1>3, <1>4, <1>5 DEF GeometryInv, GeometryTyped

\* Geometry: insets and chrome change, the surface stays.
LEMMA PushesKeep ==
    ASSUME GeometryInv, NEW px \in Keyboards, NEW bars \in env.bars,
           NEW orient \in Orients \union {Keep}, Geometry(bars, px, orient)
    PROVE  GeometryInv'
<1>1. px \in Nat /\ bars \in Nat \X Nat /\ batch \in Nat /\ MaxBatch \in Nat
  BY KeyboardsAssumption, CachedType DEF GeometryInv, GeometryTyped
<1>2. /\ UNCHANGED <<env, pc, pending, strip, rect>>
      /\ batch > 0 /\ batch' = batch - 1
  BY DEF Geometry
<1>3. batch' \in 0..MaxBatch
  BY <1>1, <1>2 DEF GeometryInv, GeometryTyped
<1>4. /\ r' \in Renderers /\ r'.orient = r.orient /\ r'.w = r.w /\ r'.h = r.h
  <2>1. \/ r' = [r EXCEPT !.kb = px, !.top = bars[1], !.bottom = bars[2]]
        \/ r' = [r EXCEPT !.kb = px]
    BY DEF Geometry
  <2> QED
    BY <1>1, <2>1 DEF GeometryInv, GeometryTyped, Renderers
<1>5. chrome' \in {chrome, Cached(bars)} /\ auth' \in Orients \union {Keep}
  BY DEF Geometry, GeometryInv, GeometryTyped
<1>6. told' = Logical(r') \/ (told' = told /\ FlipPending')
  BY <1>4 DEF Geometry, FlipPending
<1>7. chrome' \in Nat \X Nat /\ (Steady => chrome' = chrome)
  BY <1>5, CachedType DEF GeometryInv, GeometryTyped, ChromeStays
<1>8. GeometryTyped'
  <2>1. told' \in Nat \X (Nat \ {0})
    BY <1>4, <1>6, LogicalType DEF GeometryInv, GeometryTyped
  <2> QED
    BY <1>2, <1>3, <1>4, <1>5, <1>7, <2>1 DEF GeometryInv, GeometryTyped
<1>9. ToldUnlessFlipping' /\ BufferFitsSurface' /\ OthersStay'
  BY <1>2, <1>4, <1>6, SameEnv DEF GeometryInv, ToldUnlessFlipping, BufferFitsSurface, OthersStay,
                          FlipPending
<1>10. Steady' <=> Steady
  BY <1>2, SameEnv
<1>11. ChromeStays'
  BY <1>2, <1>7, <1>10 DEF GeometryInv, ChromeStays
<1>12. OverlayAnchored'
  <2>1. OverlayAnchored <=> (Steady /\ rect # StartRect =>
                                rect = OverlayRect(Mode, r.orient, strip, chrome))
    BY DEF OverlayAnchored, Steady
  <2>2. OverlayAnchored' <=> (Steady' /\ (rect # StartRect)' =>
                                (rect = OverlayRect(Mode, r.orient, strip, chrome))')
    BY DEF OverlayAnchored, Steady
  <2>3. (rect # StartRect)' <=> rect # StartRect
    BY <1>2, SameEnv
  <2>4. Steady => ((rect = OverlayRect(Mode, r.orient, strip, chrome))' <=>
                       rect = OverlayRect(Mode, r.orient, strip, chrome))
    BY <1>2, <1>4, <1>7, SameEnv
  <2> QED
    BY <1>10, <2>1, <2>2, <2>3, <2>4 DEF GeometryInv
<1> QED
  BY <1>8, <1>9, <1>11, <1>12 DEF GeometryInv

-----------------------------------------------------------------------------
\* The invariant holds initially and is kept by every step.
LEMMA GeometryInductive == Spec => []GeometryInv
<1>1. Init => GeometryInv
  <2> SUFFICES ASSUME Init PROVE GeometryInv
    OBVIOUS
  <2>1. rect \in Rects /\ strip \in Nat
    BY StartRectType DEF Init, Rects
  <2>2. r \in Renderers
    BY <2>1, StartRectType, BarsAssumption DEF Init, Rects, Renderers
  <2>3. told \in Nat \X (Nat \ {0})
    BY <2>2, LogicalType DEF Init
  <2>4. GeometryTyped
    BY <2>1, <2>2, <2>3, BarsAssumption, KeyboardsAssumption DEF Init, GeometryTyped
  <2> QED
    BY <2>4 DEF Init, GeometryInv, ToldUnlessFlipping, BufferFitsSurface, OthersStay, ChromeStays,
                OverlayAnchored
<1>2. GeometryInv /\ [Next]_vars => GeometryInv'
  <2> SUFFICES ASSUME GeometryInv, [Next]_vars PROVE GeometryInv'
    OBVIOUS
  <2>1. ASSUME NEW ok \in {TRUE, ~env.mayFail}, TakeHeight(ok) \/ ApplyOrient(ok)
        PROVE  GeometryInv'
    BY <2>1, MovesKeep
  <2>2. ASSUME NEW px \in Keyboards, NEW bars \in env.bars,
               NEW orient \in Orients \union {Keep}, Geometry(bars, px, orient)
        PROVE  GeometryInv'
    BY <2>2, PushesKeep
  <2>3. ASSUME NEW px \in Keyboards, KeyboardInset(px) PROVE GeometryInv'
    <3>1. r' \in Renderers /\ r'.w = r.w /\ r'.h = r.h /\ r'.orient = r.orient
      BY <2>3, KeyboardsAssumption DEF KeyboardInset, GeometryInv, GeometryTyped, Renderers
    <3>2. told' = Logical(r') /\ told' \in Nat \X (Nat \ {0})
      BY <2>3, <3>1, LogicalType DEF KeyboardInset
    <3>3. batch' \in 0..MaxBatch
      BY <2>3, KeyboardsAssumption DEF KeyboardInset, GeometryInv, GeometryTyped
    <3>4. UNCHANGED <<env, pc, pending, strip, auth, chrome, rect>>
      BY <2>3 DEF KeyboardInset
    <3>5. GeometryTyped' /\ ToldUnlessFlipping' /\ BufferFitsSurface'
      BY <3>1, <3>2, <3>3, <3>4 DEF GeometryInv, GeometryTyped, ToldUnlessFlipping, BufferFitsSurface
    <3>6. OthersStay' /\ ChromeStays'
      BY <3>4, SameEnv DEF GeometryInv, OthersStay, ChromeStays
    <3>7. OverlayAnchored'
      BY <3>1, <3>4, SameEnv DEF GeometryInv, OverlayAnchored, Steady
    <3> QED
      BY <3>5, <3>6, <3>7 DEF GeometryInv
  <2>4. CASE Drained \/ Frame \/ (\E h \in Heights : RequestHeight(h)) \/ UNCHANGED vars
    <3>1. UNCHANGED <<env, strip, auth, chrome, rect, r, told, batch>>
      BY <2>4 DEF Drained, Frame, RequestHeight, vars
    <3>2. pending' \in Heights \union {0} /\ pc' \in {"overlay", "orient", "inbound", "frame"}
      BY <2>4 DEF Drained, Frame, RequestHeight, vars, GeometryInv, GeometryTyped
    <3> QED
      BY <3>1, <3>2, OnlyControlMoves DEF GeometryInv, GeometryTyped
  <2> QED
    BY <2>1, <2>2, <2>3, <2>4 DEF Next, Iterate
<1> QED
  BY <1>1, <1>2, PTL DEF Spec

\* The geometry of a host behaves as LoopGeometry says.
LEMMA GeometryImplemented == HostSpec => Spec
<1>1. HostInit => Init
  BY DEF HostInit
<1>2. [HostNext]_hostVars => [Next]_vars
  BY DEF HostNext, OfGeometry, OfRoles, OfFrames, OfScene, OfText, hostVars
<1> QED
  BY <1>1, <1>2, PTL DEF HostSpec, Spec

\* Every field keeps its type; no layout is ever less than a pixel high.
THEOREM GeometryTypes == HostSpec => []TypeOK
<1>1. GeometryInv => TypeOK
  BY DEF GeometryInv, GeometryTyped, TypeOK, Rects, Renderers
<1> QED
  BY <1>1, GeometryInductive, GeometryImplemented, PTL

\* Whenever a frame is rendered and no flip is due, the guest lays out to the
\* size it is drawn at.
THEOREM LayoutIsCurrent == HostSpec => []GuestKnowsItsSize
<1>1. GeometryInv => GuestKnowsItsSize
  BY DEF GeometryInv, ToldUnlessFlipping, GuestKnowsItsSize
<1> QED
  BY <1>1, GeometryInductive, GeometryImplemented, PTL

\* The buffer has the size of its surface, also when SurfaceFlinger refuses a
\* move in the middle of a flip.
THEOREM BufferAlwaysFits == HostSpec => []BufferFitsSurface
BY GeometryInductive, GeometryImplemented, PTL DEF GeometryInv

\* An overlay keeps its edge through any sequence of flips and requests.
THEOREM OverlayKeepsItsEdge == HostSpec => []OverlayAnchored
BY GeometryInductive, GeometryImplemented, PTL DEF GeometryInv

-----------------------------------------------------------------------------
(* Sums over finite sets.                                                  *)

\* A set of naturals that holds 0 and every successor is all of them.
LEMMA SetInduction ==
    ASSUME NEW T, T \subseteq Nat, 0 \in T, \A n \in T : n + 1 \in T
    PROVE  T = Nat
<1> DEFINE R == OpToRel(<, Nat)
<1>1. SUFFICES ASSUME T # Nat PROVE FALSE
  OBVIOUS
<1>2. IsWellFoundedOn(R, Nat)
  BY NatLessThanWellFounded
<1>3. \A x, y \in Nat : x < y => <<x, y>> \in R
  BY DEF OpToRel
<1> HIDE DEF R
<1>4. PICK n \in Nat \ T : \A y \in Nat \ T : <<y, n>> \notin R
  BY <1>1, <1>2, WFMin
<1>5. n # 0 /\ n - 1 \in Nat /\ n - 1 < n /\ n \in Nat /\ (n - 1) + 1 = n
  OBVIOUS
<1>6. <<n - 1, n>> \in R
  BY <1>3, <1>5
<1>7. n - 1 \in T
  BY <1>4, <1>5, <1>6, Zenon
<1> QED
  BY <1>5, <1>7

\* What holds of the empty set, and of a set if it holds without any one of its
\* elements, holds of every subset of a finite set.
LEMMA SubsetInduction ==
    ASSUME NEW S, IsFiniteSet(S), NEW P, {} \in P,
           \A s \in SUBSET S : s # {} /\ (\A x \in s : s \ {x} \in P) => s \in P
    PROVE  \A s \in SUBSET S : s \in P
<1> DEFINE T == {n \in Nat : \A s \in SUBSET S : Cardinality(s) = n => s \in P}
<1>1. \A s \in SUBSET S : IsFiniteSet(s) /\ Cardinality(s) \in Nat
  BY FS_Subset, FS_CardinalityType
<1>2. 0 \in T
  BY <1>1, FS_EmptySet
<1>3. ASSUME NEW n \in T PROVE n + 1 \in T
  <2> SUFFICES ASSUME NEW s \in SUBSET S, Cardinality(s) = n + 1 PROVE s \in P
    OBVIOUS
  <2>1. s # {}
    BY FS_EmptySet
  <2>2. ASSUME NEW x \in s PROVE s \ {x} \in P
    <3>1. Cardinality(s \ {x}) = Cardinality(s) - 1
      BY <1>1, FS_RemoveElement
    <3>2. Cardinality(s \ {x}) = n
      BY <3>1
    <3>3. s \ {x} \in SUBSET S
      OBVIOUS
    <3> QED
      BY <3>2, <3>3
  <2> QED
    BY <2>1, <2>2
<1>4. T = Nat
  <2>1. T \subseteq Nat
    OBVIOUS
  <2> HIDE DEF T
  <2> QED
    BY <1>2, <1>3, <2>1, SetInduction
<1>5. \A s \in SUBSET S : Cardinality(s) \in T
  BY <1>1, <1>4
<1> QED
  BY <1>5

\* The sum of the values of f on S, as the recursion over the subsets takes it.
Total(f, S) == Scene!SumFunctionOnSet(f, S)
Any(s) == CHOOSE x \in s : TRUE
Added(f, g, s) == IF s = {} THEN 0 ELSE f[Any(s)] + g[s \ {Any(s)}]
Sums(f, S, g) == g = [s \in SUBSET S |-> Added(f, g, s)]

\* An element of what is not empty.
LEMMA AnyOf == ASSUME NEW s, s # {} PROVE Any(s) \in s
BY DEF Any

\* The recursion has a solution, which is the sum.
LEMMA SumSolved ==
    ASSUME NEW f, NEW S, IsFiniteSet(S)
    PROVE  \E g : Sums(f, S, g) /\ Total(f, S) = g[S]
<1> DEFINE Upto(m) == {s \in SUBSET S : Cardinality(s) <= m}
           Found(g, m) == g = [s \in Upto(m) |-> Added(f, g, s)]
           T == {m \in Nat : \E g : Found(g, m)}
<1>1. \A s \in SUBSET S : IsFiniteSet(s) /\ Cardinality(s) \in Nat
  BY FS_Subset, FS_CardinalityType
<1>2. 0 \in T
  <2>1. Upto(0) = {{}}
    BY <1>1, FS_EmptySet
  <2> DEFINE g == [s \in {{}} |-> 0]
  <2>2. g = [s \in {{}} |-> Added(f, g, s)]
    BY DEF Added
  <2> HIDE DEF g, Upto
  <2>3. Found(g, 0)
    BY <2>1, <2>2
  <2> QED
    BY <2>3
<1>3. ASSUME NEW m \in T PROVE m + 1 \in T
  <2>1. PICK g : Found(g, m)
    OBVIOUS
  <2>2. m \in Nat
    OBVIOUS
  <2> DEFINE h == [s \in Upto(m + 1) |-> IF s \in Upto(m) THEN g[s] ELSE Added(f, g, s)]
  <2>3. \A s \in Upto(m) : s \in Upto(m + 1)
    BY <1>1, <2>2
  <2>4. ASSUME NEW s \in Upto(m + 1), s # {} PROVE s \ {Any(s)} \in Upto(m)
    <3>1. s \in SUBSET S /\ Cardinality(s) <= m + 1 /\ Any(s) \in s
      BY <2>4, AnyOf
    <3>2. Cardinality(s \ {Any(s)}) = Cardinality(s) - 1
      BY <1>1, <3>1, FS_RemoveElement
    <3>3. Cardinality(s \ {Any(s)}) <= m
      BY <1>1, <2>2, <3>1, <3>2
    <3> QED
      BY <3>1, <3>3
  <2> HIDE DEF Upto
  <2>5. \A s \in Upto(m) : g[s] = Added(f, g, s)
    BY <2>1
  <2>6. \A s \in Upto(m + 1) : h[s] = Added(f, g, s)
    BY <2>5
  <2>7. \A s \in Upto(m) : h[s] = g[s]
    BY <2>3
  <2>8. h = [s \in Upto(m + 1) |-> h[s]]
    OBVIOUS
  <2> HIDE DEF h
  <2>9. \A s \in Upto(m + 1) : Added(f, g, s) = Added(f, h, s)
    BY <2>4, <2>7 DEF Added
  <2>10. Found(h, m + 1)
    BY <2>6, <2>8, <2>9
  <2> QED
    BY <2>2, <2>10
<1>4. T = Nat
  <2>1. T \subseteq Nat
    OBVIOUS
  <2> HIDE DEF T
  <2> QED
    BY <1>2, <1>3, <2>1, SetInduction
<1>5. Upto(Cardinality(S)) = SUBSET S
  BY <1>1, FS_Subset
<1>6. \E g : Sums(f, S, g)
  <2>1. \E g : Found(g, Cardinality(S))
    BY <1>1, <1>4
  <2> HIDE DEF Upto
  <2> QED
    BY <1>5, <2>1 DEF Sums
<1> DEFINE q == CHOOSE g : Sums(f, S, g)
<1>7. Total(f, S) = q[S]
  BY DEF Total, Sums, Added, Any, Scene!SumFunctionOnSet, Scene!FoldFunctionOnSet,
         Scene!MapThenFoldSet
<1>8. Sums(f, S, q)
  BY <1>6
<1> QED
  BY <1>7, <1>8

\* The solution is one, on every set where there is one.
LEMMA SumsAgree ==
    ASSUME NEW f, NEW S, IsFiniteSet(S), NEW g, Sums(f, S, g)
    PROVE  \A s \in SUBSET S : Total(f, s) = g[s]
<1> SUFFICES ASSUME NEW R \in SUBSET S PROVE Total(f, R) = g[R]
  OBVIOUS
<1>1. IsFiniteSet(R)
  BY FS_Subset
<1>2. PICK h : Sums(f, R, h) /\ Total(f, R) = h[R]
  BY <1>1, SumSolved
<1> DEFINE P == {s \in SUBSET R : g[s] = h[s]}
<1>3. \A s \in SUBSET R : g[s] = Added(f, g, s) /\ h[s] = Added(f, h, s)
  <2>1. g = [s \in SUBSET S |-> Added(f, g, s)] /\ h = [s \in SUBSET R |-> Added(f, h, s)]
    BY <1>2 DEF Sums
  <2>2. \A s \in SUBSET R : s \in SUBSET S
    OBVIOUS
  <2> QED
    BY <2>1, <2>2
<1>4. {} \in P
  BY <1>3 DEF Added
<1>5. ASSUME NEW s \in SUBSET R, s # {}, \A x \in s : s \ {x} \in P PROVE s \in P
  BY <1>3, <1>5, AnyOf DEF Added
<1>6. R \in P
  <2> HIDE DEF P
  <2> QED
    BY <1>1, <1>4, <1>5, SubsetInduction
<1> QED
  BY <1>2, <1>6

\* The sum of nothing, and of something.
LEMMA SumUnfolds ==
    ASSUME NEW f, NEW S, IsFiniteSet(S)
    PROVE  Total(f, S) = IF S = {} THEN 0 ELSE f[Any(S)] + Total(f, S \ {Any(S)})
<1>1. PICK g : Sums(f, S, g) /\ Total(f, S) = g[S]
  BY SumSolved
<1>2. g[S] = Added(f, g, S)
  <2>1. g = [s \in SUBSET S |-> Added(f, g, s)] /\ S \in SUBSET S
    BY <1>1 DEF Sums
  <2> QED
    BY <2>1
<1>3. S \ {Any(S)} \in SUBSET S
  OBVIOUS
<1>4. g[S \ {Any(S)}] = Total(f, S \ {Any(S)})
  BY <1>1, <1>3, SumsAgree
<1> QED
  BY <1>1, <1>2, <1>4 DEF Added

Numbers(f, S) == \A x \in S : f[x] \in Nat

\* Numbers add up to a number.
LEMMA SumIsNumber ==
    ASSUME NEW f, NEW S, IsFiniteSet(S), Numbers(f, S)
    PROVE  Total(f, S) \in Nat
<1> DEFINE P == {s \in SUBSET S : Total(f, s) \in Nat}
<1>1. \A s \in SUBSET S : IsFiniteSet(s)
  BY FS_Subset
<1>2. {} \in P
  <2>1. Total(f, {}) = 0
    BY FS_EmptySet, SumUnfolds
  <2> QED
    BY <2>1
<1>3. ASSUME NEW s \in SUBSET S, s # {}, \A x \in s : s \ {x} \in P PROVE s \in P
  <2>1. Total(f, s) = f[Any(s)] + Total(f, s \ {Any(s)})
    BY <1>1, <1>3, SumUnfolds
  <2>2. f[Any(s)] \in Nat /\ Total(f, s \ {Any(s)}) \in Nat
    BY <1>3, AnyOf DEF Numbers
  <2> QED
    BY <2>1, <2>2
<1>4. S \in P
  <2>1. \A s \in SUBSET S : s # {} /\ (\A x \in s : s \ {x} \in P) => s \in P
    BY <1>3
  <2> HIDE DEF P
  <2>2. \A s \in SUBSET S : s \in P
    BY <1>2, <2>1, SubsetInduction
  <2> QED
    BY <2>2
<1> QED
  BY <1>4

\* Any element may be taken out first.
LEMMA SumWithout ==
    ASSUME NEW f, NEW S, IsFiniteSet(S), Numbers(f, S), NEW x \in S
    PROVE  /\ Total(f, S) = f[x] + Total(f, S \ {x})
           /\ Total(f, S) \in Nat /\ Total(f, S \ {x}) \in Nat /\ f[x] \in Nat
<1> DEFINE P == {s \in SUBSET S : \A y \in s : Total(f, s) = f[y] + Total(f, s \ {y})}
<1>1. \A s \in SUBSET S : IsFiniteSet(s) /\ Total(f, s) \in Nat
  BY FS_Subset, SumIsNumber DEF Numbers
<1>2. {} \in P
  OBVIOUS
<1>3. ASSUME NEW s \in SUBSET S, s # {}, \A y \in s : s \ {y} \in P PROVE s \in P
  <2> SUFFICES ASSUME NEW y \in s PROVE Total(f, s) = f[y] + Total(f, s \ {y})
    OBVIOUS
  <2> DEFINE z == Any(s)
  <2>1. z \in s /\ Total(f, s) = f[z] + Total(f, s \ {z})
    BY <1>1, <1>3, SumUnfolds, AnyOf
  <2> HIDE DEF z
  <2>2. CASE y = z
    BY <2>1, <2>2
  <2>3. CASE y # z
    <3>1. Total(f, s \ {z}) = f[y] + Total(f, (s \ {z}) \ {y})
      BY <1>3, <2>1, <2>3
    <3>2. Total(f, s \ {y}) = f[z] + Total(f, (s \ {y}) \ {z})
      BY <1>3, <2>1, <2>3
    <3>3. (s \ {z}) \ {y} = (s \ {y}) \ {z}
      OBVIOUS
    <3>4. Total(f, (s \ {y}) \ {z}) \in Nat /\ f[y] \in Nat /\ f[z] \in Nat
      BY <1>1, <2>1 DEF Numbers
    <3> DEFINE t == Total(f, (s \ {y}) \ {z})
    <3>5. Total(f, s \ {z}) = f[y] + t /\ Total(f, s \ {y}) = f[z] + t
      BY <3>1, <3>2, <3>3
    <3> HIDE DEF t
    <3> QED
      BY <2>1, <3>4, <3>5 DEF t
  <2> QED
    BY <2>2, <2>3
<1>4. S \in P
  <2> HIDE DEF P
  <2> QED
    BY <1>2, <1>3, SubsetInduction
<1>5. S \ {x} \in SUBSET S /\ f[x] \in Nat
  BY DEF Numbers
<1> QED
  BY <1>1, <1>4, <1>5

\* The sum is of the values, whatever else the function is.
LEMMA SumSame ==
    ASSUME NEW f, NEW h, NEW S, IsFiniteSet(S), \A x \in S : f[x] = h[x]
    PROVE  Total(f, S) = Total(h, S)
<1> DEFINE P == {s \in SUBSET S : Total(f, s) = Total(h, s)}
<1>1. \A s \in SUBSET S : IsFiniteSet(s)
  BY FS_Subset
<1>2. {} \in P
  BY <1>1, SumUnfolds
<1>3. ASSUME NEW s \in SUBSET S, s # {}, \A x \in s : s \ {x} \in P PROVE s \in P
  <2>1. /\ Total(f, s) = f[Any(s)] + Total(f, s \ {Any(s)})
        /\ Total(h, s) = h[Any(s)] + Total(h, s \ {Any(s)})
    BY <1>1, <1>3, SumUnfolds
  <2> QED
    BY <1>3, <2>1, AnyOf
<1>4. S \in P
  <2> HIDE DEF P
  <2> QED
    BY <1>2, <1>3, SubsetInduction
<1> QED
  BY <1>4

\* A sum that is nothing is of nothings, and the other way round.
LEMMA SumOfNothing ==
    ASSUME NEW f, NEW S, IsFiniteSet(S), Numbers(f, S)
    PROVE  Total(f, S) = 0 <=> \A x \in S : f[x] = 0
<1>1. ASSUME Total(f, S) = 0, NEW x \in S PROVE f[x] = 0
  <2>1. Total(f, S) = f[x] + Total(f, S \ {x}) /\ Total(f, S \ {x}) \in Nat /\ f[x] \in Nat
    BY SumWithout
  <2> QED
    BY <1>1, <2>1
<1>2. ASSUME \A x \in S : f[x] = 0 PROVE Total(f, S) = 0
  <2> DEFINE P == {s \in SUBSET S : Total(f, s) = 0}
  <2>1. \A s \in SUBSET S : IsFiniteSet(s)
    BY FS_Subset
  <2>2. {} \in P
    BY <2>1, SumUnfolds
  <2>3. ASSUME NEW s \in SUBSET S, s # {}, \A x \in s : s \ {x} \in P PROVE s \in P
    <3>1. Total(f, s) = f[Any(s)] + Total(f, s \ {Any(s)})
      BY <2>1, <2>3, SumUnfolds
    <3> QED
      BY <1>2, <2>3, <3>1, AnyOf
  <2>4. S \in P
    <3>1. \A s \in SUBSET S : s # {} /\ (\A x \in s : s \ {x} \in P) => s \in P
      BY <2>3
    <3> HIDE DEF P
    <3>2. \A s \in SUBSET S : s \in P
      BY <2>2, <3>1, SubsetInduction
    <3> QED
      BY <3>2
  <2> QED
    BY <2>4
<1> QED
  BY <1>1, <1>2

\* One value changes.
LEMMA SumChanges ==
    ASSUME NEW f, NEW h, NEW S, IsFiniteSet(S), Numbers(f, S), Numbers(h, S),
           NEW x \in S, \A y \in S \ {x} : f[y] = h[y]
    PROVE  Total(h, S) + f[x] = Total(f, S) + h[x]
<1>1. Total(f, S) = f[x] + Total(f, S \ {x}) /\ Total(f, S \ {x}) \in Nat /\ f[x] \in Nat
  BY SumWithout
<1>2. Total(h, S) = h[x] + Total(h, S \ {x}) /\ Total(h, S \ {x}) \in Nat /\ h[x] \in Nat
  BY SumWithout
<1>3. Total(f, S \ {x}) = Total(h, S \ {x})
  BY SumSame, FS_Subset
<1> QED
  BY <1>1, <1>2, <1>3

\* A sum falls into two.
LEMMA SumSplits ==
    ASSUME NEW f, NEW S, IsFiniteSet(S), Numbers(f, S), NEW R \in SUBSET S
    PROVE  /\ Total(f, S) = Total(f, R) + Total(f, S \ R)
           /\ Total(f, R) \in Nat /\ Total(f, S \ R) \in Nat
<1> DEFINE P == {s \in SUBSET S : Total(f, S) = Total(f, s) + Total(f, S \ s)}
<1>1. \A s \in SUBSET S : IsFiniteSet(s) /\ Numbers(f, s) /\ Total(f, s) \in Nat
  BY FS_Subset, SumIsNumber DEF Numbers
<1>2. {} \in P
  <2>1. Total(f, {}) = 0 /\ S \ {} = S
    BY <1>1, SumUnfolds
  <2>2. Total(f, S) \in Nat
    BY <1>1
  <2> QED
    BY <2>1, <2>2
<1>3. ASSUME NEW s \in SUBSET S, s # {}, \A x \in s : s \ {x} \in P PROVE s \in P
  <2>1. PICK x \in s : TRUE
    BY <1>3
  <2> DEFINE out == S \ (s \ {x})
  <2>2. Total(f, S) = Total(f, s \ {x}) + Total(f, out)
    BY <1>3
  <2>3. Total(f, s) = f[x] + Total(f, s \ {x})
    BY <1>1, SumWithout
  <2>4. x \in out /\ out \in SUBSET S /\ out \ {x} = S \ s
    OBVIOUS
  <2> HIDE DEF out
  <2>5. Total(f, out) = f[x] + Total(f, S \ s)
    BY <1>1, <2>4, SumWithout
  <2>6. Total(f, s \ {x}) \in Nat /\ Total(f, S \ s) \in Nat /\ f[x] \in Nat
    BY <1>1 DEF Numbers
  <2>7. Total(f, S) = Total(f, s) + Total(f, S \ s)
    BY <2>2, <2>3, <2>5, <2>6
  <2> QED
    BY <2>7
<1>4. R \in P
  <2> HIDE DEF P
  <2> QED
    BY <1>2, <1>3, SubsetInduction
<1>5. S \ R \in SUBSET S
  OBVIOUS
<1> QED
  BY <1>1, <1>4, <1>5

-----------------------------------------------------------------------------
(* Layers within layers: what a content replays.                           *)

\* The scene's own FiniteSets is that of everyone.
LEMMA SameSize ==
    ASSUME NEW S
    PROVE  (Scene!IsFiniteSet(S) <=> IsFiniteSet(S)) /\ Scene!Cardinality(S) = Cardinality(S)
BY DEF IsFiniteSet, Cardinality, Scene!IsFiniteSet, Scene!Cardinality

\* What the constants are assumed to be, in this module's terms.
LEMMA SceneConstants ==
    /\ IsFiniteSet(Layers) /\ IsFiniteSet(Canvases) /\ MaxCaptures \in Nat
    /\ Cardinality(Layers) \in Nat
<1>1. IsFiniteSet(Layers) /\ IsFiniteSet(Canvases) /\ MaxCaptures \in Nat
  BY Constants, SameSize DEF Scene!ConstantsOK
<1> QED
  BY <1>1, FS_CardinalityType

Chain(g, N, D, base, step) ==
    g \in [0..N -> D] /\ g[0] = base /\ \A n \in 1..N : g[n] = step[g[n - 1]]

\* A step within D can be repeated any number of times.
LEMMA Repeated ==
    ASSUME NEW N \in Nat, NEW D, NEW base \in D, NEW step \in [D -> D]
    PROVE  \E g : Chain(g, N, D, base, step)
<1> DEFINE Found(g, m) == /\ g \in [0..m -> D] /\ g[0] = base
                          /\ \A n \in 1..m : g[n] = step[g[n - 1]]
           T == {m \in Nat : \E g : Found(g, m)}
<1>1. 0 \in T
  <2> DEFINE g == [n \in 0..0 |-> base]
  <2>1. Found(g, 0)
    OBVIOUS
  <2> QED
    BY <2>1
<1>2. ASSUME NEW m \in T PROVE m + 1 \in T
  <2>1. PICK g : Found(g, m)
    OBVIOUS
  <2>2. m \in Nat
    OBVIOUS
  <2> DEFINE h == [n \in 0..(m + 1) |-> IF n = m + 1 THEN step[g[m]] ELSE g[n]]
  <2>3. h \in [0..(m + 1) -> D] /\ h[0] = base /\ h[m + 1] = step[g[m]]
    <3>1. g[m] \in D /\ step[g[m]] \in D
      BY <2>1, <2>2
    <3>2. ASSUME NEW n \in 0..(m + 1), n # m + 1 PROVE g[n] \in D
      BY <2>1, <2>2, <3>2
    <3>3. h \in [0..(m + 1) -> D]
      BY <3>1, <3>2
    <3> QED
      BY <2>1, <2>2, <3>3
  <2>4. \A n \in 0..m : h[n] = g[n]
    BY <2>2
  <2> HIDE DEF h
  <2>5. ASSUME NEW n \in 1..(m + 1) PROVE h[n] = step[h[n - 1]]
    <3>1. CASE n = m + 1
      BY <2>2, <2>3, <2>4, <3>1
    <3>2. CASE n # m + 1
      <4>1. n \in 1..m /\ n \in 0..m /\ n - 1 \in 0..m
        BY <2>2, <3>2
      <4> QED
        BY <2>1, <2>4, <4>1
    <3> QED
      BY <3>1, <3>2
  <2>6. Found(h, m + 1)
    BY <2>3, <2>5
  <2> QED
    BY <2>2, <2>6
<1>3. T = Nat
  <2>1. T \subseteq Nat
    OBVIOUS
  <2> HIDE DEF T
  <2> QED
    BY <1>1, <1>2, <2>1, SetInduction
<1> QED
  BY <1>3 DEF Chain

Contents == [marks : SUBSET Marks, caps : [Layers -> Nat]]
LayerStates == [handle : BOOLEAN, refs : Nat, has : Contents, skin : {"plain", "moved"}]
Wider(ls) == ls \union Scene!Children(ls)

\* The rounds of the recursion.
Rounds(has, g) ==
    g = [n \in 0..Scene!Cardinality(Layers) |->
           IF n = 0 THEN Scene!Captured(has) ELSE g[n - 1] \union Scene!Children(g[n - 1])]

\* Each round widens what the one before has reached.
LEMMA RoundsWiden ==
    ASSUME NEW has, NEW g, Rounds(has, g), NEW N \in Nat, N = Scene!Cardinality(Layers)
    PROVE  /\ g[0] = Scene!Captured(has)
           /\ \A n \in 1..N : g[n] = Wider(g[n - 1])
           /\ g \in [0..N -> SUBSET Layers]
<1> DEFINE first == Scene!Captured(has)
           D == SUBSET Layers
<1>1. first \in D /\ \A s \in D : Wider(s) \in D
  BY DEF Wider, Scene!Captured, Scene!Children
<1>2. g = [n \in 0..N |-> IF n = 0 THEN first ELSE Wider(g[n - 1])]
  BY DEF Rounds, Wider
<1> HIDE DEF first, D
<1>3. g[0] = first
  BY <1>2
<1>4. \A n \in 1..N : g[n] = Wider(g[n - 1])
  BY <1>2
<1>5. \A n \in 0..N : g[n] \in D
  <2> DEFINE T == {n \in Nat : n <= N => g[n] \in D}
  <2>1. 0 \in T
    BY <1>1, <1>3
  <2>2. ASSUME NEW n \in T PROVE n + 1 \in T
    <3> SUFFICES ASSUME n + 1 <= N PROVE g[n + 1] \in D
      OBVIOUS
    <3>1. n \in Nat /\ n <= N /\ n + 1 \in 1..N /\ (n + 1) - 1 = n
      OBVIOUS
    <3>2. g[n] \in D /\ g[n + 1] = Wider(g[n])
      BY <1>4, <3>1
    <3> QED
      BY <1>1, <3>2
  <2>3. T = Nat
    <3>1. T \subseteq Nat
      OBVIOUS
    <3> HIDE DEF T
    <3> QED
      BY <2>1, <2>2, <3>1, SetInduction
  <2> QED
    BY <2>3
<1>6. g \in [0..N -> D]
  BY <1>2, <1>5
<1> QED
  BY <1>3, <1>4, <1>6 DEF D, first

\* What is reached is reached in as many rounds as there are layers.
LEMMA ReachedSolved ==
    ASSUME NEW has
    PROVE  \E g : Rounds(has, g) /\ Scene!Reached(has) = g[Scene!Cardinality(Layers)]
<1> DEFINE N == Scene!Cardinality(Layers)
           step == [s \in SUBSET Layers |-> Wider(s)]
           first == Scene!Captured(has)
           D == SUBSET Layers
<1>1. N \in Nat
  BY SceneConstants, SameSize
<1>2. first \in D /\ step \in [D -> D] /\ \A s \in D : step[s] = Wider(s)
  BY DEF Wider, Scene!Captured, Scene!Children
<1> HIDE DEF N, first, D, step
<1>3. PICK g : Chain(g, N, D, first, step)
  BY <1>1, <1>2, Repeated
<1>4. \A n \in 1..N : g[n] = Wider(g[n - 1])
  <2> SUFFICES ASSUME NEW n \in 1..N PROVE g[n] = Wider(g[n - 1])
    OBVIOUS
  <2>1. n - 1 \in 0..N
    BY <1>1
  <2> QED
    BY <1>2, <1>3, <2>1 DEF Chain
<1>5. Rounds(has, g)
  <2>1. \A n \in 0..N : g[n] = IF n = 0 THEN first ELSE g[n - 1] \union Scene!Children(g[n - 1])
    BY <1>1, <1>3, <1>4 DEF Wider, Chain
  <2>2. g = [n \in 0..N |-> g[n]]
    BY <1>3 DEF Chain
  <2> QED
    BY <2>1, <2>2 DEF Rounds, N, first
<1> DEFINE q == CHOOSE h : Rounds(has, h)
<1>6. Scene!Reached(has) = q[N]
  BY DEF Scene!Reached, N, Rounds
<1>7. Rounds(has, q)
  BY <1>5
<1> QED
  BY <1>6, <1>7 DEF N

\* What is reached holds what a content captures, and all that its layers do.
LEMMA ReachedClosed ==
    ASSUME NEW has
    PROVE  /\ Scene!Captured(has) \subseteq Scene!Reached(has)
           /\ Scene!Reached(has) \subseteq Layers
           /\ Scene!Children(Scene!Reached(has)) \subseteq Scene!Reached(has)
<1> DEFINE N == Scene!Cardinality(Layers)
           Closed(s) == Scene!Children(s) \subseteq s
<1>1. PICK g : Rounds(has, g) /\ Scene!Reached(has) = g[N]
  BY ReachedSolved
<1>2. N \in Nat /\ N = Cardinality(Layers) /\ IsFiniteSet(Layers)
  BY SceneConstants, SameSize
<1> HIDE DEF N
<1>3. /\ g[0] = Scene!Captured(has) /\ \A n \in 1..N : g[n] = Wider(g[n - 1])
      /\ \A n \in 0..N : g[n] \in SUBSET Layers
  BY <1>1, <1>2, RoundsWiden DEF N
<1>4. \A s \in SUBSET Layers : IsFiniteSet(s) /\ Cardinality(s) \in Nat
  BY <1>2, FS_Subset, FS_CardinalityType
<1> DEFINE T == {n \in Nat : n <= N => /\ Scene!Captured(has) \subseteq g[n]
                                       /\ Closed(g[n]) \/ Cardinality(g[n]) >= n}
<1>5. 0 \in T
  <2>1. g[0] \in SUBSET Layers /\ Scene!Captured(has) \subseteq g[0]
    BY <1>2, <1>3
  <2>2. Cardinality(g[0]) >= 0
    BY <1>4, <2>1
  <2> QED
    BY <2>1, <2>2
<1>6. ASSUME NEW n \in T PROVE n + 1 \in T
  <2> SUFFICES ASSUME n + 1 <= N
               PROVE  /\ Scene!Captured(has) \subseteq g[n + 1]
                      /\ Closed(g[n + 1]) \/ Cardinality(g[n + 1]) >= n + 1
    OBVIOUS
  <2>1. n \in Nat /\ n <= N /\ n + 1 \in 1..N /\ (n + 1) - 1 = n /\ n \in 0..N /\ n + 1 \in 0..N
    BY <1>2
  <2>2. Scene!Captured(has) \subseteq g[n] /\ (Closed(g[n]) \/ Cardinality(g[n]) >= n)
    BY <2>1
  <2> DEFINE a == g[n]
             b == g[n + 1]
  <2>3. b = Wider(a) /\ a \in SUBSET Layers /\ b \in SUBSET Layers
    BY <1>3, <2>1
  <2>4. a \subseteq b
    BY <2>3 DEF Wider
  <2>5. CASE Closed(a)
    <3>1. b = a
      BY <2>3, <2>5 DEF Wider
    <3> HIDE DEF a, b
    <3>2. Closed(b)
      BY <2>5, <3>1
    <3> QED
      BY <2>2, <2>4, <3>2 DEF a, b
  <2>6. CASE ~Closed(a)
    <3>1. a # b
      BY <2>3, <2>6 DEF Wider
    <3> HIDE DEF a, b, Closed
    <3>2. Cardinality(a) >= n
      BY <2>2, <2>6 DEF a
    <3>3. Cardinality(a) <= Cardinality(b) /\ Cardinality(a) # Cardinality(b)
      BY <1>4, <2>3, <2>4, <3>1, FS_Subset
    <3>4. Cardinality(b) >= n + 1
      BY <1>4, <2>1, <2>3, <3>2, <3>3
    <3> QED
      BY <2>2, <2>4, <3>4 DEF a, b
  <2> QED
    BY <2>5, <2>6
<1>7. T = Nat
  <2>1. T \subseteq Nat
    OBVIOUS
  <2> HIDE DEF T
  <2> QED
    BY <1>5, <1>6, <2>1, SetInduction
<1>8. /\ Scene!Captured(has) \subseteq g[N] /\ g[N] \in SUBSET Layers
      /\ Closed(g[N]) \/ Cardinality(g[N]) >= N
  BY <1>2, <1>3, <1>7
<1>9. CASE Cardinality(g[N]) >= N
  <2>1. g[N] = Layers
    <3>1. Cardinality(g[N]) <= Cardinality(Layers) /\ Cardinality(g[N]) \in Nat
      BY <1>2, <1>4, <1>8, FS_Subset
    <3>2. Cardinality(g[N]) = Cardinality(Layers)
      BY <1>2, <1>9, <3>1
    <3> QED
      BY <1>2, <1>8, <3>2, FS_Subset
  <2>2. Closed(g[N])
    BY <2>1 DEF Scene!Children
  <2> QED
    BY <1>1, <1>8, <2>2
<1> QED
  BY <1>1, <1>8, <1>9

\* And it is the least such set.
LEMMA ReachedLeast ==
    ASSUME NEW has, NEW s \in SUBSET Layers,
           Scene!Captured(has) \subseteq s, Scene!Children(s) \subseteq s
    PROVE  Scene!Reached(has) \subseteq s
<1> DEFINE N == Scene!Cardinality(Layers)
<1>1. PICK g : Rounds(has, g) /\ Scene!Reached(has) = g[N]
  BY ReachedSolved
<1>2. N \in Nat
  BY SceneConstants, SameSize
<1> HIDE DEF N
<1>3. g[0] = Scene!Captured(has) /\ \A n \in 1..N : g[n] = Wider(g[n - 1])
  BY <1>1, <1>2, RoundsWiden DEF N
<1> DEFINE T == {n \in Nat : n <= N => g[n] \subseteq s}
<1>4. 0 \in T
  BY <1>3
<1>5. ASSUME NEW n \in T PROVE n + 1 \in T
  <2> SUFFICES ASSUME n + 1 <= N PROVE g[n + 1] \subseteq s
    OBVIOUS
  <2>1. n \in Nat /\ n + 1 \in 1..N /\ (n + 1) - 1 = n /\ g[n] \subseteq s
    BY <1>2
  <2>2. g[n + 1] = Wider(g[n])
    BY <1>3, <2>1
  <2> QED
    BY <2>1, <2>2 DEF Wider, Scene!Children
<1>6. T = Nat
  <2>1. T \subseteq Nat
    OBVIOUS
  <2> HIDE DEF T
  <2> QED
    BY <1>4, <1>5, <2>1, SetInduction
<1> QED
  BY <1>1, <1>2, <1>6

-----------------------------------------------------------------------------
(* Counting back: what unref does to the layers within.                    *)

HandleOf(x) == IF x.handle THEN 1 ELSE 0
CapsOf(ls, l) == [k \in Layers |-> ls[k].has.caps[l]]

\* The counts are right but for what is due to be given back.
Balanced(ls, held, due) ==
    \A l \in Layers : ls[l].refs = HandleOf(ls[l]) + held[l] + Total(CapsOf(ls, l), Layers) + due[l]
FreedAtNone(ls) == \A l \in Layers : ls[l].refs = 0 => ls[l] = Scene!FreeLayer
Alive(ls) == {l \in Layers : ls[l].refs > 0}
NoneDue(due) == \A l \in Layers : due[l] = 0

\* Contents stay or go.
Shrinks(ls, ms) == \A l \in Layers : ms[l].has = ls[l].has \/ ms[l].has = Scene!Empty

Accounts(held) ==
    {f \in [at : [Layers -> LayerStates], due : [Layers -> Nat]] :
       Balanced(f.at, held, f.due) /\ FreedAtNone(f.at)}

LessOf(f) == [l \in Layers |-> [f.at[l] EXCEPT !.refs = @ - f.due[l]]]
GoneOf(f) == {l \in Layers : f.due[l] > 0 /\ LessOf(f)[l].refs = 0}
StepOf(f) ==
    [at |-> [l \in Layers |-> IF l \in GoneOf(f) THEN Scene!FreeLayer ELSE LessOf(f)[l]],
     due |-> [l \in Layers |->
                Scene!SumFunctionOnSet([k \in Layers |-> f.at[k].has.caps[l]], GoneOf(f))]]

\* A free layer is nothing and captures nothing.
LEMMA FreeIsFree ==
    /\ Scene!FreeLayer \in LayerStates /\ Scene!FreeLayer.refs = 0
    /\ Scene!FreeLayer.handle = FALSE /\ Scene!FreeLayer.has = Scene!Empty
    /\ Scene!Empty \in Contents
    /\ \A l \in Layers : Scene!Empty.caps[l] = 0
BY DEF Scene!FreeLayer, Scene!Empty, Scene!NoCaptures, LayerStates, Contents

\* What a layer is captured by is counted in naturals.
LEMMA CapsAreNumbers ==
    ASSUME NEW ls \in [Layers -> LayerStates], NEW l \in Layers
    PROVE  /\ Numbers(CapsOf(ls, l), Layers) /\ Total(CapsOf(ls, l), Layers) \in Nat
           /\ \A k \in Layers : CapsOf(ls, l)[k] = ls[k].has.caps[l]
<1>1. \A k \in Layers : ls[k].has.caps[l] \in Nat
  BY DEF LayerStates, Contents
<1>2. Numbers(CapsOf(ls, l), Layers)
  BY <1>1 DEF CapsOf, Numbers
<1>3. Total(CapsOf(ls, l), Layers) \in Nat
  BY <1>2, SumIsNumber, SceneConstants
<1> QED
  BY <1>2, <1>3 DEF CapsOf

\* A round: what reaches zero is freed, and what it captured is due next.
LEMMA RoundBalances ==
    ASSUME NEW held \in [Layers -> Nat], NEW f \in Accounts(held), NEW g, g = StepOf(f)
    PROVE  /\ g \in Accounts(held) /\ Shrinks(f.at, g.at)
           /\ Alive(g.at) \subseteq Alive(f.at)
           /\ ~NoneDue(g.due) => ~NoneDue(f.due) /\ Alive(g.at) # Alive(f.at)
<1> DEFINE ls == f.at
           due == f.due
           G == GoneOf(f)
<1>1. /\ ls \in [Layers -> LayerStates] /\ due \in [Layers -> Nat]
      /\ Balanced(ls, held, due) /\ FreedAtNone(ls)
  BY DEF Accounts
<1>2. \A l \in Layers : /\ ls[l].refs \in Nat /\ due[l] \in Nat /\ held[l] \in Nat
                        /\ ls[l].handle \in BOOLEAN /\ HandleOf(ls[l]) \in {0, 1}
                        /\ ls[l] \in LayerStates
  BY <1>1 DEF LayerStates, HandleOf
<1>3. ASSUME NEW l \in Layers
      PROVE  /\ ls[l].refs = HandleOf(ls[l]) + held[l] + Total(CapsOf(ls, l), Layers) + due[l]
             /\ Total(CapsOf(ls, l), Layers) \in Nat /\ ls[l].refs >= due[l]
  <2>1. ls[l].refs = HandleOf(ls[l]) + held[l] + Total(CapsOf(ls, l), Layers) + due[l]
    BY <1>1 DEF Balanced
  <2>2. Total(CapsOf(ls, l), Layers) \in Nat
    BY <1>1, CapsAreNumbers
  <2> DEFINE t == Total(CapsOf(ls, l), Layers)
             h == HandleOf(ls[l])
  <2> HIDE DEF t, h
  <2>3. /\ t \in Nat /\ h \in Nat /\ held[l] \in Nat /\ due[l] \in Nat
        /\ ls[l].refs = h + held[l] + t + due[l]
    BY <1>2, <2>1, <2>2 DEF t, h
  <2>4. ls[l].refs >= due[l]
    BY <2>3
  <2> QED
    BY <2>1, <2>2, <2>4
<1>4. ASSUME NEW l \in Layers
      PROVE  /\ LessOf(f)[l] \in LayerStates /\ LessOf(f)[l].refs = ls[l].refs - due[l]
             /\ LessOf(f)[l].has = ls[l].has /\ LessOf(f)[l].handle = ls[l].handle
             /\ due[l] = 0 => LessOf(f)[l] = ls[l]
  <2>1. ls[l].refs - due[l] \in Nat
    BY <1>2, <1>3
  <2>2. LessOf(f)[l] = [ls[l] EXCEPT !.refs = @ - due[l]]
    BY DEF LessOf
  <2>3. due[l] = 0 => ls[l].refs - due[l] = ls[l].refs
    BY <1>2
  <2> QED
    BY <1>2, <2>1, <2>2, <2>3 DEF LayerStates
<1>5. ASSUME NEW l \in G
      PROVE  /\ HandleOf(ls[l]) = 0 /\ held[l] = 0 /\ Total(CapsOf(ls, l), Layers) = 0
             /\ ls[l].refs > 0 /\ due[l] > 0
  <2>1. l \in Layers /\ due[l] > 0 /\ ls[l].refs - due[l] = 0
    BY <1>4 DEF GoneOf
  <2>2. ls[l].refs = HandleOf(ls[l]) + held[l] + Total(CapsOf(ls, l), Layers) + due[l]
        /\ Total(CapsOf(ls, l), Layers) \in Nat
    BY <1>3, <2>1
  <2> DEFINE t == Total(CapsOf(ls, l), Layers)
             h == HandleOf(ls[l])
             count == ls[l].refs
             u == held[l]
             d == due[l]
  <2>3. t \in Nat /\ count \in Nat /\ u \in Nat /\ d \in Nat /\ h \in {0, 1}
    BY <1>2, <2>1, <2>2
  <2>4. count = h + u + t + d /\ d > 0 /\ count - d = 0
    BY <2>1, <2>2
  <2> HIDE DEF t, h, count, u, d
  <2>5. t = 0 /\ h = 0 /\ u = 0 /\ count > 0
    BY <2>3, <2>4
  <2> QED
    BY <2>1, <2>5 DEF t, h, count, u
<1>6. \A k \in Layers : g.at[k] = IF k \in G THEN Scene!FreeLayer ELSE LessOf(f)[k]
  BY DEF StepOf
<1>7. \A l \in Layers : g.due[l] = Total(CapsOf(ls, l), G)
  BY DEF StepOf, Total, CapsOf
<1>8. DOMAIN g.at = Layers /\ DOMAIN g.due = Layers /\ G \in SUBSET Layers
  BY DEF StepOf, GoneOf
<1>9. g.at \in [Layers -> LayerStates]
  <2>1. \A k \in Layers : g.at[k] \in LayerStates
    BY <1>4, <1>6, FreeIsFree
  <2>2. g.at = [k \in Layers |-> g.at[k]]
    BY DEF StepOf
  <2> QED
    BY <2>1, <2>2
<1> HIDE DEF ls, due, G
<1>10. ASSUME NEW l \in Layers
       PROVE  /\ Total(CapsOf(ls, l), Layers)
                  = Total(CapsOf(ls, l), G) + Total(CapsOf(g.at, l), Layers)
              /\ Total(CapsOf(ls, l), G) \in Nat /\ Total(CapsOf(g.at, l), Layers) \in Nat
  <2> DEFINE a == CapsOf(ls, l)
             b == CapsOf(g.at, l)
  <2>1. /\ Numbers(a, Layers) /\ Numbers(b, Layers)
        /\ \A k \in Layers : a[k] = ls[k].has.caps[l] /\ b[k] = g.at[k].has.caps[l]
    BY <1>1, <1>9, CapsAreNumbers
  <2>2. \A k \in G : b[k] = 0
    BY <1>6, <1>8, <2>1, FreeIsFree
  <2>3. \A k \in Layers \ G : b[k] = a[k]
    BY <1>4, <1>6, <2>1
  <2> HIDE DEF a, b
  <2>4. IsFiniteSet(Layers) /\ IsFiniteSet(G) /\ IsFiniteSet(Layers \ G)
    BY <1>8, SceneConstants, FS_Subset
  <2>5. /\ Total(a, Layers) = Total(a, G) + Total(a, Layers \ G)
        /\ Total(a, G) \in Nat /\ Total(a, Layers \ G) \in Nat
    BY <1>8, <2>1, <2>4, SumSplits
  <2>6. /\ Total(b, Layers) = Total(b, G) + Total(b, Layers \ G)
        /\ Total(b, G) \in Nat /\ Total(b, Layers \ G) \in Nat
    BY <1>8, <2>1, <2>4, SumSplits
  <2>7. Total(b, G) = 0
    <3>1. Numbers(b, G)
      BY <2>2 DEF Numbers
    <3> QED
      BY <2>2, <2>4, <3>1, SumOfNothing
  <2>8. Total(b, Layers \ G) = Total(a, Layers \ G)
    BY <2>3, <2>4, SumSame
  <2>9. /\ Total(a, Layers) = Total(a, G) + Total(b, Layers)
        /\ Total(a, G) \in Nat /\ Total(b, Layers) \in Nat
    BY <2>5, <2>6, <2>7, <2>8
  <2> QED
    BY <2>9 DEF a, b
<1>11. g.due \in [Layers -> Nat]
  <2>1. \A l \in Layers : g.due[l] \in Nat
    BY <1>7, <1>10
  <2>2. g.due = [l \in Layers |-> g.due[l]]
    BY DEF StepOf
  <2> QED
    BY <2>1, <2>2
<1>12. Balanced(g.at, held, g.due)
  <2> SUFFICES ASSUME NEW l \in Layers
               PROVE  g.at[l].refs = HandleOf(g.at[l]) + held[l] + Total(CapsOf(g.at, l), Layers)
                                     + g.due[l]
    BY DEF Balanced
  <2> DEFINE t == Total(CapsOf(ls, l), Layers)
             t1 == Total(CapsOf(ls, l), G)
             t2 == Total(CapsOf(g.at, l), Layers)
  <2>1. t = t1 + t2 /\ t1 \in Nat /\ t2 \in Nat /\ g.due[l] = t1
    BY <1>7, <1>10
  <2>2. CASE l \in G
    <3>1. HandleOf(ls[l]) = 0 /\ held[l] = 0 /\ t = 0
      BY <1>5, <2>2
    <3>2. g.at[l].refs = 0 /\ HandleOf(g.at[l]) = 0
      BY <1>6, <2>2, FreeIsFree DEF HandleOf
    <3> HIDE DEF t, t1, t2
    <3>3. t1 = 0 /\ t2 = 0
      BY <2>1, <3>1
    <3>4. g.at[l].refs = HandleOf(g.at[l]) + held[l] + t2 + g.due[l]
      BY <2>1, <3>1, <3>2, <3>3
    <3> QED
      BY <3>4 DEF t2
  <2>3. CASE l \notin G
    <3>1. g.at[l].refs = ls[l].refs - due[l] /\ g.at[l].handle = ls[l].handle
      BY <1>4, <1>6, <2>3
    <3>2. ls[l].refs = HandleOf(ls[l]) + held[l] + t + due[l]
      BY <1>3
    <3>3. HandleOf(g.at[l]) = HandleOf(ls[l])
      BY <3>1 DEF HandleOf
    <3> DEFINE h == HandleOf(ls[l])
    <3> HIDE DEF t, t1, t2, h
    <3>4. h \in Nat /\ held[l] \in Nat /\ due[l] \in Nat /\ ls[l].refs \in Nat
      BY <1>2 DEF h
    <3>5. g.at[l].refs = h + held[l] + t2 + g.due[l]
      BY <2>1, <3>1, <3>2, <3>4 DEF h
    <3> QED
      BY <3>3, <3>5 DEF t2, h
  <2> QED
    BY <2>2, <2>3
<1>13. FreedAtNone(g.at)
  <2> SUFFICES ASSUME NEW l \in Layers, g.at[l].refs = 0 PROVE g.at[l] = Scene!FreeLayer
    BY DEF FreedAtNone
  <2>1. CASE l \in G
    BY <1>6, <2>1
  <2>2. CASE l \notin G
    <3>1. g.at[l] = LessOf(f)[l] /\ LessOf(f)[l].refs = 0
      BY <1>6, <2>2
    <3>2. due[l] = 0
      BY <1>2, <2>2, <3>1 DEF G, GoneOf, due
    <3>3. LessOf(f)[l] = ls[l] /\ ls[l].refs = 0
      BY <1>4, <3>1, <3>2
    <3> QED
      BY <1>1, <3>1, <3>3 DEF FreedAtNone
  <2> QED
    BY <2>1, <2>2
<1>14. g \in Accounts(held)
  <2>1. g = [at |-> g.at, due |-> g.due]
    BY DEF StepOf
  <2> QED
    BY <1>9, <1>11, <1>12, <1>13, <2>1 DEF Accounts
<1>15. Shrinks(f.at, g.at)
  BY <1>4, <1>6, FreeIsFree DEF Shrinks, ls
<1>16. Alive(g.at) \subseteq Alive(f.at)
  <2> SUFFICES ASSUME NEW l \in Layers, g.at[l].refs > 0 PROVE ls[l].refs > 0
    BY DEF Alive, ls
  <2>1. l \notin G
    BY <1>6, FreeIsFree
  <2>2. ls[l].refs - due[l] > 0
    BY <1>4, <1>6, <2>1
  <2> QED
    BY <1>2, <2>2
<1>17. ASSUME ~NoneDue(g.due) PROVE ~NoneDue(f.due) /\ Alive(g.at) # Alive(f.at)
  <2>1. PICK l \in Layers : g.due[l] # 0
    BY <1>17 DEF NoneDue
  <2>2. G # {}
    <3>1. Total(CapsOf(ls, l), {}) = 0
      BY FS_EmptySet, SumUnfolds
    <3> QED
      BY <1>7, <2>1, <3>1
  <2>3. PICK k \in G : TRUE
    BY <2>2
  <2>4. k \in Layers /\ due[k] > 0 /\ ls[k].refs > 0
    BY <1>5, <1>8, <2>3
  <2>5. due[k] # 0
    BY <1>2, <2>4
  <2>6. g.at[k].refs = 0
    BY <1>6, <2>3, <2>4, FreeIsFree
  <2>7. k \in Alive(f.at) /\ k \notin Alive(g.at)
    BY <2>4, <2>6 DEF Alive, ls
  <2> QED
    BY <2>4, <2>5, <2>7 DEF NoneDue, due
<1> QED
  BY <1>14, <1>15, <1>16, <1>17


\* The rounds of the recursion.
UnrefRounds(ls, caps, g) ==
    g = [n \in 0..Scene!Cardinality(Layers) |->
           IF n = 0 THEN StepOf([at |-> ls, due |-> caps]) ELSE StepOf(g[n - 1])]

\* Unref is what there is after as many rounds as there are layers.
LEMMA UnrefSolved ==
    ASSUME NEW held \in [Layers -> Nat], NEW ls, NEW caps,
           [at |-> ls, due |-> caps] \in Accounts(held)
    PROVE  \E g : /\ Chain(g, Cardinality(Layers), Accounts(held),
                           StepOf([at |-> ls, due |-> caps]), [f \in Accounts(held) |-> StepOf(f)])
                  /\ Scene!Unref(ls, caps) = g[Cardinality(Layers)].at
<1> DEFINE N == Scene!Cardinality(Layers)
           D == Accounts(held)
           step == [f \in D |-> StepOf(f)]
           first == StepOf([at |-> ls, due |-> caps])
<1>1. N \in Nat /\ N = Cardinality(Layers)
  BY SceneConstants, SameSize
<1>2. first \in D /\ step \in [D -> D] /\ \A f \in D : step[f] = StepOf(f)
  BY RoundBalances
<1> HIDE DEF N, D, first, step
<1>3. PICK g : Chain(g, N, D, first, step)
  BY <1>1, <1>2, Repeated
<1>4. UnrefRounds(ls, caps, g)
  <2>1. ASSUME NEW n \in 0..N PROVE g[n] = IF n = 0 THEN first ELSE StepOf(g[n - 1])
    <3>1. CASE n = 0
      BY <1>3, <3>1 DEF Chain
    <3>2. CASE n # 0
      <4>1. n \in 1..N /\ n - 1 \in 0..N
        BY <1>1, <3>2
      <4> QED
        BY <1>2, <1>3, <3>2, <4>1 DEF Chain
    <3> QED
      BY <3>1, <3>2
  <2>2. g = [n \in 0..N |-> g[n]]
    BY <1>3 DEF Chain
  <2>3. g = [n \in 0..N |-> IF n = 0 THEN first ELSE StepOf(g[n - 1])]
    BY <2>1, <2>2
  <2> QED
    BY <2>3 DEF UnrefRounds, N, first
<1> DEFINE q == CHOOSE h : UnrefRounds(ls, caps, h)
<1>5. Scene!Unref(ls, caps) = q[N].at
  BY DEF Scene!Unref, UnrefRounds, StepOf, GoneOf, LessOf, N
<1>6. UnrefRounds(ls, caps, q)
  BY <1>4
<1>7. q = g
  <2> SUFFICES ASSUME NEW h, UnrefRounds(ls, caps, h) PROVE h = g
    BY <1>6
  <2>1. /\ DOMAIN h = 0..N /\ DOMAIN g = 0..N
        /\ h = [n \in 0..N |-> h[n]] /\ g = [n \in 0..N |-> g[n]]
    BY <1>4 DEF UnrefRounds, N
  <2>2. h[0] = g[0] /\ \A n \in 1..N : h[n] = StepOf(h[n - 1]) /\ g[n] = StepOf(g[n - 1])
    BY <1>1, <1>4 DEF UnrefRounds, N
  <2> DEFINE T == {n \in Nat : n <= N => h[n] = g[n]}
  <2>3. 0 \in T
    BY <2>2
  <2>4. ASSUME NEW n \in T PROVE n + 1 \in T
    <3> SUFFICES ASSUME n + 1 <= N PROVE h[n + 1] = g[n + 1]
      OBVIOUS
    <3>1. n \in Nat /\ n <= N /\ n + 1 \in 1..N /\ (n + 1) - 1 = n /\ h[n] = g[n]
      BY <1>1
    <3> QED
      BY <2>2, <3>1
  <2>5. T = Nat
    <3>1. T \subseteq Nat
      OBVIOUS
    <3> HIDE DEF T
    <3> QED
      BY <2>3, <2>4, <3>1, SetInduction
  <2>6. \A n \in 0..N : h[n] = g[n]
    BY <1>1, <2>5
  <2> QED
    BY <2>1, <2>6
<1> HIDE DEF q
<1>8. Chain(g, N, D, first, step) /\ Scene!Unref(ls, caps) = g[N].at
  BY <1>3, <1>5, <1>7
<1> QED
  BY <1>1, <1>8 DEF D, first, step

\* Unref gives back all that was due, and frees exactly what nothing holds.
LEMMA UnrefBalances ==
    ASSUME NEW held \in [Layers -> Nat], NEW ls, NEW caps,
           [at |-> ls, due |-> caps] \in Accounts(held)
    PROVE  /\ Scene!Unref(ls, caps) \in [Layers -> LayerStates]
           /\ Balanced(Scene!Unref(ls, caps), held, Scene!NoCaptures)
           /\ FreedAtNone(Scene!Unref(ls, caps)) /\ Shrinks(ls, Scene!Unref(ls, caps))
<1> DEFINE N == Cardinality(Layers)
           D == Accounts(held)
           step == [f \in D |-> StepOf(f)]
           start == [at |-> ls, due |-> caps]
           first == StepOf(start)
<1>1. PICK g : Chain(g, N, D, first, step) /\ Scene!Unref(ls, caps) = g[N].at
  BY UnrefSolved
<1>2. N \in Nat /\ IsFiniteSet(Layers)
  BY SceneConstants
<1>3. g \in [0..N -> D] /\ g[0] = StepOf(start) /\ \A n \in 1..N : g[n] = step[g[n - 1]]
  BY <1>1 DEF Chain
<1> HIDE DEF N
<1>4. \A n \in 0..N : g[n] \in D
  BY <1>3
<1>5. \A n \in 1..N : g[n] = StepOf(g[n - 1])
  <2> SUFFICES ASSUME NEW n \in 1..N PROVE g[n] = StepOf(g[n - 1])
    OBVIOUS
  <2>1. n - 1 \in 0..N
    BY <1>2
  <2>2. g[n - 1] \in D
    BY <1>4, <2>1
  <2>3. step[g[n - 1]] = StepOf(g[n - 1])
    BY <2>2
  <2> QED
    BY <1>3, <2>3
<1>6. start \in D /\ start.at = ls
  OBVIOUS
<1>7. /\ Shrinks(ls, g[0].at) /\ Alive(g[0].at) \subseteq Alive(ls)
      /\ ~NoneDue(g[0].due) => Alive(g[0].at) # Alive(ls)
  BY <1>2, <1>3, <1>4, <1>6, RoundBalances
<1>8. ASSUME NEW n \in 1..N
      PROVE  /\ Shrinks(g[n - 1].at, g[n].at) /\ Alive(g[n].at) \subseteq Alive(g[n - 1].at)
             /\ ~NoneDue(g[n].due) => ~NoneDue(g[n - 1].due) /\ Alive(g[n].at) # Alive(g[n - 1].at)
  <2>1. n - 1 \in 0..N /\ n \in 0..N
    BY <1>2
  <2> QED
    BY <1>4, <1>5, <2>1, RoundBalances
<1>9. \A ms : /\ IsFiniteSet(Alive(ms)) /\ Cardinality(Alive(ms)) \in Nat
              /\ Cardinality(Alive(ms)) <= N
  <2> SUFFICES ASSUME NEW ms
               PROVE  /\ IsFiniteSet(Alive(ms)) /\ Cardinality(Alive(ms)) \in Nat
                      /\ Cardinality(Alive(ms)) <= N
    OBVIOUS
  <2>1. Alive(ms) \in SUBSET Layers
    BY DEF Alive
  <2> QED
    BY <1>2, <2>1, FS_Subset, FS_CardinalityType DEF N
<1>10. ASSUME NEW ms, NEW ns, Alive(ns) \subseteq Alive(ms), Alive(ns) # Alive(ms)
       PROVE  Cardinality(Alive(ns)) + 1 <= Cardinality(Alive(ms))
  <2>1. Cardinality(Alive(ns)) <= Cardinality(Alive(ms))
        /\ Cardinality(Alive(ns)) # Cardinality(Alive(ms))
    BY <1>9, <1>10, FS_Subset
  <2> QED
    BY <1>9, <2>1
<1> HIDE DEF D, step, first, start
<1> DEFINE Done(n) == NoneDue(g[n].due) \/ Cardinality(Alive(g[n].at)) + n + 1 <= N
           T == {n \in Nat : n <= N => Shrinks(ls, g[n].at) /\ Done(n)}
<1>11. 0 \in T
  <2>1. CASE NoneDue(g[0].due)
    BY <1>7, <2>1
  <2>2. CASE ~NoneDue(g[0].due)
    <3>1. Cardinality(Alive(g[0].at)) + 1 <= Cardinality(Alive(ls))
      BY <1>7, <1>10, <2>2
    <3>2. Cardinality(Alive(g[0].at)) + 0 + 1 <= N
      BY <1>2, <1>9, <3>1
    <3> QED
      BY <1>7, <3>2
  <2> QED
    BY <2>1, <2>2
<1>12. ASSUME NEW n \in T PROVE n + 1 \in T
  <2> SUFFICES ASSUME n + 1 <= N PROVE Shrinks(ls, g[n + 1].at) /\ Done(n + 1)
    OBVIOUS
  <2>1. n \in Nat /\ n <= N /\ n + 1 \in 1..N /\ (n + 1) - 1 = n /\ Shrinks(ls, g[n].at) /\ Done(n)
    BY <1>2
  <2>2. /\ Shrinks(g[n].at, g[n + 1].at) /\ Alive(g[n + 1].at) \subseteq Alive(g[n].at)
        /\ ~NoneDue(g[n + 1].due) => ~NoneDue(g[n].due) /\ Alive(g[n + 1].at) # Alive(g[n].at)
    BY <1>8, <2>1
  <2>3. Shrinks(ls, g[n + 1].at)
    BY <2>1, <2>2 DEF Shrinks
  <2>4. Done(n + 1)
    <3> SUFFICES ASSUME ~NoneDue(g[n + 1].due)
                 PROVE  Cardinality(Alive(g[n + 1].at)) + (n + 1) + 1 <= N
      OBVIOUS
    <3>1. Cardinality(Alive(g[n].at)) + n + 1 <= N
      BY <2>1, <2>2
    <3>2. Cardinality(Alive(g[n + 1].at)) + 1 <= Cardinality(Alive(g[n].at))
      BY <1>10, <2>2
    <3> DEFINE a == Cardinality(Alive(g[n].at))
               b == Cardinality(Alive(g[n + 1].at))
    <3>3. a \in Nat /\ b \in Nat
      BY <1>9
    <3> HIDE DEF a, b
    <3>4. b + (n + 1) + 1 <= N
      BY <1>2, <2>1, <3>1, <3>2, <3>3 DEF a, b
    <3> QED
      BY <3>4 DEF b
  <2> QED
    BY <2>3, <2>4
<1>13. T = Nat
  <2>1. T \subseteq Nat
    OBVIOUS
  <2> HIDE DEF T
  <2> QED
    BY <1>11, <1>12, <2>1, SetInduction
<1>14. Shrinks(ls, g[N].at) /\ Done(N)
  BY <1>2, <1>13
<1>15. NoneDue(g[N].due)
  <2> SUFFICES ASSUME Cardinality(Alive(g[N].at)) + N + 1 <= N PROVE FALSE
    BY <1>14
  <2> DEFINE a == Cardinality(Alive(g[N].at))
  <2>1. a \in Nat
    BY <1>9
  <2>2. a + N + 1 <= N
    OBVIOUS
  <2> HIDE DEF a
  <2> QED
    BY <1>2, <2>1, <2>2
<1>16. /\ g[N].at \in [Layers -> LayerStates] /\ Balanced(g[N].at, held, g[N].due)
       /\ FreedAtNone(g[N].at)
  <2>1. g[N] \in Accounts(held)
    BY <1>2, <1>4 DEF D
  <2> QED
    BY <2>1 DEF Accounts
<1>17. Balanced(g[N].at, held, Scene!NoCaptures)
  BY <1>15, <1>16 DEF Balanced, NoneDue, Scene!NoCaptures
<1> QED
  BY <1>1, <1>14, <1>16, <1>17
-----------------------------------------------------------------------------
(* The scene's inductive invariant.                                        *)

SceneCanvases == [kind : {"free", "recording", "offscreen"}, has : Contents]
ScenePrints == [kind : {"free", "made"}, marks : SUBSET Marks]
CapsIn(cs, l) == [c \in Canvases |-> cs[c].has.caps[l]]
HeldBy(cs) == [l \in Layers |-> Total(CapsIn(cs, l), Canvases)]

\* Only recordings capture, the counts are right, and nothing is kept that
\* nothing holds.
Counted(cs, ls) ==
    /\ cs \in [Canvases -> SceneCanvases] /\ ls \in [Layers -> LayerStates]
    /\ \A c \in Canvases : cs[c].kind # "recording" => cs[c].has.caps = Scene!NoCaptures
    /\ Balanced(ls, HeldBy(cs), Scene!NoCaptures) /\ FreedAtNone(ls)

SceneInv == Counted(canvas, layer) /\ print \in [Prints -> ScenePrints]

\* What the canvases hold is counted in naturals.
LEMMA HeldIsNumber ==
    ASSUME NEW cs \in [Canvases -> SceneCanvases]
    PROVE  /\ HeldBy(cs) \in [Layers -> Nat]
           /\ \A l \in Layers : /\ Numbers(CapsIn(cs, l), Canvases)
                                /\ HeldBy(cs)[l] = Total(CapsIn(cs, l), Canvases)
<1>1. ASSUME NEW l \in Layers
      PROVE  Numbers(CapsIn(cs, l), Canvases) /\ Total(CapsIn(cs, l), Canvases) \in Nat
  <2>1. Numbers(CapsIn(cs, l), Canvases)
    BY DEF Numbers, CapsIn, SceneCanvases, Contents
  <2> QED
    BY <2>1, SumIsNumber, SceneConstants
<1> QED
  BY <1>1 DEF HeldBy

\* One canvas becomes another.
LEMMA HeldChanges ==
    ASSUME NEW cs \in [Canvases -> SceneCanvases], NEW c \in Canvases, NEW x \in SceneCanvases,
           NEW l \in Layers
    PROVE  /\ HeldBy([cs EXCEPT ![c] = x])[l] + cs[c].has.caps[l] = HeldBy(cs)[l] + x.has.caps[l]
           /\ HeldBy([cs EXCEPT ![c] = x])[l] \in Nat /\ HeldBy(cs)[l] \in Nat
           /\ cs[c].has.caps[l] \in Nat /\ x.has.caps[l] \in Nat
<1> DEFINE ds == [cs EXCEPT ![c] = x]
           f == CapsIn(cs, l)
           h == CapsIn(ds, l)
<1>1. ds \in [Canvases -> SceneCanvases]
  OBVIOUS
<1>2. /\ Numbers(f, Canvases) /\ Numbers(h, Canvases)
      /\ HeldBy(cs)[l] = Total(f, Canvases) /\ HeldBy(ds)[l] = Total(h, Canvases)
      /\ HeldBy(cs)[l] \in Nat /\ HeldBy(ds)[l] \in Nat
  BY <1>1, HeldIsNumber
<1>3. f[c] = cs[c].has.caps[l] /\ h[c] = x.has.caps[l] /\ \A d \in Canvases \ {c} : f[d] = h[d]
  BY DEF CapsIn
<1> HIDE DEF f, h, ds
<1>4. Total(h, Canvases) + f[c] = Total(f, Canvases) + h[c]
  BY <1>2, <1>3, SumChanges, SceneConstants
<1>5. f[c] \in Nat /\ h[c] \in Nat
  BY <1>2 DEF Numbers
<1> QED
  BY <1>2, <1>3, <1>4, <1>5 DEF ds

\* What is captured depends on the contents only.
LEMMA SameContents ==
    ASSUME NEW ls, NEW ms, \A k \in Layers : ms[k].has = ls[k].has
    PROVE  \A l \in Layers : CapsOf(ms, l) = CapsOf(ls, l)
BY DEF CapsOf

\* No captures, and a canvas that has none.
LEMMA NothingDue ==
    /\ Scene!NoCaptures \in [Layers -> Nat] /\ \A l \in Layers : Scene!NoCaptures[l] = 0
    /\ Scene!FreeCanvas \in SceneCanvases /\ Scene!FreeCanvas.has.caps = Scene!NoCaptures
    /\ Scene!FreeCanvas.kind = "free"
BY FreeIsFree DEF Scene!NoCaptures, Scene!FreeCanvas, Scene!Empty, SceneCanvases

\* A layer's count, in numbers.
LEMMA CountOf ==
    ASSUME NEW cs, NEW ls, Counted(cs, ls), NEW l \in Layers
    PROVE  /\ ls[l].refs = HandleOf(ls[l]) + HeldBy(cs)[l] + Total(CapsOf(ls, l), Layers)
           /\ ls[l].refs \in Nat /\ HandleOf(ls[l]) \in {0, 1} /\ HeldBy(cs)[l] \in Nat
           /\ Total(CapsOf(ls, l), Layers) \in Nat
           /\ ls[l].handle \in BOOLEAN /\ (ls[l].handle => HandleOf(ls[l]) = 1 /\ ls[l].refs > 0)
<1>1. /\ cs \in [Canvases -> SceneCanvases] /\ ls \in [Layers -> LayerStates]
      /\ Balanced(ls, HeldBy(cs), Scene!NoCaptures)
  BY DEF Counted
<1>2. ls[l].refs \in Nat /\ ls[l].handle \in BOOLEAN
  BY <1>1 DEF LayerStates
<1>3. HandleOf(ls[l]) \in {0, 1} /\ (ls[l].handle => HandleOf(ls[l]) = 1)
  BY <1>2 DEF HandleOf
<1>4. HeldBy(cs)[l] \in Nat /\ Total(CapsOf(ls, l), Layers) \in Nat
  BY <1>1, HeldIsNumber, CapsAreNumbers
<1>5. ls[l].refs = HandleOf(ls[l]) + HeldBy(cs)[l] + Total(CapsOf(ls, l), Layers)
                   + Scene!NoCaptures[l]
  BY <1>1 DEF Balanced
<1> DEFINE h == HandleOf(ls[l])
           u == HeldBy(cs)[l]
           t == Total(CapsOf(ls, l), Layers)
           count == ls[l].refs
<1>6. count = h + u + t + 0 /\ count \in Nat /\ h \in {0, 1} /\ u \in Nat /\ t \in Nat
  BY <1>2, <1>3, <1>4, <1>5, NothingDue
<1> HIDE DEF h, u, t, count
<1>7. count = h + u + t /\ (h = 1 => count > 0)
  BY <1>6
<1> QED
  BY <1>2, <1>3, <1>6, <1>7 DEF h, u, t, count

\* What Balanced asks of one layer, in numbers.
LEMMA BalancedBy ==
    ASSUME NEW ls, NEW held, NEW due,
           \A l \in Layers :
             ls[l].refs = HandleOf(ls[l]) + held[l] + Total(CapsOf(ls, l), Layers) + due[l]
    PROVE  Balanced(ls, held, due)
BY DEF Balanced

\* A canvas that captures what it did.
LEMMA CanvasChanges ==
    ASSUME NEW cs, NEW ls, Counted(cs, ls), NEW c \in Canvases, NEW x \in SceneCanvases,
           x.has.caps = cs[c].has.caps, x.kind # "recording" => x.has.caps = Scene!NoCaptures
    PROVE  Counted([cs EXCEPT ![c] = x], ls)
<1> DEFINE ds == [cs EXCEPT ![c] = x]
<1>1. cs \in [Canvases -> SceneCanvases]
  BY DEF Counted
<1>2. ds \in [Canvases -> SceneCanvases]
  BY <1>1
<1>3. \A d \in Canvases : ds[d].has.caps = cs[d].has.caps
  BY <1>1
<1>4. HeldBy(ds) = HeldBy(cs)
  <2>1. \A l \in Layers : CapsIn(ds, l) = CapsIn(cs, l)
    BY <1>3 DEF CapsIn
  <2> HIDE DEF ds
  <2> QED
    BY <2>1 DEF HeldBy
<1>5. \A d \in Canvases : ds[d].kind # "recording" => ds[d].has.caps = Scene!NoCaptures
  BY <1>1 DEF Counted
<1> HIDE DEF ds
<1>6. Counted(ds, ls)
  BY <1>2, <1>4, <1>5 DEF Counted
<1> QED
  BY <1>6 DEF ds

\* After an unref, from balanced accounts.
LEMMA UnrefCounts ==
    ASSUME NEW cs \in [Canvases -> SceneCanvases],
           \A c \in Canvases : cs[c].kind # "recording" => cs[c].has.caps = Scene!NoCaptures,
           NEW ls \in [Layers -> LayerStates], NEW caps \in [Layers -> Nat],
           Balanced(ls, HeldBy(cs), caps), FreedAtNone(ls)
    PROVE  Counted(cs, Scene!Unref(ls, caps))
<1>1. HeldBy(cs) \in [Layers -> Nat]
  BY HeldIsNumber
<1>2. [at |-> ls, due |-> caps] \in Accounts(HeldBy(cs))
  BY DEF Accounts
<1>3. /\ Scene!Unref(ls, caps) \in [Layers -> LayerStates]
      /\ Balanced(Scene!Unref(ls, caps), HeldBy(cs), Scene!NoCaptures)
      /\ FreedAtNone(Scene!Unref(ls, caps)) /\ Shrinks(ls, Scene!Unref(ls, caps))
  BY <1>1, <1>2, UnrefBalances
<1> QED
  BY <1>3 DEF Counted

\* A canvas goes, and gives back what it captured.
LEMMA CanvasGoes ==
    ASSUME NEW cs, NEW ls, Counted(cs, ls), NEW c \in Canvases
    PROVE  Counted([cs EXCEPT ![c] = Scene!FreeCanvas], Scene!Unref(ls, cs[c].has.caps))
<1> DEFINE ds == [cs EXCEPT ![c] = Scene!FreeCanvas]
           caps == cs[c].has.caps
<1>1. cs \in [Canvases -> SceneCanvases] /\ ls \in [Layers -> LayerStates] /\ FreedAtNone(ls)
  BY DEF Counted
<1>2. ds \in [Canvases -> SceneCanvases] /\ caps \in [Layers -> Nat]
  BY <1>1, NothingDue DEF SceneCanvases, Contents
<1>3. \A d \in Canvases : ds[d].kind # "recording" => ds[d].has.caps = Scene!NoCaptures
  BY <1>1, NothingDue DEF Counted
<1>4. ASSUME NEW l \in Layers
      PROVE  ls[l].refs = HandleOf(ls[l]) + HeldBy(ds)[l] + Total(CapsOf(ls, l), Layers) + caps[l]
  <2> DEFINE h == HandleOf(ls[l])
             u == HeldBy(cs)[l]
             v == HeldBy(ds)[l]
             t == Total(CapsOf(ls, l), Layers)
             count == ls[l].refs
             d == caps[l]
  <2>1. count = h + u + t /\ h \in {0, 1} /\ t \in Nat
    BY CountOf
  <2>2. v + d = u + Scene!FreeCanvas.has.caps[l] /\ v \in Nat /\ d \in Nat /\ u \in Nat
    BY <1>1, NothingDue, HeldChanges
  <2>3. Scene!FreeCanvas.has.caps[l] = 0
    BY NothingDue
  <2> HIDE DEF h, u, v, t, count, d
  <2>4. count = h + v + t + d
    BY <2>1, <2>2, <2>3
  <2> QED
    BY <2>4 DEF h, v, t, count, d
<1> HIDE DEF ds, caps
<1>5. Balanced(ls, HeldBy(ds), caps)
  BY <1>4 DEF Balanced
<1>6. Counted(ds, Scene!Unref(ls, caps))
  BY <1>1, <1>2, <1>3, <1>5, UnrefCounts
<1> QED
  BY <1>6 DEF ds, caps

\* A layer is made.
LEMMA LayerAppears ==
    ASSUME NEW cs, NEW ls, Counted(cs, ls), NEW l \in Layers, ls[l].refs = 0
    PROVE  Counted(cs, [ls EXCEPT ![l] = [Scene!FreeLayer EXCEPT !.handle = TRUE, !.refs = 1]])
<1> DEFINE x == [Scene!FreeLayer EXCEPT !.handle = TRUE, !.refs = 1]
           ms == [ls EXCEPT ![l] = x]
<1>1. /\ ls \in [Layers -> LayerStates] /\ ls[l] = Scene!FreeLayer
      /\ \A k \in Layers : ls[k].refs = 0 => ls[k] = Scene!FreeLayer
  BY DEF Counted, FreedAtNone
<1>2. x \in LayerStates /\ x.handle = TRUE /\ x.refs = 1 /\ x.has = ls[l].has
  BY <1>1, FreeIsFree DEF LayerStates
<1>3. ms \in [Layers -> LayerStates] /\ ms[l] = x /\ \A k \in Layers \ {l} : ms[k] = ls[k]
  BY <1>1, <1>2
<1> HIDE DEF x, ms
<1>4. \A k \in Layers : ms[k].has = ls[k].has
  BY <1>2, <1>3
<1>5. \A k \in Layers : ms[k].refs = HandleOf(ms[k]) + HeldBy(cs)[k] + Total(CapsOf(ms, k), Layers)
                                     + Scene!NoCaptures[k]
  <2> SUFFICES ASSUME NEW k \in Layers
               PROVE  ms[k].refs = HandleOf(ms[k]) + HeldBy(cs)[k] + Total(CapsOf(ms, k), Layers)
                                   + Scene!NoCaptures[k]
    OBVIOUS
  <2> DEFINE h == HandleOf(ls[k])
             u == HeldBy(cs)[k]
             t == Total(CapsOf(ls, k), Layers)
             count == ls[k].refs
  <2>1. count = h + u + t /\ h \in {0, 1} /\ t \in Nat /\ u \in Nat /\ count \in Nat
    BY CountOf
  <2>2. Total(CapsOf(ms, k), Layers) = t
    BY <1>4, SameContents
  <2>3. k = l => count = 0
    OBVIOUS
  <2> HIDE DEF h, u, t, count
  <2>4. CASE k = l
    <3>1. ms[k].refs = 1 /\ HandleOf(ms[k]) = 1
      BY <1>2, <1>3, <2>4 DEF HandleOf
    <3>2. 1 = 1 + u + t + 0
      BY <2>1, <2>3, <2>4
    <3> QED
      BY <2>2, <3>1, <3>2, NothingDue DEF u
  <2>5. CASE k # l
    <3>1. ms[k].refs = count /\ HandleOf(ms[k]) = h
      BY <1>3, <2>5 DEF count, h
    <3>2. count = h + u + t + 0
      BY <2>1
    <3> QED
      BY <2>2, <3>1, <3>2, NothingDue DEF u
  <2> QED
    BY <2>4, <2>5
<1>6. FreedAtNone(ms)
  BY <1>1, <1>2, <1>3 DEF FreedAtNone
<1>7. Counted(cs, ms)
  BY <1>3, <1>5, <1>6, BalancedBy DEF Counted
<1> QED
  BY <1>7 DEF ms, x

\* A layer's skin changes.
LEMMA SkinChanges ==
    ASSUME NEW cs, NEW ls, Counted(cs, ls), NEW l \in Layers, ls[l].handle,
           NEW skin \in {"plain", "moved"}
    PROVE  Counted(cs, [ls EXCEPT ![l].skin = skin])
<1> DEFINE ms == [ls EXCEPT ![l].skin = skin]
<1>1. ls \in [Layers -> LayerStates] /\ ls[l].refs > 0 /\ ls[l].refs \in Nat
  BY CountOf DEF Counted
<1>2. ms \in [Layers -> LayerStates]
  BY <1>1 DEF LayerStates
<1>3. /\ \A k \in Layers \ {l} : ms[k] = ls[k]
      /\ \A k \in Layers : /\ ms[k].has = ls[k].has /\ ms[k].refs = ls[k].refs
                           /\ ms[k].handle = ls[k].handle
  BY <1>1 DEF LayerStates
<1> HIDE DEF ms
<1>4. \A k \in Layers : CapsOf(ms, k) = CapsOf(ls, k) /\ HandleOf(ms[k]) = HandleOf(ls[k])
  BY <1>3, SameContents DEF HandleOf
<1>5. Balanced(ms, HeldBy(cs), Scene!NoCaptures)
  <2>1. Balanced(ls, HeldBy(cs), Scene!NoCaptures)
    BY DEF Counted
  <2> QED
    BY <1>3, <1>4, <2>1 DEF Balanced
<1>6. FreedAtNone(ms)
  <2>1. FreedAtNone(ls) /\ ls[l].refs # 0
    BY <1>1 DEF Counted
  <2> QED
    BY <1>3, <2>1 DEF FreedAtNone
<1>7. Counted(cs, ms)
  BY <1>2, <1>5, <1>6 DEF Counted
<1> QED
  BY <1>7 DEF ms

\* The handle is dropped.
LEMMA LayerGoes ==
    ASSUME NEW cs, NEW ls, Counted(cs, ls), NEW l \in Layers, ls[l].handle
    PROVE  Counted(cs, Scene!Unref([ls EXCEPT ![l].handle = FALSE], Scene!One(l)))
<1> DEFINE ms == [ls EXCEPT ![l].handle = FALSE]
           one == Scene!One(l)
<1>1. /\ cs \in [Canvases -> SceneCanvases] /\ ls \in [Layers -> LayerStates] /\ FreedAtNone(ls)
      /\ \A c \in Canvases : cs[c].kind # "recording" => cs[c].has.caps = Scene!NoCaptures
  BY DEF Counted
<1>2. one \in [Layers -> Nat] /\ one[l] = 1 /\ \A k \in Layers \ {l} : one[k] = 0
  BY NothingDue DEF Scene!One
<1>3. ms \in [Layers -> LayerStates]
  BY <1>1 DEF LayerStates
<1>4. /\ \A k \in Layers \ {l} : ms[k] = ls[k]
      /\ ms[l].handle = FALSE
      /\ \A k \in Layers : ms[k].has = ls[k].has /\ ms[k].refs = ls[k].refs
  BY <1>1 DEF LayerStates
<1> HIDE DEF ms, one
<1>5. ASSUME NEW k \in Layers
      PROVE  ms[k].refs = HandleOf(ms[k]) + HeldBy(cs)[k] + Total(CapsOf(ms, k), Layers) + one[k]
  <2> DEFINE h == HandleOf(ls[k])
             u == HeldBy(cs)[k]
             t == Total(CapsOf(ls, k), Layers)
             count == ls[k].refs
             d == one[k]
             g == HandleOf(ms[k])
  <2>1. /\ count = h + u + t /\ h \in {0, 1} /\ t \in Nat /\ u \in Nat /\ count \in Nat
        /\ ls[k].handle => h = 1
    BY CountOf
  <2>2. Total(CapsOf(ms, k), Layers) = t /\ ms[k].refs = count
    BY <1>4, SameContents
  <2>3. CASE k = l
    <3>1. g = 0 /\ d = 1 /\ h = 1
      BY <1>2, <1>4, <2>1, <2>3 DEF HandleOf
    <3> HIDE DEF h, u, t, count, d, g
    <3>2. count = g + u + t + d
      BY <2>1, <3>1
    <3> QED
      BY <2>2, <3>2 DEF g, u, d
  <2>4. CASE k # l
    <3>1. g = h /\ d = 0
      BY <1>2, <1>4, <2>4
    <3> HIDE DEF h, u, t, count, d, g
    <3>2. count = g + u + t + d
      BY <2>1, <3>1
    <3> QED
      BY <2>2, <3>2 DEF g, u, d
  <2> QED
    BY <2>3, <2>4
<1>6. Balanced(ms, HeldBy(cs), one)
  BY <1>5 DEF Balanced
<1>7. FreedAtNone(ms)
  <2>1. ls[l].refs # 0
    BY CountOf
  <2> QED
    BY <1>1, <1>4, <2>1 DEF FreedAtNone
<1>8. Counted(cs, Scene!Unref(ms, one))
  BY <1>1, <1>2, <1>3, <1>6, <1>7, UnrefCounts
<1> QED
  BY <1>8 DEF ms, one

\* A recording captures a layer.
LEMMA LayerCaptured ==
    ASSUME NEW cs, NEW ls, Counted(cs, ls), NEW c \in Canvases, NEW l \in Layers,
           ls[l].handle, cs[c].kind = "recording"
    PROVE  Counted([cs EXCEPT ![c].has.caps[l] = @ + 1], [ls EXCEPT ![l].refs = @ + 1])
<1> DEFINE x == [cs[c] EXCEPT !.has.caps[l] = @ + 1]
           ds == [cs EXCEPT ![c] = x]
           ms == [ls EXCEPT ![l].refs = @ + 1]
<1>1. /\ cs \in [Canvases -> SceneCanvases] /\ ls \in [Layers -> LayerStates]
      /\ \A d \in Canvases : cs[d].kind # "recording" => cs[d].has.caps = Scene!NoCaptures
  BY DEF Counted
<1>2. /\ x \in SceneCanvases /\ x.kind = "recording"
      /\ x.has.caps[l] = cs[c].has.caps[l] + 1
      /\ \A k \in Layers \ {l} : x.has.caps[k] = cs[c].has.caps[k]
  BY <1>1 DEF SceneCanvases, Contents
<1>3. ds = [cs EXCEPT ![c].has.caps[l] = @ + 1]
  BY <1>1
<1>4. /\ ds \in [Canvases -> SceneCanvases]
      /\ \A d \in Canvases : ds[d].kind # "recording" => ds[d].has.caps = Scene!NoCaptures
  BY <1>1, <1>2
<1>5. ms \in [Layers -> LayerStates]
  BY <1>1 DEF LayerStates
<1>6. /\ \A k \in Layers \ {l} : ms[k] = ls[k]
      /\ ms[l].refs = ls[l].refs + 1
      /\ \A k \in Layers : ms[k].has = ls[k].has /\ ms[k].handle = ls[k].handle
  BY <1>1 DEF LayerStates
<1>7. \A k \in Layers : HeldBy(ds)[k] = HeldBy(cs)[k] + (IF k = l THEN 1 ELSE 0)
  <2> SUFFICES ASSUME NEW k \in Layers
               PROVE  HeldBy(ds)[k] = HeldBy(cs)[k] + (IF k = l THEN 1 ELSE 0)
    OBVIOUS
  <2> DEFINE u == HeldBy(cs)[k]
             v == HeldBy(ds)[k]
             a == cs[c].has.caps[k]
             b == x.has.caps[k]
  <2>1. v + a = u + b /\ v \in Nat /\ u \in Nat /\ a \in Nat /\ b \in Nat
    BY <1>1, <1>2, HeldChanges
  <2>2. b = a + (IF k = l THEN 1 ELSE 0)
    BY <1>2, <2>1
  <2> HIDE DEF u, v, a, b
  <2>3. v = u + (IF k = l THEN 1 ELSE 0)
    BY <2>1, <2>2
  <2> QED
    BY <2>3 DEF u, v
<1> HIDE DEF x, ds, ms
<1>8. ASSUME NEW k \in Layers
      PROVE  ms[k].refs = HandleOf(ms[k]) + HeldBy(ds)[k] + Total(CapsOf(ms, k), Layers)
                          + Scene!NoCaptures[k]
  <2> DEFINE h == HandleOf(ls[k])
             u == HeldBy(cs)[k]
             v == HeldBy(ds)[k]
             t == Total(CapsOf(ls, k), Layers)
             count == ls[k].refs
             i == IF k = l THEN 1 ELSE 0
  <2>1. count = h + u + t /\ h \in {0, 1} /\ t \in Nat /\ u \in Nat /\ count \in Nat
    BY CountOf
  <2>2. Total(CapsOf(ms, k), Layers) = t /\ HandleOf(ms[k]) = h
    BY <1>6, SameContents DEF HandleOf
  <2>3. ms[k].refs = count + i
    BY <1>6, <2>1
  <2>4. v = u + i /\ i \in Nat
    BY <1>7
  <2> HIDE DEF h, u, v, t, count, i
  <2>5. count + i = h + v + t + 0
    BY <2>1, <2>4
  <2> QED
    BY <2>2, <2>3, <2>5, NothingDue DEF v
<1>9. FreedAtNone(ms)
  <2>1. FreedAtNone(ls) /\ ls[l].refs \in Nat
    BY CountOf DEF Counted
  <2> QED
    BY <1>6, <2>1 DEF FreedAtNone
<1>10. Counted(ds, ms)
  BY <1>4, <1>5, <1>8, <1>9, BalancedBy DEF Counted
<1> QED
  BY <1>3, <1>10 DEF ms

\* A layer gets a recording's content for the one it had.
LEMMA ContentSet ==
    ASSUME Counted(canvas, layer), NEW c \in Canvases, NEW l \in Layers, layer[l].handle
    PROVE  Counted([canvas EXCEPT ![c] = Scene!FreeCanvas], Scene!Swapped(l, canvas[c].has))
<1> DEFINE has == canvas[c].has
           old == layer[l].has.caps
           ds == [canvas EXCEPT ![c] = Scene!FreeCanvas]
           ms == [layer EXCEPT ![l].has = has]
<1>1. /\ canvas \in [Canvases -> SceneCanvases] /\ layer \in [Layers -> LayerStates]
      /\ \A d \in Canvases : canvas[d].kind # "recording" => canvas[d].has.caps = Scene!NoCaptures
  BY DEF Counted
<1>2. has \in Contents /\ old \in [Layers -> Nat]
  BY <1>1 DEF SceneCanvases, LayerStates, Contents
<1>3. /\ ds \in [Canvases -> SceneCanvases]
      /\ \A d \in Canvases : ds[d].kind # "recording" => ds[d].has.caps = Scene!NoCaptures
  BY <1>1, NothingDue
<1>4. ms \in [Layers -> LayerStates]
  BY <1>1, <1>2 DEF LayerStates
<1>5. /\ \A k \in Layers \ {l} : ms[k] = layer[k]
      /\ ms[l].has = has
      /\ \A k \in Layers : ms[k].refs = layer[k].refs /\ ms[k].handle = layer[k].handle
  BY <1>1 DEF LayerStates
<1>6. ASSUME NEW k \in Layers
      PROVE  Total(CapsOf(ms, k), Layers) + old[k] = Total(CapsOf(layer, k), Layers) + has.caps[k]
  <2> DEFINE f == CapsOf(layer, k)
             g == CapsOf(ms, k)
  <2>1. Numbers(f, Layers) /\ Numbers(g, Layers)
    BY <1>1, <1>4, CapsAreNumbers
  <2>a. \A j \in Layers : f[j] = layer[j].has.caps[k] /\ g[j] = ms[j].has.caps[k]
    BY DEF CapsOf
  <2> HIDE DEF f, g, ms
  <2>2. f[l] = old[k] /\ g[l] = has.caps[k] /\ \A j \in Layers \ {l} : f[j] = g[j]
    BY <1>5, <2>a
  <2> HIDE DEF old, has
  <2>3. Total(g, Layers) + f[l] = Total(f, Layers) + g[l]
    BY <2>1, <2>2, SumChanges, SceneConstants
  <2> QED
    BY <2>2, <2>3 DEF f, g, ms
<1>7. \A k \in Layers : /\ HeldBy(ds)[k] + has.caps[k] = HeldBy(canvas)[k]
                        /\ HeldBy(ds)[k] \in Nat /\ has.caps[k] \in Nat
  <2> SUFFICES ASSUME NEW k \in Layers
               PROVE  /\ HeldBy(ds)[k] + has.caps[k] = HeldBy(canvas)[k]
                      /\ HeldBy(ds)[k] \in Nat /\ has.caps[k] \in Nat
    OBVIOUS
  <2> DEFINE v == HeldBy(ds)[k]
             u == HeldBy(canvas)[k]
             a == has.caps[k]
  <2>1. v + a = u + Scene!FreeCanvas.has.caps[k] /\ v \in Nat /\ u \in Nat /\ a \in Nat
    BY <1>1, NothingDue, HeldChanges
  <2>2. Scene!FreeCanvas.has.caps[k] = 0
    BY NothingDue
  <2> HIDE DEF u, v, a
  <2>3. v + a = u
    BY <2>1, <2>2
  <2> QED
    BY <2>1, <2>3 DEF u, v, a
<1>8. \A k \in Layers : Total(CapsOf(ms, k), Layers) \in Nat /\ old[k] \in Nat
  BY <1>2, <1>4, CapsAreNumbers
<1> HIDE DEF has, old, ds, ms
<1>9. ASSUME NEW k \in Layers
       PROVE  ms[k].refs = HandleOf(ms[k]) + HeldBy(ds)[k] + Total(CapsOf(ms, k), Layers) + old[k]
  <2> DEFINE h == HandleOf(layer[k])
             u == HeldBy(canvas)[k]
             v == HeldBy(ds)[k]
             t == Total(CapsOf(layer, k), Layers)
             w == Total(CapsOf(ms, k), Layers)
             count == layer[k].refs
             a == has.caps[k]
             d == old[k]
  <2>1. count = h + u + t /\ h \in {0, 1} /\ t \in Nat /\ u \in Nat /\ count \in Nat
    BY CountOf
  <2>2. v + a = u /\ v \in Nat /\ a \in Nat
    BY <1>7
  <2>3. w + d = t + a /\ w \in Nat /\ d \in Nat
    BY <1>6, <1>8
  <2>4. ms[k].refs = count /\ HandleOf(ms[k]) = h
    BY <1>5 DEF HandleOf
  <2> HIDE DEF h, u, v, t, w, count, a, d
  <2>5. count = h + v + w + d
    BY <2>1, <2>2, <2>3
  <2> QED
    BY <2>4, <2>5 DEF v, w, d
<1>10. FreedAtNone(ms)
  <2>1. FreedAtNone(layer) /\ layer[l].refs # 0
    BY CountOf DEF Counted
  <2> QED
    BY <1>5, <2>1 DEF FreedAtNone
<1>11. Balanced(ms, HeldBy(ds), old)
  BY <1>9 DEF Balanced
<1>12. Counted(ds, Scene!Unref(ms, old))
  BY <1>2, <1>3, <1>4, <1>10, <1>11, UnrefCounts
<1> QED
  BY <1>12 DEF ds, ms, old, has, Scene!Swapped

\* What is seen is made of marks.
LEMMA SeenIsMarks ==
    ASSUME layer \in [Layers -> LayerStates], NEW has \in Contents
    PROVE  Scene!Seen(has) \in SUBSET Marks
<1>1. Scene!Reached(has) \subseteq Layers
  BY ReachedClosed
<1>2. has.marks \subseteq Marks /\ \A l \in Layers : layer[l].has.marks \subseteq Marks
  BY DEF LayerStates, Contents
<1> QED
  BY <1>1, <1>2 DEF Scene!Seen

\* More marks on a canvas.
LEMMA MarksChange ==
    ASSUME SceneInv, NEW c \in Canvases, NEW marks \in SUBSET Marks, canvas[c].kind # "free"
    PROVE  Counted([canvas EXCEPT ![c].has.marks = @ \union marks], layer)
<1> DEFINE x == [canvas[c] EXCEPT !.has.marks = @ \union marks]
<1>1. canvas \in [Canvases -> SceneCanvases] /\ Counted(canvas, layer)
      /\ (canvas[c].kind # "recording" => canvas[c].has.caps = Scene!NoCaptures)
  BY DEF SceneInv, Counted
<1>2. x \in SceneCanvases /\ x.kind = canvas[c].kind /\ x.has.caps = canvas[c].has.caps
  BY <1>1 DEF SceneCanvases, Contents
<1>3. [canvas EXCEPT ![c].has.marks = @ \union marks] = [canvas EXCEPT ![c] = x]
  BY <1>1
<1> HIDE DEF x
<1> QED
  BY <1>1, <1>2, <1>3, CanvasChanges

\* A canvas that captures nothing goes.
LEMMA PlainGoes ==
    ASSUME SceneInv, NEW c \in Canvases, canvas[c].kind # "recording"
    PROVE  Counted([canvas EXCEPT ![c] = Scene!FreeCanvas], layer)
BY NothingDue, CanvasChanges DEF SceneInv, Counted

\* The steps on a canvas.
LEMMA CanvasPreserves ==
    ASSUME SceneInv, NEW c \in Canvases, Scene!OnCanvas(c)
    PROVE  SceneInv'
<1>0. /\ Counted(canvas, layer) /\ print \in [Prints -> ScenePrints]
      /\ canvas \in [Canvases -> SceneCanvases] /\ layer \in [Layers -> LayerStates]
      /\ \A d \in Canvases : canvas[d].kind # "recording" => canvas[d].has.caps = Scene!NoCaptures
  BY DEF SceneInv, Counted
<1>s. SUFFICES Counted(canvas', layer') /\ print' \in [Prints -> ScenePrints]
  BY DEF SceneInv, Counted, Balanced, HeldBy, CapsIn, Total, FreedAtNone, HandleOf, CapsOf
<1>1. ASSUME NEW kind \in {"recording", "offscreen"}, Scene!NewCanvas(c, kind)
      PROVE  Counted(canvas', layer') /\ print' \in [Prints -> ScenePrints]
  <2> DEFINE x == [canvas[c] EXCEPT !.kind = kind]
  <2>1. canvas[c].kind = "free" /\ canvas' = [canvas EXCEPT ![c].kind = kind]
        /\ layer' = layer /\ print' = print
    BY <1>1 DEF Scene!NewCanvas
  <2>2. x \in SceneCanvases /\ x.has = canvas[c].has
    BY <1>0 DEF SceneCanvases
  <2>3. canvas' = [canvas EXCEPT ![c] = x] /\ canvas[c].has.caps = Scene!NoCaptures
    BY <1>0, <2>1
  <2>4. x.has.caps = canvas[c].has.caps /\ x.has.caps = Scene!NoCaptures
    BY <2>2, <2>3
  <2> HIDE DEF x
  <2>5. Counted([canvas EXCEPT ![c] = x], layer)
    BY <1>0, <2>2, <2>4, CanvasChanges
  <2> QED
    BY <1>0, <2>1, <2>3, <2>5
<1>2. ASSUME NEW marks \in SUBSET Marks, Scene!Draw(c, marks)
      PROVE  Counted(canvas', layer') /\ print' \in [Prints -> ScenePrints]
  BY <1>0, <1>2, MarksChange DEF Scene!Draw
<1>3. ASSUME NEW p \in Prints, Scene!DrawPrint(c, p)
      PROVE  Counted(canvas', layer') /\ print' \in [Prints -> ScenePrints]
  <2>1. print[p].marks \in SUBSET Marks
    BY <1>0 DEF ScenePrints
  <2> QED
    BY <1>2, <1>3, <2>1 DEF Scene!DrawPrint
<1>4. ASSUME NEW p \in Prints, Scene!FinishRecording(c, p)
      PROVE  Counted(canvas', layer') /\ print' \in [Prints -> ScenePrints]
  <2>1. CASE canvas[c].kind = "recording" /\ Scene!Endless(canvas[c].has)
    BY <1>0, <1>4, <2>1 DEF Scene!FinishRecording
  <2>2. CASE canvas[c].kind = "recording" /\ ~Scene!Endless(canvas[c].has)
    <3>1. /\ canvas' = [canvas EXCEPT ![c] = Scene!FreeCanvas]
          /\ layer' = Scene!Unref(layer, canvas[c].has.caps)
          /\ print' = [print EXCEPT ![p] = [kind |-> "made",
                                            marks |-> Scene!Seen(canvas[c].has)]]
      BY <1>4, <2>2 DEF Scene!FinishRecording
    <3>2. Scene!Seen(canvas[c].has) \in SUBSET Marks
      <4>1. canvas[c].has \in Contents
        BY <1>0 DEF SceneCanvases
      <4> QED
        BY <1>0, <4>1, SeenIsMarks
    <3>3. [kind |-> "made", marks |-> Scene!Seen(canvas[c].has)] \in ScenePrints
      BY <3>2 DEF ScenePrints
    <3>4. print' \in [Prints -> ScenePrints]
      BY <1>0, <3>1, <3>3
    <3> QED
      BY <1>0, <3>1, <3>4, CanvasGoes
  <2>3. CASE canvas[c].kind # "recording"
    BY <1>0, <1>4, <2>3, PlainGoes DEF Scene!FinishRecording
  <2> QED
    BY <2>1, <2>2, <2>3
<1>5. ASSUME NEW p \in Prints, Scene!Snapshot(c, p)
      PROVE  Counted(canvas', layer') /\ print' \in [Prints -> ScenePrints]
  <2>1. [kind |-> "made", marks |-> canvas[c].has.marks] \in ScenePrints
    BY <1>0 DEF ScenePrints, SceneCanvases, Contents
  <2>2. print' \in [Prints -> ScenePrints]
    BY <1>0, <1>5, <2>1 DEF Scene!Snapshot
  <2> QED
    BY <1>0, <1>5, <2>2 DEF Scene!Snapshot
<1>6. ASSUME NEW l \in Layers, Scene!DrawLayer(c, l)
      PROVE  Counted(canvas', layer') /\ print' \in [Prints -> ScenePrints]
  <2>1. print' = print /\ canvas[c].kind # "free" /\ layer[l].handle
    BY <1>6 DEF Scene!DrawLayer
  <2>2. CASE canvas[c].kind = "recording"
    BY <1>0, <1>6, <2>1, <2>2, LayerCaptured DEF Scene!DrawLayer
  <2>3. CASE canvas[c].kind # "recording" /\ Scene!Endless(layer[l].has)
    BY <1>0, <1>6, <2>1, <2>3 DEF Scene!DrawLayer
  <2>4. CASE canvas[c].kind # "recording" /\ ~Scene!Endless(layer[l].has)
    <3>1. Scene!Seen(layer[l].has) \in SUBSET Marks
      <4>1. layer[l].has \in Contents
        BY <1>0 DEF LayerStates
      <4> QED
        BY <1>0, <4>1, SeenIsMarks
    <3>2. canvas' = [canvas EXCEPT ![c].has.marks = @ \union Scene!Seen(layer[l].has)]
          /\ layer' = layer
      BY <1>6, <2>4 DEF Scene!DrawLayer
    <3> QED
      BY <1>0, <2>1, <3>1, <3>2, MarksChange
  <2> QED
    BY <2>2, <2>3, <2>4
<1>7. ASSUME NEW l \in Layers, Scene!SetContent(l, c)
      PROVE  Counted(canvas', layer') /\ print' \in [Prints -> ScenePrints]
  <2>1. /\ print' = print /\ layer[l].handle
        /\ canvas' = [canvas EXCEPT ![c] = Scene!FreeCanvas]
    BY <1>7 DEF Scene!SetContent
  <2>2. CASE canvas[c].kind = "recording"
    BY <1>0, <1>7, <2>1, <2>2, ContentSet DEF Scene!SetContent
  <2>3. CASE canvas[c].kind # "recording"
    BY <1>0, <1>7, <2>1, <2>3, PlainGoes DEF Scene!SetContent
  <2> QED
    BY <2>2, <2>3
<1>8. ASSUME Scene!DropCanvas(c)
      PROVE  Counted(canvas', layer') /\ print' \in [Prints -> ScenePrints]
  BY <1>0, <1>8, CanvasGoes DEF Scene!DropCanvas
<1> QED
  BY <1>1, <1>2, <1>3, <1>4, <1>5, <1>6, <1>7, <1>8 DEF Scene!OnCanvas

\* The steps on a print.
LEMMA PrintPreserves ==
    ASSUME SceneInv, NEW p \in Prints, Scene!OnPrint(p)
    PROVE  SceneInv'
<1>1. canvas' = canvas /\ layer' = layer
  BY DEF Scene!OnPrint, Scene!Decode, Scene!Shader, Scene!DropPrint
<1>2. \A m \in Marks : [kind |-> "made", marks |-> {m}] \in ScenePrints
  BY DEF ScenePrints
<1>3. Scene!FreePrint \in ScenePrints
  BY DEF ScenePrints, Scene!FreePrint
<1>4. print' \in [Prints -> ScenePrints]
  BY <1>2, <1>3 DEF SceneInv, Scene!OnPrint, Scene!Decode, Scene!Shader, Scene!DropPrint
<1> QED
  BY <1>1, <1>4 DEF SceneInv, Counted, Balanced, HeldBy, CapsIn, Total, FreedAtNone, HandleOf,
     CapsOf

\* The steps on a layer.
LEMMA ScenePreserves ==
    ASSUME SceneInv, NEW l \in Layers, Scene!OnLayer(l)
    PROVE  SceneInv'
<1>0. Counted(canvas, layer) /\ print \in [Prints -> ScenePrints]
  BY DEF SceneInv
<1>1. canvas' = canvas /\ print' = print
  BY DEF Scene!OnLayer, Scene!NewLayer, Scene!DropLayer, Scene!SetSkin
<1>2. Counted(canvas, layer')
  <2>1. CASE Scene!NewLayer(l)
    BY <1>0, <2>1, LayerAppears DEF Scene!NewLayer
  <2>2. CASE Scene!DropLayer(l)
    BY <1>0, <2>2, LayerGoes DEF Scene!DropLayer
  <2>3. ASSUME NEW skin \in {"plain", "moved"}, Scene!SetSkin(l, skin)
        PROVE  Counted(canvas, layer')
    BY <1>0, <2>3, SkinChanges DEF Scene!SetSkin
  <2> QED
    BY <2>1, <2>2, <2>3 DEF Scene!OnLayer
<1>3. Counted(canvas', layer') /\ print' \in [Prints -> ScenePrints]
  BY <1>0, <1>1, <1>2
<1> QED
  BY <1>3 DEF SceneInv, Counted, Balanced, HeldBy, CapsIn, Total, FreedAtNone, HandleOf,
     CapsOf

\* A scene starts with nothing, and every step keeps the books.
LEMMA SceneInductive ==
    /\ HostInit => SceneInv
    /\ SceneInv /\ [Scene!Next]_(Scene!vars) => SceneInv'
<1>1. HostInit => SceneInv
  <2> SUFFICES ASSUME HostInit PROVE SceneInv
    OBVIOUS
  <2>1. /\ canvas = [c \in Canvases |-> Scene!FreeCanvas]
        /\ print = [p \in Prints |-> Scene!FreePrint]
        /\ layer = [l \in Layers |-> Scene!FreeLayer]
    BY DEF HostInit, Scene!Init
  <2>2. /\ canvas \in [Canvases -> SceneCanvases] /\ layer \in [Layers -> LayerStates]
        /\ print \in [Prints -> ScenePrints]
        /\ \A c \in Canvases : canvas[c].has.caps = Scene!NoCaptures
    BY <2>1, NothingDue, FreeIsFree DEF Scene!FreePrint, ScenePrints
  <2>3. ASSUME NEW l \in Layers
        PROVE  layer[l].refs = HandleOf(layer[l]) + HeldBy(canvas)[l]
                               + Total(CapsOf(layer, l), Layers) + Scene!NoCaptures[l]
    <3>1. layer[l].refs = 0 /\ HandleOf(layer[l]) = 0
      BY <2>1, FreeIsFree DEF HandleOf
    <3>2. HeldBy(canvas)[l] = 0
      <4>1. \A c \in Canvases : CapsIn(canvas, l)[c] = 0
        BY <2>2, NothingDue DEF CapsIn
      <4> QED
        BY <2>2, <4>1, HeldIsNumber, SumOfNothing, SceneConstants
    <3>3. Total(CapsOf(layer, l), Layers) = 0
      <4>1. \A k \in Layers : CapsOf(layer, l)[k] = 0
        BY <2>1, FreeIsFree DEF CapsOf
      <4> QED
        BY <2>2, <4>1, CapsAreNumbers, SumOfNothing, SceneConstants
    <3> QED
      BY <3>1, <3>2, <3>3, NothingDue
  <2>4. FreedAtNone(layer)
    BY <2>1 DEF FreedAtNone
  <2> QED
    BY <2>2, <2>3, <2>4, BalancedBy DEF SceneInv, Counted
<1>2. ASSUME SceneInv, Scene!Next PROVE SceneInv'
  BY <1>2, CanvasPreserves, PrintPreserves, ScenePreserves DEF Scene!Next
<1>3. ASSUME SceneInv, UNCHANGED Scene!vars PROVE SceneInv'
  BY <1>3 DEF Scene!vars, SceneInv, Counted, Balanced, HeldBy, CapsIn, Total, FreedAtNone, HandleOf,
     CapsOf
<1> QED
  BY <1>1, <1>2, <1>3

\* In kept books, what nothing else holds is held by a layer above.
LEMMA HeldFromAbove ==
    ASSUME SceneInv, \A c \in Canvases : canvas[c].kind = "free",
           \A l \in Layers : ~layer[l].handle,
           NEW l \in Layers, layer[l].refs # 0
    PROVE  \E k \in Layers : layer[k].refs # 0 /\ layer[k].has.caps[l] > 0
<1>1. /\ Counted(canvas, layer)
      /\ canvas \in [Canvases -> SceneCanvases] /\ layer \in [Layers -> LayerStates]
  BY DEF SceneInv, Counted
<1>2. /\ layer[l].refs = HandleOf(layer[l]) + HeldBy(canvas)[l] + Total(CapsOf(layer, l), Layers)
      /\ Total(CapsOf(layer, l), Layers) \in Nat
  BY <1>1, CountOf
<1>3. HandleOf(layer[l]) = 0
  BY DEF HandleOf
<1>4. HeldBy(canvas)[l] = 0
  <2>1. \A c \in Canvases : CapsIn(canvas, l)[c] = 0
    BY <1>1, NothingDue DEF CapsIn, Counted
  <2> QED
    BY <1>1, <2>1, HeldIsNumber, SumOfNothing, SceneConstants
<1>5. Total(CapsOf(layer, l), Layers) # 0
  BY <1>2, <1>3, <1>4
<1>6. PICK k \in Layers : CapsOf(layer, l)[k] # 0
  BY <1>1, <1>5, CapsAreNumbers, SumOfNothing, SceneConstants
<1>7. layer[k].has.caps[l] \in Nat /\ layer[k].has.caps[l] # 0
  BY <1>1, <1>6, CapsAreNumbers DEF Numbers
<1>8. layer[k].refs # 0
  <2>1. layer[k].refs = 0 => layer[k].has = Scene!Empty
    BY <1>1, FreeIsFree DEF Counted, FreedAtNone
  <2> QED
    BY <1>7, <2>1, FreeIsFree
<1> QED
  BY <1>7, <1>8

\* Who captures a layer reaches it, and all that it reaches.
LEMMA HolderReaches ==
    ASSUME NEW k \in Layers, NEW l \in Layers, layer[k].has.caps[l] > 0
    PROVE  /\ l \in Scene!Reached(layer[k].has)
           /\ Scene!Reached(layer[l].has) \subseteq Scene!Reached(layer[k].has)
           /\ \A j \in Layers : k \in Scene!Reached(layer[j].has)
                                 => l \in Scene!Reached(layer[j].has)
<1>1. l \in Scene!Reached(layer[k].has)
  BY ReachedClosed DEF Scene!Captured
<1>2. Scene!Captured(layer[l].has) \subseteq Scene!Children(Scene!Reached(layer[k].has))
  BY <1>1 DEF Scene!Captured, Scene!Children
<1>3. Scene!Reached(layer[l].has) \subseteq Scene!Reached(layer[k].has)
  BY <1>2, ReachedClosed, ReachedLeast
<1>4. ASSUME NEW j \in Layers, k \in Scene!Reached(layer[j].has)
      PROVE  l \in Scene!Reached(layer[j].has)
  <2>1. l \in Scene!Children(Scene!Reached(layer[j].has))
    BY <1>4 DEF Scene!Children
  <2> QED
    BY <2>1, ReachedClosed
<1> QED
  BY <1>1, <1>3, <1>4

\* So with the canvases and handles gone every layer is free that no loop holds
\* up: each of those that were not would be held by one that reaches more, and
\* nothing reaches more than all layers.
LEMMA NothingIsLeft ==
    ASSUME SceneInv
    PROVE  Scene!DroppedSceneIsFreed
<1> DEFINE Within(l) == Scene!Reached(layer[l].has)
           Loose(l) == layer[l].refs # 0 /\ \A k \in Layers : ~({k, l} \subseteq Within(k))
<1> SUFFICES ASSUME \A c \in Canvases : canvas[c].kind = "free", \A l \in Layers : ~layer[l].handle,
                    NEW bad \in Layers, layer[bad] # Scene!FreeLayer,
                    \A k \in Layers : ~({k, bad} \subseteq Within(k))
             PROVE  FALSE
  BY DEF Scene!DroppedSceneIsFreed
<1>1. Loose(bad)
  BY DEF SceneInv, Counted, FreedAtNone
<1>2. ASSUME NEW l \in Layers, Loose(l)
      PROVE  \E k \in Layers : Loose(k) /\ Within(l) \subseteq Within(k) /\ l \in Within(k) \ Within(l)
  <2>1. PICK k \in Layers : layer[k].refs # 0 /\ layer[k].has.caps[l] > 0
    BY <1>2, HeldFromAbove
  <2>2. /\ l \in Within(k) /\ Within(l) \subseteq Within(k)
        /\ \A j \in Layers : k \in Within(j) => l \in Within(j)
    BY <2>1, HolderReaches
  <2> HIDE DEF Within
  <2>3. l \notin Within(l)
    BY <1>2
  <2>4. Loose(k)
    BY <1>2, <2>1, <2>2
  <2> QED
    BY <2>2, <2>3, <2>4
<1>3. \A l \in Layers : /\ Within(l) \in SUBSET Layers /\ IsFiniteSet(Within(l))
                        /\ Cardinality(Within(l)) \in Nat
                        /\ Cardinality(Within(l)) <= Cardinality(Layers)
  BY SceneConstants, ReachedClosed, FS_Subset, FS_CardinalityType
<1>4. Cardinality(Layers) \in Nat
  BY SceneConstants
<1> HIDE DEF Within, Loose
<1> DEFINE T == {n \in Nat : \E l \in Layers : Loose(l) /\ Cardinality(Within(l)) >= n}
<1>5. 0 \in T
  BY <1>1, <1>3
<1>6. ASSUME NEW n \in T PROVE n + 1 \in T
  <2>1. PICK l \in Layers : Loose(l) /\ Cardinality(Within(l)) >= n
    OBVIOUS
  <2>2. PICK k \in Layers : Loose(k) /\ Within(l) \subseteq Within(k) /\ l \in Within(k) \ Within(l)
    BY <1>2, <2>1
  <2>3. /\ Cardinality(Within(l)) <= Cardinality(Within(k))
        /\ Cardinality(Within(l)) # Cardinality(Within(k))
    BY <1>3, <2>2, FS_Subset
  <2>4. Cardinality(Within(k)) >= n + 1 /\ n + 1 \in Nat
    BY <1>3, <2>1, <2>3
  <2> QED
    BY <2>2, <2>4
<1>7. T = Nat
  <2>1. T \subseteq Nat
    OBVIOUS
  <2> HIDE DEF T
  <2> QED
    BY <1>5, <1>6, <2>1, SetInduction
<1>8. PICK l \in Layers : Cardinality(Within(l)) >= Cardinality(Layers) + 1
  BY <1>4, <1>7
<1> QED
  BY <1>3, <1>4, <1>8

\* In any number of recordings and of layers within layers, a layer is counted
\* once for its handle and once for every capture, and a scene whose canvases
\* and handles are gone has freed every one that no loop of captures holds up.
THEOREM ScenesCounted == HostSpec => []ScenesAreCounted
<1>1. ASSUME SceneInv PROVE Scene!CapturesAccounted
  <2> SUFFICES ASSUME NEW l \in Layers
               PROVE  layer[l].refs = (IF layer[l].handle THEN 1 ELSE 0)
                        + Scene!SumFunction([c \in Canvases |-> canvas[c].has.caps[l]])
                        + Scene!SumFunction([k \in Layers |-> layer[k].has.caps[l]])
    BY DEF Scene!CapturesAccounted
  <2>1. layer[l].refs = HandleOf(layer[l]) + HeldBy(canvas)[l] + Total(CapsOf(layer, l), Layers)
    BY <1>1, CountOf DEF SceneInv
  <2>2. HeldBy(canvas)[l] = Scene!SumFunction([c \in Canvases |-> canvas[c].has.caps[l]])
    <3>1. Scene!SumFunction(CapsIn(canvas, l)) = Total(CapsIn(canvas, l), DOMAIN CapsIn(canvas, l))
      BY DEF Scene!SumFunction, Total, Scene!FoldFunction, Scene!SumFunctionOnSet
    <3>2. /\ DOMAIN CapsIn(canvas, l) = Canvases
          /\ HeldBy(canvas)[l] = Total(CapsIn(canvas, l), Canvases)
      BY DEF CapsIn, HeldBy
    <3> QED
      BY <3>1, <3>2 DEF CapsIn
  <2>3. Total(CapsOf(layer, l), Layers) = Scene!SumFunction([k \in Layers |-> layer[k].has.caps[l]])
    <3>1. Scene!SumFunction(CapsOf(layer, l)) = Total(CapsOf(layer, l), DOMAIN CapsOf(layer, l))
      BY DEF Scene!SumFunction, Total, Scene!FoldFunction, Scene!SumFunctionOnSet
    <3>2. DOMAIN CapsOf(layer, l) = Layers
      BY DEF CapsOf
    <3> QED
      BY <3>1, <3>2 DEF CapsOf
  <2> QED
    BY <2>1, <2>2, <2>3 DEF HandleOf
<1>2. SceneInv => ScenesAreCounted
  BY <1>1, NothingIsLeft DEF ScenesAreCounted
<1>3. [HostNext]_hostVars => [Scene!Next]_(Scene!vars)
  BY DEF HostNext, OfGeometry, OfRoles, OfFrames, OfScene, OfText, hostVars, roleVars, frameVars,
     sceneVars, textVars, vars, Scene!vars
<1> QED
  BY <1>2, <1>3, SceneInductive, PTL DEF HostSpec

-----------------------------------------------------------------------------
(* Text: a buffered paragraph is replayed as it was written.               *)

Operations == [do : {"push", "pop", "text"}, style : Families]
RunFaces == Text!Faces \union {"none"}
Runs == [style : Families, face : RunFaces]
Replays == [open : Seq(Families), runs : Seq(Runs)]
Start == [open |-> <<>>, runs |-> <<>>]
Latest(s) == CHOOSE x \in s : \A y \in s : x >= y
Replay(ops, g, s) ==
    IF s = {} THEN Start ELSE Text!Replayed(g[s \ {Latest(s)}], ops[Latest(s)])

\* A finite set of numbers has a latest one.
LEMMA LatestOf ==
    ASSUME NEW n \in Nat, NEW s \in SUBSET (1..n), s # {}
    PROVE  Latest(s) \in s /\ \A y \in s : Latest(s) >= y
<1> DEFINE T == {m \in Nat : \A q \in SUBSET (1..m) : q # {} => \E x \in q : \A y \in q : x >= y}
<1>1. 0 \in T
  <2>1. 1..0 = {}
    OBVIOUS
  <2> QED
    BY <2>1
<1>2. ASSUME NEW m \in T PROVE m + 1 \in T
  <2>1. m \in Nat /\ \A q \in SUBSET (1..m) : q # {} => \E x \in q : \A y \in q : x >= y
    OBVIOUS
  <2> SUFFICES ASSUME NEW q \in SUBSET (1..(m + 1)), q # {} PROVE \E x \in q : \A y \in q : x >= y
    BY <2>1
  <2>2. CASE m + 1 \in q
    BY <2>1, <2>2
  <2>3. CASE m + 1 \notin q
    <3>1. q \in SUBSET (1..m)
      BY <2>1, <2>3
    <3> QED
      BY <2>1, <3>1
  <2> QED
    BY <2>2, <2>3
<1>3. T = Nat
  <2>1. T \subseteq Nat
    OBVIOUS
  <2> HIDE DEF T
  <2> QED
    BY <1>1, <1>2, <2>1, SetInduction
<1>4. \E x \in s : \A y \in s : x >= y
  BY <1>3
<1> QED
  BY <1>4 DEF Latest

\* The replay's recursion has a solution, and build's runs are those of one.
LEMMA ReplaySolved ==
    ASSUME NEW ops, NEW n \in Nat, DOMAIN ops = 1..n
    PROVE  \E g : /\ g = [s \in SUBSET (1..n) |-> Replay(ops, g, s)]
                  /\ Text!FoldLeft(Text!Replayed, Start, ops) = g[1..n]
<1> DEFINE S == 1..n
           Upto(m) == {s \in SUBSET S : Cardinality(s) <= m}
           Found(g, m) == g = [s \in Upto(m) |-> Replay(ops, g, s)]
           T == {m \in Nat : \E g : Found(g, m)}
<1>0. IsFiniteSet(S)
  BY FS_Interval
<1>1. \A s \in SUBSET S : IsFiniteSet(s) /\ Cardinality(s) \in Nat
  BY <1>0, FS_Subset, FS_CardinalityType
<1>a. \A s \in SUBSET S : s # {} => Latest(s) \in s
  BY LatestOf
<1> HIDE DEF S
<1>2. 0 \in T
  <2>1. Upto(0) = {{}}
    BY <1>1, FS_EmptySet
  <2> DEFINE g == [s \in {{}} |-> Start]
  <2>2. g = [s \in {{}} |-> Replay(ops, g, s)]
    BY DEF Replay
  <2> HIDE DEF g, Upto
  <2>3. Found(g, 0)
    BY <2>1, <2>2
  <2> QED
    BY <2>3
<1>3. ASSUME NEW m \in T PROVE m + 1 \in T
  <2>1. PICK g : Found(g, m)
    OBVIOUS
  <2>2. m \in Nat
    OBVIOUS
  <2> DEFINE h == [s \in Upto(m + 1) |-> IF s \in Upto(m) THEN g[s] ELSE Replay(ops, g, s)]
  <2>3. \A s \in Upto(m) : s \in Upto(m + 1)
    BY <1>1, <2>2
  <2>4. ASSUME NEW s \in Upto(m + 1), s # {} PROVE s \ {Latest(s)} \in Upto(m)
    <3>1. s \in SUBSET S /\ Cardinality(s) <= m + 1 /\ Latest(s) \in s
      BY <1>a, <2>4
    <3>2. Cardinality(s \ {Latest(s)}) = Cardinality(s) - 1
      BY <1>1, <3>1, FS_RemoveElement
    <3>3. Cardinality(s \ {Latest(s)}) <= m
      BY <1>1, <2>2, <3>1, <3>2
    <3> QED
      BY <3>1, <3>3
  <2> HIDE DEF Upto
  <2>5. \A s \in Upto(m) : g[s] = Replay(ops, g, s)
    BY <2>1
  <2>6. \A s \in Upto(m + 1) : h[s] = Replay(ops, g, s)
    BY <2>5
  <2>7. \A s \in Upto(m) : h[s] = g[s]
    BY <2>3
  <2>8. h = [s \in Upto(m + 1) |-> h[s]]
    OBVIOUS
  <2> HIDE DEF h
  <2>9. \A s \in Upto(m + 1) : Replay(ops, g, s) = Replay(ops, h, s)
    BY <2>4, <2>7 DEF Replay
  <2>10. Found(h, m + 1)
    BY <2>6, <2>8, <2>9
  <2> QED
    BY <2>2, <2>10
<1>4. T = Nat
  <2>1. T \subseteq Nat
    OBVIOUS
  <2> HIDE DEF T
  <2> QED
    BY <1>2, <1>3, <2>1, SetInduction
<1>5. Upto(Cardinality(S)) = SUBSET S
  BY <1>0, <1>1, FS_Subset
<1> DEFINE Solves(g) == g = [s \in SUBSET S |-> Replay(ops, g, s)]
<1>6. \E g : Solves(g)
  <2>0. Cardinality(S) \in T
    BY <1>0, <1>4, FS_CardinalityType
  <2>1. PICK g : Found(g, Cardinality(S))
    BY <2>0
  <2>2. Solves(g)
    BY <1>5, <2>1
  <2> QED
    BY <2>2
<1> DEFINE q == CHOOSE g : Solves(g)
<1>7. Text!FoldLeft(Text!Replayed, Start, ops) = q[S]
  BY DEF S, Replay, Latest, Text!FoldLeft, Text!MapThenFoldSet, Text!Max
<1>8. Solves(q)
  <2> HIDE DEF Solves
  <2> QED
    BY <1>6
<1> QED
  BY <1>7, <1>8 DEF S

\* The runs are those after as many operations as there are.
LEMMA ReplaySteps ==
    ASSUME NEW ops, NEW n \in Nat, DOMAIN ops = 1..n
    PROVE  \E st : /\ st = [i \in 0..n |-> st[i]] /\ st[0] = Start
                   /\ \A i \in 1..n : st[i] = Text!Replayed(st[i - 1], ops[i])
                   /\ Text!FoldLeft(Text!Replayed, Start, ops) = st[n]
<1>1. PICK g : /\ g = [s \in SUBSET (1..n) |-> Replay(ops, g, s)]
               /\ Text!FoldLeft(Text!Replayed, Start, ops) = g[1..n]
  BY ReplaySolved
<1> DEFINE st == [i \in 0..n |-> g[1..i]]
<1>2. \A s \in SUBSET (1..n) : g[s] = Replay(ops, g, s)
  <2> DEFINE h == [s \in SUBSET (1..n) |-> Replay(ops, g, s)]
  <2>1. \A s \in SUBSET (1..n) : h[s] = Replay(ops, g, s)
    OBVIOUS
  <2> QED
    BY <1>1, <2>1
<1>3. st[0] = Start
  <2>1. 1..0 = {} /\ {} \in SUBSET (1..n)
    OBVIOUS
  <2>2. g[{}] = Start
    BY <1>2, <2>1 DEF Replay
  <2> QED
    BY <2>1, <2>2
<1>4. ASSUME NEW i \in 1..n PROVE st[i] = Text!Replayed(st[i - 1], ops[i])
  <2>1. 1..i \in SUBSET (1..n) /\ 1..i # {} /\ i \in Nat /\ 1..i \in SUBSET (1..i)
    OBVIOUS
  <2>2. Latest(1..i) = i
    <3>1. \A s \in SUBSET (1..i) : s # {} => Latest(s) \in s /\ \A y \in s : Latest(s) >= y
      BY <2>1, LatestOf
    <3>2. Latest(1..i) \in 1..i /\ Latest(1..i) >= i
      BY <2>1, <3>1
    <3> QED
      BY <3>2
  <2>3. (1..i) \ {i} = 1..(i - 1)
    OBVIOUS
  <2>4. g[1..i] = Text!Replayed(g[1..(i - 1)], ops[i])
    BY <1>2, <2>1, <2>2, <2>3 DEF Replay
  <2>5. st[i] = g[1..i] /\ st[i - 1] = g[1..(i - 1)]
    OBVIOUS
  <2> QED
    BY <2>4, <2>5
<1>5. st = [i \in 0..n |-> st[i]] /\ st[n] = g[1..n]
  OBVIOUS
<1> HIDE DEF st
<1> QED
  BY <1>1, <1>3, <1>4, <1>5

\* What an operation does to the styles and the runs.
LEMMA OperationReplayed ==
    ASSUME NEW st \in Replays, NEW op \in Operations
    PROVE  /\ op.do = "push" => Text!Replayed(st, op) = [st EXCEPT !.open = Append(@, op.style)]
           /\ op.do = "pop" => Text!Replayed(st, op)
                                 = [st EXCEPT !.open = IF @ = <<>> THEN @ ELSE Text!Front(@)]
           /\ op.do = "text" => Text!Replayed(st, op)
                 = [st EXCEPT !.runs = Append(@, Text!Styled(IF st.open = <<>> THEN builder.default
                                                            ELSE Text!Last(st.open)))]
BY DEF Text!Replayed

\* Depth counts what is open.
LEMMA DepthSolved ==
    ASSUME NEW ops, NEW n \in Nat, Len(ops) = n
    PROVE  /\ Text!Depth(ops)[0] = 0
           /\ \A i \in 0..n : Text!Depth(ops)[i] \in Nat
           /\ \A i \in 1..n : Text!Depth(ops)[i] =
                IF ops[i].do = "push" THEN Text!Depth(ops)[i - 1] + 1
                ELSE IF ops[i].do = "pop" /\ Text!Depth(ops)[i - 1] > 0
                THEN Text!Depth(ops)[i - 1] - 1
                ELSE Text!Depth(ops)[i - 1]
<1> DEFINE At(g, i) ==
             IF i = 0 THEN 0
             ELSE CASE ops[i].do = "push" -> g[i - 1] + 1
                    [] ops[i].do = "pop"  -> IF g[i - 1] = 0 THEN 0 ELSE g[i - 1] - 1
                    [] OTHER              -> g[i - 1]
           Found(g, m) == g = [i \in 0..m |-> At(g, i)]
           T == {m \in Nat : \E g : Found(g, m)}
           q == CHOOSE g : g = [i \in 0..Len(ops) |-> At(g, i)]
<1>1. 0 \in T
  <2> DEFINE g == [i \in 0..0 |-> 0]
  <2>a. g = [i \in 0..0 |-> g[i]] /\ \A i \in 0..0 : g[i] = 0
    OBVIOUS
  <2> HIDE DEF g
  <2>b. \A i \in 0..0 : At(g, i) = 0
    OBVIOUS
  <2> HIDE DEF At
  <2>1. g = [i \in 0..0 |-> At(g, i)]
    BY <2>a, <2>b
  <2>2. Found(g, 0)
    BY <2>1
  <2> QED
    BY <2>2
<1>2. ASSUME NEW m \in T PROVE m + 1 \in T
  <2>1. m \in Nat
    OBVIOUS
  <2>2. PICK g : Found(g, m)
    OBVIOUS
  <2> DEFINE h == [i \in 0..(m + 1) |-> IF i \in 0..m THEN g[i] ELSE At(g, i)]
  <2> HIDE DEF At
  <2>3. \A i \in 0..m : g[i] = At(g, i)
    BY <2>2
  <2>4. \A i \in 0..(m + 1) : h[i] = At(g, i)
    BY <2>3
  <2>5. \A i \in 0..m : h[i] = g[i]
    BY <2>1
  <2>6. h = [i \in 0..(m + 1) |-> h[i]]
    OBVIOUS
  <2> HIDE DEF h
  <2>7. \A i \in 0..(m + 1) : At(g, i) = At(h, i)
    <3> SUFFICES ASSUME NEW i \in 0..(m + 1) PROVE At(g, i) = At(h, i)
      OBVIOUS
    <3>1. i = 0 \/ i - 1 \in 0..m
      BY <2>1
    <3>2. i # 0 => g[i - 1] = h[i - 1]
      BY <2>5, <3>1
    <3> QED
      BY <3>2, Zenon DEF At
  <2>8. Found(h, m + 1)
    BY <2>4, <2>6, <2>7
  <2> QED
    BY <2>1, <2>8
<1>3. T = Nat
  <2>1. T \subseteq Nat
    OBVIOUS
  <2> HIDE DEF T
  <2> QED
    BY <1>1, <1>2, <2>1, SetInduction
<1>4. Text!Depth(ops) = q
  BY DEF Text!Depth
<1> HIDE DEF At
<1>5. \E g : g = [i \in 0..Len(ops) |-> At(g, i)]
  BY <1>3
<1>6. q = [i \in 0..n |-> At(q, i)]
  BY <1>5
<1> HIDE DEF q
<1>7. \A i \in 0..n : q[i] = At(q, i)
  <2> DEFINE h == [i \in 0..n |-> At(q, i)]
  <2>1. \A i \in 0..n : h[i] = At(q, i)
    OBVIOUS
  <2> QED
    BY <1>6, <2>1
<1>8. q[0] = 0
  BY <1>7 DEF At
<1>9. ASSUME NEW i \in 1..n
      PROVE  q[i] = CASE ops[i].do = "push" -> q[i - 1] + 1
                      [] ops[i].do = "pop"  -> IF q[i - 1] = 0 THEN 0 ELSE q[i - 1] - 1
                      [] OTHER              -> q[i - 1]
  BY <1>7 DEF At
<1> DEFINE U == {i \in Nat : i <= n => q[i] \in Nat}
<1>10. 0 \in U
  BY <1>8
<1>11. ASSUME NEW i \in U PROVE i + 1 \in U
  <2> SUFFICES ASSUME i + 1 <= n PROVE q[i + 1] \in Nat
    OBVIOUS
  <2>1. i \in Nat /\ q[i] \in Nat /\ i + 1 \in 1..n /\ (i + 1) - 1 = i
    OBVIOUS
  <2>2. q[i + 1] \in {q[i] + 1, 0, q[i]} \/ (q[i] # 0 /\ q[i + 1] = q[i] - 1)
    BY <1>9, <2>1
  <2> QED
    BY <2>1, <2>2
<1>12. U = Nat
  <2>1. U \subseteq Nat
    OBVIOUS
  <2> HIDE DEF U
  <2> QED
    BY <1>10, <1>11, <2>1, SetInduction
<1>13. \A i \in 0..n : q[i] \in Nat
  BY <1>12
<1>14. ASSUME NEW i \in 1..n
       PROVE  q[i] = IF ops[i].do = "push" THEN q[i - 1] + 1
                     ELSE IF ops[i].do = "pop" /\ q[i - 1] > 0 THEN q[i - 1] - 1 ELSE q[i - 1]
  <2>1. q[i - 1] \in Nat
    BY <1>13
  <2> QED
    BY <1>9, <2>1
<1> QED
  BY <1>4, <1>8, <1>13, <1>14

\* How many texts there are, an operation at a time.
LEMMA TextsCount ==
    ASSUME NEW ops, NEW n \in Nat, Len(ops) = n
    PROVE  /\ Text!Texts(ops, 0) = 0 /\ \A i \in 0..n : Text!Texts(ops, i) \in Nat
           /\ \A i \in 1..n : Text!Texts(ops, i) =
                Text!Texts(ops, i - 1) + (IF ops[i].do = "text" THEN 1 ELSE 0)
<1> DEFINE Adds(i) == {j \in 1..i : ops[j].do = "text"}
<1>1. \A i \in 0..n : Text!Texts(ops, i) = Cardinality(Adds(i))
  BY DEF Text!Texts, Text!Cardinality, Text!IsFiniteSet, Cardinality, IsFiniteSet
<1>2. \A i \in 0..n : IsFiniteSet(Adds(i)) /\ Cardinality(Adds(i)) \in Nat
  <2> SUFFICES ASSUME NEW i \in 0..n PROVE IsFiniteSet(Adds(i)) /\ Cardinality(Adds(i)) \in Nat
    OBVIOUS
  <2>1. IsFiniteSet(1..i)
    BY FS_Interval
  <2>2. Adds(i) \in SUBSET (1..i)
    OBVIOUS
  <2> HIDE DEF Adds
  <2> QED
    BY <2>1, <2>2, FS_Subset, FS_CardinalityType
<1>3. Cardinality(Adds(0)) = 0
  <2>1. Adds(0) = {}
    OBVIOUS
  <2> QED
    BY <2>1, FS_EmptySet
<1>4. ASSUME NEW i \in 1..n
      PROVE  Cardinality(Adds(i)) = Cardinality(Adds(i - 1)) + (IF ops[i].do = "text" THEN 1 ELSE 0)
  <2>1. i - 1 \in 0..n /\ i \notin Adds(i - 1)
    OBVIOUS
  <2>2. Adds(i) = IF ops[i].do = "text" THEN Adds(i - 1) \union {i} ELSE Adds(i - 1)
    OBVIOUS
  <2>3. IsFiniteSet(Adds(i - 1)) /\ Cardinality(Adds(i - 1)) \in Nat
    BY <1>2, <2>1
  <2> HIDE DEF Adds
  <2>4. Cardinality(Adds(i - 1) \union {i}) = Cardinality(Adds(i - 1)) + 1
    BY <2>1, <2>3, FS_AddElement
  <2> QED
    BY <2>2, <2>3, <2>4
<1> HIDE DEF Adds
<1> QED
  BY <1>1, <1>2, <1>3, <1>4

\* Push number j opened the d-th style after i operations, and nothing since
\* has closed it.
Opened(ops, i, j, d) ==
    /\ ops[j].do = "push" /\ Text!Depth(ops)[j] = d
    /\ \A k \in j..i : Text!Depth(ops)[k] >= d
Stacked(ops, i, open) ==
    \A d \in 1..Len(open) : \E j \in 1..i : Opened(ops, i, j, d) /\ open[d] = ops[j].style

\* The style on top is the one in force.
LEMMA TopIsInForce ==
    ASSUME NEW b, NEW n \in Nat, Len(b.ops) = n, NEW i \in 1..n, NEW open \in Seq(Families),
           Len(open) = Text!Depth(b.ops)[i - 1], Stacked(b.ops, i - 1, open)
    PROVE  Text!InForce(b, i) = IF open = <<>> THEN b.default ELSE Text!Last(open)
<1> DEFINE D == Text!Depth(b.ops)
           Holds(j) == b.ops[j].do = "push" /\ \A k \in j..i - 1 : D[k] >= D[j]
           Pushes == {j \in 1..i - 1 : Holds(j)}
           Greatest(j) == \A k \in Pushes : k <= j
<1>1. /\ \A k \in 0..n : D[k] \in Nat
      /\ \A k \in 1..n : b.ops[k].do = "push" => D[k] = D[k - 1] + 1
  BY DepthSolved
<1>2. Text!InForce(b, i) = IF Pushes = {} THEN b.default
                           ELSE b.ops[CHOOSE j \in Pushes : Greatest(j)].style
  BY DEF Text!InForce
<1>3. \A d \in 1..Len(open) : \E j \in 1..i - 1 :
         /\ b.ops[j].do = "push" /\ D[j] = d /\ \A k \in j..i - 1 : D[k] >= d
         /\ open[d] = b.ops[j].style
  BY DEF Stacked, Opened
<1>4. Len(open) = D[i - 1] /\ i - 1 \in 0..n /\ i - 1 \in Nat /\ i \in Nat
  OBVIOUS
<1> HIDE DEF D
<1>5. \A j \in Pushes : /\ j \in 1..i - 1 /\ b.ops[j].do = "push" /\ D[j] <= D[i - 1]
                        /\ D[j] = D[j - 1] + 1 /\ D[j - 1] \in Nat /\ D[j] \in Nat
  <2> SUFFICES ASSUME NEW j \in Pushes
               PROVE  /\ j \in 1..i - 1 /\ b.ops[j].do = "push" /\ D[j] <= D[i - 1]
                      /\ D[j] = D[j - 1] + 1 /\ D[j - 1] \in Nat /\ D[j] \in Nat
    OBVIOUS
  <2>1. j \in 1..i - 1 /\ i - 1 \in j..i - 1 /\ j \in 1..n /\ j \in 0..n /\ j - 1 \in 0..n
    BY <1>4
  <2>2. D[i - 1] >= D[j] /\ b.ops[j].do = "push"
    BY <2>1
  <2> QED
    BY <1>1, <1>4, <2>1, <2>2
<1>6. CASE open = <<>>
  <2>1. D[i - 1] = 0
    BY <1>4, <1>6
  <2>2. Pushes = {}
    BY <1>5, <2>1
  <2> QED
    BY <1>2, <1>6, <2>2
<1>7. CASE open # <<>>
  <2>1. Len(open) \in 1..Len(open) /\ Len(open) \in Nat
    BY <1>7
  <2>2. PICK j \in 1..i - 1 : /\ b.ops[j].do = "push" /\ D[j] = Len(open)
                              /\ \A k \in j..i - 1 : D[k] >= Len(open)
                              /\ open[Len(open)] = b.ops[j].style
    BY <1>3, <2>1
  <2>3. j \in Pushes
    BY <2>2
  <2>4. ASSUME NEW k \in Pushes, k > j PROVE FALSE
    <3>1. k \in 1..i - 1 /\ D[k] <= D[i - 1] /\ D[k] = D[k - 1] + 1 /\ D[k - 1] \in Nat
      BY <1>5, <2>4
    <3>2. k - 1 \in j..i - 1
      BY <2>4, <3>1
    <3>3. D[k - 1] >= Len(open)
      BY <2>2, <3>2
    <3> QED
      BY <1>4, <2>1, <3>1, <3>3
  <2>5. Greatest(j)
    BY <1>5, <2>4
  <2>6. ASSUME NEW k \in Pushes, Greatest(k) PROVE k = j
    <3>1. j <= k
      BY <2>3, <2>6
    <3>2. k <= j
      BY <2>5
    <3>3. k \in Nat /\ j \in Nat
      BY <1>5, <2>3
    <3> QED
      BY <3>1, <3>2, <3>3
  <2> HIDE DEF Pushes, Greatest
  <2>7. (CHOOSE k \in Pushes : Greatest(k)) = j
    BY <2>3, <2>5, <2>6
  <2>8. Text!Last(open) = open[Len(open)]
    BY DEF Text!Last
  <2> QED
    BY <1>2, <1>7, <2>2, <2>3, <2>7, <2>8
<1> QED
  BY <1>6, <1>7

\* What an operation does to the styles that are open.
Moved(open, op) ==
    CASE op.do = "push" -> Append(open, op.style)
      [] op.do = "pop"  -> (IF open = <<>> THEN open ELSE Text!Front(open))
      [] OTHER          -> open

\* A stack without its last element, as TextFonts takes it.
LEMMA FrontOf ==
    ASSUME NEW S, NEW s \in Seq(S), s # <<>>
    PROVE  /\ Text!Front(s) \in Seq(S) /\ Len(Text!Front(s)) = Len(s) - 1
           /\ \A d \in 1..Len(s) - 1 : Text!Front(s)[d] = s[d]
<1>1. Text!Front(s) = Picture!Front(s)
  BY DEF Text!Front, Picture!Front
<1> QED
  BY <1>1, BelowTop

\* Each operation keeps the stack of styles in step with the depth.
LEMMA StackMoves ==
    ASSUME NEW ops, NEW n \in Nat, Len(ops) = n, NEW i \in 1..n, ops[i] \in Operations,
           NEW open \in Seq(Families), Len(open) = Text!Depth(ops)[i - 1], Stacked(ops, i - 1, open)
    PROVE  /\ Moved(open, ops[i]) \in Seq(Families)
           /\ Len(Moved(open, ops[i])) = Text!Depth(ops)[i] /\ Stacked(ops, i, Moved(open, ops[i]))
<1> DEFINE D == Text!Depth(ops)
           new == Moved(open, ops[i])
<1>1. /\ \A k \in 0..n : D[k] \in Nat
      /\ D[i] = IF ops[i].do = "push" THEN D[i - 1] + 1
                ELSE IF ops[i].do = "pop" /\ D[i - 1] > 0 THEN D[i - 1] - 1 ELSE D[i - 1]
  BY DepthSolved
<1>2. /\ i \in Nat /\ i - 1 \in Nat /\ i - 1 \in 0..n /\ i \in 0..n /\ Len(open) = D[i - 1]
      /\ D[i] \in Nat /\ D[i - 1] \in Nat
  BY <1>1
<1>3. ops[i].do \in {"push", "pop", "text"} /\ ops[i].style \in Families
  BY DEF Operations
<1>4. \A d \in 1..Len(open) : \E j \in 1..i - 1 :
         /\ ops[j].do = "push" /\ D[j] = d /\ \A k \in j..i - 1 : D[k] >= d
         /\ open[d] = ops[j].style
  BY DEF Stacked, Opened
<1> HIDE DEF D
\* What was opened below stays open.
<1>5. ASSUME NEW d \in 1..Len(open), d <= D[i]
      PROVE  \E j \in 1..i : /\ ops[j].do = "push" /\ D[j] = d /\ \A k \in j..i : D[k] >= d
                             /\ open[d] = ops[j].style
  <2>1. PICK j \in 1..i - 1 : /\ ops[j].do = "push" /\ D[j] = d /\ \A k \in j..i - 1 : D[k] >= d
                              /\ open[d] = ops[j].style
    BY <1>4
  <2>2. \A k \in j..i : k = i \/ k \in j..i - 1
    BY <1>2
  <2>3. \A k \in j..i : D[k] >= d
    BY <1>2, <1>5, <2>1, <2>2
  <2> QED
    BY <1>2, <2>1, <2>3
<1>6. /\ new \in Seq(Families) /\ Len(new) = D[i]
      /\ \A d \in 1..Len(new) : (d \in 1..Len(open) /\ new[d] = open[d])
                                \/ (ops[i].do = "push" /\ d = D[i] /\ new[d] = ops[i].style)
  <2>1. CASE ops[i].do = "push"
    <3>1. new = Append(open, ops[i].style)
      BY <2>1 DEF Moved
    <3> HIDE DEF new
    <3> QED
      BY <1>1, <1>2, <1>3, <2>1, <3>1
  <2>2. CASE ops[i].do = "pop" /\ open # <<>>
    <3>1. new = Text!Front(open)
      BY <2>2 DEF Moved
    <3> HIDE DEF new
    <3>2. /\ new \in Seq(Families) /\ Len(new) = Len(open) - 1
          /\ \A d \in 1..Len(open) - 1 : new[d] = open[d]
      BY <2>2, <3>1, FrontOf
    <3>3. Len(open) > 0 /\ Len(open) \in Nat
      BY <2>2
    <3>4. D[i] = D[i - 1] - 1
      BY <1>1, <1>2, <2>2, <3>3
    <3> QED
      BY <1>2, <3>2, <3>3, <3>4
  <2>3. CASE ops[i].do = "text" \/ (ops[i].do = "pop" /\ open = <<>>)
    <3>1. new = open
      BY <2>3 DEF Moved
    <3> HIDE DEF new
    <3>2. D[i] = D[i - 1]
      BY <1>1, <1>2, <2>3
    <3> QED
      BY <1>2, <3>1, <3>2
  <2> QED
    BY <1>3, <2>1, <2>2, <2>3
<1> HIDE DEF new
<1>7. ASSUME NEW d \in 1..Len(new)
      PROVE  \E j \in 1..i : /\ ops[j].do = "push" /\ D[j] = d /\ \A k \in j..i : D[k] >= d
                             /\ new[d] = ops[j].style
  <2>0. d <= D[i]
    BY <1>2, <1>6
  <2>1. CASE d \in 1..Len(open) /\ new[d] = open[d]
    <3>1. PICK j \in 1..i : /\ ops[j].do = "push" /\ D[j] = d /\ \A k \in j..i : D[k] >= d
                            /\ open[d] = ops[j].style
      BY <1>5, <2>0, <2>1
    <3> QED
      BY <2>1, <3>1
  <2>2. CASE ops[i].do = "push" /\ d = D[i] /\ new[d] = ops[i].style
    <3>1. \A k \in i..i : k = i
      BY <1>2
    <3> QED
      BY <1>2, <2>2, <3>1
  <2> QED
    BY <1>6, <2>1, <2>2
<1>8. Stacked(ops, i, new)
  BY <1>7 DEF Stacked, Opened, D
<1> QED
  BY <1>6, <1>8 DEF new, D

\* A style's face is one of the faces.
LEMMA StyledTyped ==
    ASSUME fonts.cache \in [Families -> RunFaces], NEW f \in Families
    PROVE  Text!Styled(f) \in Runs /\ Text!Styled(f).style = f
<1>1. Text!Lookup(f) \in RunFaces
  BY DEF Text!Lookup, RunFaces, Text!Faces
<1>2. Text!Typeface(f) \in RunFaces
  BY <1>1 DEF Text!Typeface
<1>3. "none" \in RunFaces
  BY DEF RunFaces
<1> QED
  BY <1>2, <1>3 DEF Text!Styled, Runs

\* After i operations: the stack, and each text so far in the style in force.
Sofar(ops, i, st) ==
    /\ st \in Replays /\ Len(st.open) = Text!Depth(ops)[i] /\ Stacked(ops, i, st.open)
    /\ Len(st.runs) = Text!Texts(ops, i)
    /\ \A j \in 1..i : ops[j].do = "text" =>
         /\ Text!Texts(ops, j) \in 1..Len(st.runs)
         /\ st.runs[Text!Texts(ops, j)] = Text!Styled(Text!InForce(builder, j))

\* One operation more.
LEMMA ReplayGoesOn ==
    ASSUME NEW ops, ops = builder.ops, ops \in Seq(Operations), builder.default \in Families,
           fonts.cache \in [Families -> RunFaces], NEW i \in 1..Len(ops), NEW st,
           Sofar(ops, i - 1, st)
    PROVE  Sofar(ops, i, Text!Replayed(st, ops[i]))
<1> DEFINE op == ops[i]
           new == Text!Replayed(st, ops[i])
           f == IF st.open = <<>> THEN builder.default ELSE Text!Last(st.open)
<1>1. /\ op \in Operations /\ Len(ops) \in Nat
      /\ i - 1 \in 0..Len(ops) /\ i \in Nat /\ i \in 0..Len(ops)
  OBVIOUS
<1>2. /\ st \in Replays /\ st.open \in Seq(Families) /\ st.runs \in Seq(Runs)
      /\ Len(st.open) = Text!Depth(ops)[i - 1] /\ Stacked(ops, i - 1, st.open)
      /\ Len(st.runs) = Text!Texts(ops, i - 1)
  BY DEF Sofar, Replays
<1>3. /\ new.open = Moved(st.open, op)
      /\ new.runs = IF op.do = "text" THEN Append(st.runs, Text!Styled(f)) ELSE st.runs
      /\ new = [open |-> new.open, runs |-> new.runs]
  <2>1. op.do \in {"push", "pop", "text"}
    BY <1>1 DEF Operations
  <2>2. st = [open |-> st.open, runs |-> st.runs]
    BY <1>2 DEF Replays
  <2>3. CASE op.do = "push"
    <3>1. new = [st EXCEPT !.open = Append(@, op.style)]
      BY <1>1, <1>2, <2>3, OperationReplayed
    <3> HIDE DEF new
    <3> QED
      BY <2>2, <2>3, <3>1 DEF Moved
  <2>4. CASE op.do = "pop"
    <3>1. new = [st EXCEPT !.open = IF @ = <<>> THEN @ ELSE Text!Front(@)]
      BY <1>1, <1>2, <2>4, OperationReplayed
    <3> HIDE DEF new
    <3> QED
      BY <2>2, <2>4, <3>1 DEF Moved
  <2>5. CASE op.do = "text"
    <3>1. new = [st EXCEPT !.runs = Append(@, Text!Styled(f))]
      BY <1>1, <1>2, <2>5, OperationReplayed
    <3> HIDE DEF new, f
    <3> QED
      BY <2>2, <2>5, <3>1 DEF Moved
  <2> QED
    BY <2>1, <2>3, <2>4, <2>5
<1>4. /\ new.open \in Seq(Families) /\ Len(new.open) = Text!Depth(ops)[i]
      /\ Stacked(ops, i, new.open)
  <2> DEFINE open == st.open
             after == Moved(open, ops[i])
  <2>1. open \in Seq(Families) /\ Len(open) = Text!Depth(ops)[i - 1] /\ Stacked(ops, i - 1, open)
    BY <1>2
  <2> HIDE DEF open, new
  <2>2. /\ after \in Seq(Families) /\ Len(after) = Text!Depth(ops)[i]
        /\ Stacked(ops, i, after)
    BY <1>1, <2>1, StackMoves
  <2> QED
    BY <1>3, <2>2 DEF open
<1>5. f = Text!InForce(builder, i) /\ f \in Families
  <2>1. f = Text!InForce(builder, i)
    BY <1>1, <1>2, TopIsInForce
  <2>2. st.open # <<>> => Text!Last(st.open) \in Families
    BY <1>2 DEF Text!Last
  <2> QED
    BY <2>1, <2>2
<1>6. Text!Styled(f) \in Runs
  BY <1>5, StyledTyped
<1>7. /\ Text!Texts(ops, i) = Text!Texts(ops, i - 1) + (IF op.do = "text" THEN 1 ELSE 0)
      /\ Text!Texts(ops, i - 1) \in Nat
  BY <1>1, TextsCount
<1> HIDE DEF new, f, op
<1>8. new.runs \in Seq(Runs) /\ Len(new.runs) = Text!Texts(ops, i)
  BY <1>2, <1>3, <1>6, <1>7
<1>9. new \in Replays
  BY <1>3, <1>4, <1>8 DEF Replays
<1>10. \A k \in 1..Len(st.runs) : k \in 1..Len(new.runs) /\ new.runs[k] = st.runs[k]
  BY <1>2, <1>3, <1>6
<1>11. ASSUME NEW j \in 1..i, ops[j].do = "text"
       PROVE  /\ Text!Texts(ops, j) \in 1..Len(new.runs)
              /\ new.runs[Text!Texts(ops, j)] = Text!Styled(Text!InForce(builder, j))
  <2>1. CASE j = i
    <3>1. new.runs = Append(st.runs, Text!Styled(f)) /\ Text!Texts(ops, i) = Len(st.runs) + 1
      BY <1>2, <1>3, <1>7, <1>11, <2>1 DEF op
    <3>2. /\ Text!Texts(ops, i) \in 1..Len(new.runs)
          /\ new.runs[Text!Texts(ops, i)] = Text!Styled(f)
      BY <1>2, <1>6, <3>1
    <3> QED
      BY <1>5, <2>1, <3>2
  <2>2. CASE j # i
    <3>1. j \in 1..i - 1
      BY <1>1, <2>2
    <3>2. /\ Text!Texts(ops, j) \in 1..Len(st.runs)
          /\ st.runs[Text!Texts(ops, j)] = Text!Styled(Text!InForce(builder, j))
      BY <1>11, <3>1 DEF Sofar
    <3> QED
      BY <1>10, <3>2
  <2> QED
    BY <2>1, <2>2
<1>12. Sofar(ops, i, new)
  BY <1>4, <1>8, <1>9, <1>11 DEF Sofar
<1> QED
  BY <1>12 DEF new

Fonts == [cache : [Families -> RunFaces], app : BOOLEAN, fallback : BOOLEAN]
Builders == [open : BOOLEAN, default : Families, limit : Nat, ops : Seq(Operations)]

\* An app with assets has its fonts in every renderer it is given, and no other
\* face for a family it bundles was ever cached.
TextInv ==
    /\ fonts \in Fonts /\ builder \in Builders /\ assets \in BOOLEAN
    /\ assets /\ Bundled # {} => fonts.app
    /\ assets => \A f \in Bundled : fonts.cache[f] \in {"none", "app"}

\* What is assumed of the families.
LEMMA TextConstants ==
    /\ "" \in Families /\ Bundled \subseteq Families /\ "" \notin Bundled
    /\ Assets \subseteq BOOLEAN
BY Constants DEF Text!ConstantsOK

\* A new builder, and one operation more in it.
LEMMA NewTyped ==
    /\ Text!NoBuilder \in Builders
    /\ \A b \in Builders, op \in Operations : [b EXCEPT !.ops = Append(@, op)] \in Builders
<1>1. Text!NoBuilder \in Builders
  <2>1. Text!NoBuilder = [open |-> FALSE, default |-> "", limit |-> 0, ops |-> <<>>]
    BY DEF Text!NoBuilder
  <2>2. "" \in Families /\ 0 \in Nat /\ FALSE \in BOOLEAN
    BY TextConstants
  <2>3. <<>> \in Seq(Operations)
    OBVIOUS
  <2> QED
    BY <2>1, <2>2, <2>3 DEF Builders
<1>2. ASSUME NEW b \in Builders, NEW op \in Operations
      PROVE  [b EXCEPT !.ops = Append(@, op)] \in Builders
  <2>1. b.ops \in Seq(Operations)
    BY DEF Builders
  <2>2. Append(b.ops, op) \in Seq(Operations)
    BY <2>1
  <2> QED
    BY <2>2 DEF Builders
<1> QED
  BY <1>1, <1>2

\* So a family the app bundles has the app's own face.
LEMMA BundledFace ==
    ASSUME TextInv, assets, NEW f \in Bundled
    PROVE  Text!Typeface(f) = "app" /\ Text!Styled(f).face = "app"
<1>1. fonts.cache[f] \in {"none", "app"} /\ f # "" /\ f \in Bundled
  BY TextConstants DEF TextInv
<1>2. Text!Lookup(f) = "app"
  <2>1. fonts.app /\ ~Text!Path(f)
    BY DEF TextInv, Text!Path
  <2> QED
    BY <2>1 DEF Text!Lookup
<1> QED
  BY <1>1, <1>2 DEF Text!Typeface, Text!Styled

\* The cold start loads the fonts of an app that has any.
LEMMA TextInvInit == HostInit => TextInv
<1> SUFFICES ASSUME HostInit PROVE TextInv
  OBVIOUS
<1>1. /\ assets \in Assets /\ builder = Text!NoBuilder
      /\ fonts = IF assets THEN Text!Loaded(Text!NewFonts) ELSE Text!NewFonts
  BY DEF HostInit, Text!Init
<1>2. builder \in Builders
  BY <1>1, NewTyped
<1>3. Text!NewFonts \in Fonts /\ \A f \in Families : Text!NewFonts.cache[f] = "none"
  BY DEF Text!NewFonts, Fonts, RunFaces
<1>4. /\ Text!Loaded(Text!NewFonts) \in Fonts
      /\ Text!Loaded(Text!NewFonts).cache = Text!NewFonts.cache
      /\ Bundled # {} => Text!Loaded(Text!NewFonts).app = TRUE
  BY <1>3 DEF Text!Loaded, Fonts
<1> QED
  BY <1>1, <1>2, <1>3, <1>4, TextConstants DEF TextInv

\* What is built caches faces of the right kind.
LEMMA BuildCaches ==
    ASSUME TextInv, NEW fs
    PROVE  /\ Text!Cached(fs) \in [Families -> RunFaces]
           /\ assets => \A f \in Bundled : Text!Cached(fs)[f] \in {"none", "app"}
<1>1. fonts.cache \in [Families -> RunFaces]
  BY DEF TextInv, Fonts
<1>2. \A f \in Families : Text!Lookup(f) \in RunFaces
  BY DEF Text!Lookup, RunFaces, Text!Faces
<1>3. \A f \in Families : Text!Typeface(f) \in RunFaces
  BY <1>1, <1>2 DEF Text!Typeface
<1>4. assets => \A f \in Bundled : Text!Typeface(f) = "app"
  BY BundledFace
<1>5. \A f \in Families : Text!Cached(fs)[f] = IF f \in fs \ {""} THEN Text!Typeface(f)
                                               ELSE fonts.cache[f]
  BY DEF Text!Cached
<1>6. Text!Cached(fs) \in [Families -> RunFaces]
  BY <1>1, <1>3 DEF Text!Cached
<1>7. ASSUME assets, NEW f \in Bundled PROVE Text!Cached(fs)[f] \in {"none", "app"}
  <2>1. f \in Families /\ fonts.cache[f] \in {"none", "app"} /\ Text!Typeface(f) = "app"
    BY <1>4, <1>7, TextConstants DEF TextInv
  <2> QED
    BY <1>5, <2>1
<1> QED
  BY <1>6, <1>7

\* Every step keeps the fonts, a warm resume the cache and the app's own.
LEMMA TextInductive ==
    ASSUME TextInv, [Text!Next]_(Text!vars)
    PROVE  TextInv'
<1>0. fonts \in Fonts /\ builder \in Builders /\ assets \in BOOLEAN
  BY DEF TextInv
<1>b. Text!NoBuilder \in Builders
  BY NewTyped
<1>1. ASSUME NEW f \in Families, Text!NewBuilder(f) \/ Text!Buffer(Text!Push(f)) PROVE TextInv'
  <2>1. UNCHANGED <<fonts, assets>>
    BY <1>1 DEF Text!NewBuilder, Text!Buffer
  <2>2. builder' \in Builders
    <3>1. CASE Text!NewBuilder(f)
      BY <1>b, <3>1 DEF Text!NewBuilder, Builders
    <3>2. CASE Text!Buffer(Text!Push(f))
      <4>1. Text!Push(f) \in Operations
        BY DEF Text!Push, Operations
      <4>2. builder' = [builder EXCEPT !.ops = Append(@, Text!Push(f))]
        BY <3>2 DEF Text!Buffer
      <4> QED
        BY <1>0, <4>1, <4>2, NewTyped
    <3> QED
      BY <1>1, <3>1, <3>2
  <2> QED
    BY <2>1, <2>2 DEF TextInv
<1>2. ASSUME NEW k \in 0..1, Text!Set(k) PROVE TextInv'
  BY <1>0, <1>2 DEF Text!Set, TextInv, Builders
<1>3. CASE Text!Buffer(Text!Pop) \/ Text!Buffer(Text!AddText)
  <2>1. UNCHANGED <<fonts, assets>>
    BY <1>3 DEF Text!Buffer
  <2>2. Text!Pop \in Operations /\ Text!AddText \in Operations
    BY TextConstants DEF Text!Pop, Text!AddText, Operations
  <2>3. PICK op \in Operations : builder' = [builder EXCEPT !.ops = Append(@, op)]
    BY <1>3, <2>2 DEF Text!Buffer
  <2>4. builder' \in Builders
    BY <1>0, <2>3, NewTyped
  <2> QED
    BY <2>1, <2>4 DEF TextInv
<1>4. ASSUME NEW w \in 1..2, Text!Layout(w) PROVE TextInv'
  BY <1>4 DEF Text!Layout, TextInv
<1>5. CASE Text!Build
  <2>1. PICK fs : fonts' = [fonts EXCEPT !.cache = Text!Cached(fs)]
    BY <1>5 DEF Text!Build
  <2>2. builder' = Text!NoBuilder /\ assets' = assets
    BY <1>5 DEF Text!Build
  <2>3. fonts' \in Fonts /\ fonts'.cache = Text!Cached(fs) /\ fonts'.app = fonts.app
    BY <1>0, <2>1, BuildCaches DEF Fonts
  <2> QED
    BY <1>b, <2>2, <2>3, BuildCaches DEF TextInv
<1>6. CASE Text!DropText
  BY <1>6 DEF Text!DropText, TextInv
<1>7. CASE Text!DropBuilder
  BY <1>b, <1>7 DEF Text!DropBuilder, TextInv
<1>8. CASE Text!WarmResume
  <2>1. fonts' = Text!Inherited(fonts) /\ UNCHANGED <<assets, builder>>
    BY <1>8 DEF Text!WarmResume
  <2>2. fonts' \in Fonts /\ fonts'.cache = fonts.cache /\ fonts'.app = fonts.app
    BY <1>0, <2>1 DEF Text!Inherited, Text!NewFonts, Fonts
  <2> QED
    BY <2>1, <2>2 DEF TextInv
<1>9. CASE UNCHANGED Text!vars
  BY <1>9 DEF Text!vars, TextInv
<1> QED
  BY <1>1, <1>2, <1>3, <1>4, <1>5, <1>6, <1>7, <1>8, <1>9 DEF Text!Next

\* The whole of it replayed.
LEMMA ReplayedWhole ==
    ASSUME TextInv, NEW ops, ops = builder.ops
    PROVE  Sofar(ops, Len(ops), Text!FoldLeft(Text!Replayed, Start, ops))
<1> DEFINE n == Len(ops)
<1>1. /\ ops \in Seq(Operations) /\ builder.default \in Families
      /\ fonts.cache \in [Families -> RunFaces]
  BY DEF TextInv, Builders, Fonts
<1>2. n \in Nat /\ DOMAIN ops = 1..n
  BY <1>1
<1> HIDE DEF n
<1>3. PICK st : /\ st = [i \in 0..n |-> st[i]] /\ st[0] = Start
                /\ \A i \in 1..n : st[i] = Text!Replayed(st[i - 1], ops[i])
                /\ Text!FoldLeft(Text!Replayed, Start, ops) = st[n]
  BY <1>2, ReplaySteps
<1>4. Sofar(ops, 0, Start)
  <2>1. Start \in Replays /\ Len(Start.open) = 0 /\ Len(Start.runs) = 0
    BY DEF Start, Replays
  <2>2. Text!Depth(ops)[0] = 0 /\ Text!Texts(ops, 0) = 0
    BY <1>2, DepthSolved, TextsCount DEF n
  <2>3. Stacked(ops, 0, Start.open)
    BY <2>1 DEF Stacked
  <2> QED
    BY <2>1, <2>2, <2>3 DEF Sofar
<1> DEFINE T == {i \in Nat : i <= n => Sofar(ops, i, st[i])}
<1>5. 0 \in T
  BY <1>3, <1>4
<1>6. ASSUME NEW i \in T PROVE i + 1 \in T
  <2> SUFFICES ASSUME i + 1 <= n PROVE Sofar(ops, i + 1, st[i + 1])
    OBVIOUS
  <2>1. i \in Nat /\ i + 1 \in 1..n /\ (i + 1) - 1 = i /\ Sofar(ops, i, st[i])
    BY <1>2
  <2>2. st[i + 1] = Text!Replayed(st[i], ops[i + 1])
    BY <1>3, <2>1
  <2>3. Sofar(ops, i + 1, Text!Replayed(st[i], ops[i + 1]))
    BY <1>1, <2>1, ReplayGoesOn DEF n
  <2> QED
    BY <2>2, <2>3
<1>7. T = Nat
  <2>1. T \subseteq Nat
    OBVIOUS
  <2> HIDE DEF T
  <2> QED
    BY <1>5, <1>6, <2>1, SetInduction
<1>8. Sofar(ops, n, st[n])
  BY <1>2, <1>7
<1> QED
  BY <1>3, <1>8 DEF n

\* A paragraph becomes built when build is called, and is as it was written.
LEMMA BuildIsAsWritten ==
    ASSUME TextInv, [Text!Next]_(Text!vars), text'.built, ~text.built
    PROVE  /\ text'.limit = builder.limit
           /\ Len(text'.runs) = Text!Texts(builder.ops, Len(builder.ops))
           /\ \A i \in DOMAIN builder.ops : builder.ops[i].do = "text" =>
                /\ text'.runs[Text!Texts(builder.ops, i)].style = Text!InForce(builder, i)
                /\ assets /\ text'.runs[Text!Texts(builder.ops, i)].style \in Bundled
                     => text'.runs[Text!Texts(builder.ops, i)].face = "app"
<1>1. Text!Build
  <2>1. ~\E w \in 1..2 : Text!Layout(w)
    BY DEF Text!Layout
  <2>2. ~Text!DropText
    BY DEF Text!DropText
  <2>3. text' # text
    OBVIOUS
  <2> QED
    BY <2>1, <2>2, <2>3 DEF Text!Next, Text!vars, Text!NewBuilder, Text!Buffer, Text!Set,
       Text!DropBuilder, Text!WarmResume
<1> DEFINE ops == builder.ops
           st == Text!FoldLeft(Text!Replayed, Start, ops)
<1>2. text' = [built |-> TRUE, limit |-> builder.limit, width |-> 0, runs |-> st.runs]
  BY <1>1 DEF Text!Build, Start
<1>3. Sofar(ops, Len(ops), st)
  BY ReplayedWhole
<1>4. ops \in Seq(Operations) /\ builder.default \in Families
  BY DEF TextInv, Builders
<1> HIDE DEF ops, st
<1>5. ASSUME NEW i \in DOMAIN ops, ops[i].do = "text"
      PROVE  /\ st.runs[Text!Texts(ops, i)].style = Text!InForce(builder, i)
             /\ assets /\ st.runs[Text!Texts(ops, i)].style \in Bundled
                  => st.runs[Text!Texts(ops, i)].face = "app"
  <2> DEFINE f == Text!InForce(builder, i)
  <2>1. st.runs[Text!Texts(ops, i)] = Text!Styled(f)
    <3>1. i \in 1..Len(ops)
      BY <1>4
    <3> QED
      BY <1>3, <1>5, <3>1 DEF Sofar
  <2>2. Text!Styled(f).style = f
    BY DEF Text!Styled
  <2>3. assets /\ f \in Bundled => Text!Styled(f).face = "app"
    BY BundledFace
  <2> HIDE DEF f
  <2>4. /\ st.runs[Text!Texts(ops, i)].style = f
        /\ assets /\ f \in Bundled => st.runs[Text!Texts(ops, i)].face = "app"
    BY <2>1, <2>2, <2>3
  <2> QED
    BY <2>4 DEF f
<1>6. Len(st.runs) = Text!Texts(ops, Len(ops))
  BY <1>3 DEF Sofar
<1> QED
  BY <1>2, <1>5, <1>6 DEF ops

\* For any families, any paragraph of any length and any number of resumes, a
\* built paragraph has each text in the style that was in force where it was
\* added, and the families the app bundles in the app's own faces.
THEOREM TextAsWritten == HostSpec => BuiltAsWritten
<1> DEFINE Written == text'.built /\ ~text.built =>
             /\ text'.limit = builder.limit
             /\ Len(text'.runs) = Text!Texts(builder.ops, Len(builder.ops))
             /\ \A i \in DOMAIN builder.ops : builder.ops[i].do = "text" =>
                  LET run == text'.runs[Text!Texts(builder.ops, i)]
                  IN  /\ run.style = Text!InForce(builder, i)
                      /\ assets /\ run.style \in Bundled => run.face = "app"
<1>1. TextInv /\ [Text!Next]_(Text!vars) => TextInv'
  BY TextInductive
<1>2. TextInv /\ [Text!Next]_(Text!vars) => [Written]_<<builder, text>>
  BY BuildIsAsWritten
<1>3. [HostNext]_hostVars => [Text!Next]_(Text!vars)
  BY DEF HostNext, OfGeometry, OfRoles, OfFrames, OfScene, OfText, hostVars, roleVars, frameVars,
     sceneVars, textVars, vars, Text!vars
<1> QED
  BY <1>1, <1>2, <1>3, TextInvInit, PTL DEF HostSpec, BuiltAsWritten, Text!BuiltAsWritten

=============================================================================
