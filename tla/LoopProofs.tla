----------------------------- MODULE LoopProofs -----------------------------
(***************************************************************************)
(* A host's loop, for every setting of its intervals, every launch and any *)
(* number of lines, callbacks, touches and events of the window system.    *)
(***************************************************************************)
EXTENDS HostLoop, SequenceTheorems, FiniteSetTheorems, TLAPS

-----------------------------------------------------------------------------
(* A behaviour of the whole is one of each part.                           *)

LEMMA PartsImplemented ==
    HostSpec => Spec /\ Events!Spec /\ Shell!Spec /\ Start!Spec
<1>1. HostInit => Init /\ Events!Init /\ Shell!Init /\ Start!Init
  BY DEF HostInit
<1> USE DEF HostNext, OfPacing, OfEvents, OfShell, OfStart, hostVars, eventVars, shellVars, startVars
<1>2. [HostNext]_hostVars => [Next]_vars
  BY DEF vars
<1>3. [HostNext]_hostVars => [Events!Next]_(Events!vars)
  BY DEF Events!vars
<1>4. [HostNext]_hostVars => [Shell!Next]_(Shell!vars)
  BY DEF Shell!vars
<1>5. [HostNext]_hostVars => [Start!Next]_(Start!vars)
  BY DEF Start!vars, Start!hostStart
<1> QED
  BY <1>1, <1>2, <1>3, <1>4, <1>5, PTL DEF HostSpec, Spec, Events!Spec, Shell!Spec, Start!Spec

-----------------------------------------------------------------------------
(* Pacing: the render loop never spins, for every setting of its intervals. *)

\* The types the argument needs, without the bounds TypeOK puts on deadlines.
PacingTyped ==
    /\ bgService \in BOOLEAN
    /\ role \in Roles
    /\ loop \in [cur : Roles, last : Roles \union {"none"}, dirty : BOOLEAN, frame : Nat]
    /\ doze \in Nat
    /\ left \in [render : Nat, tick : Nat]
    /\ idle \in Nat
    /\ did \in [pump : BOOLEAN, render : BOOLEAN, time : BOOLEAN]

\* Past the pump, a service's next tick lies ahead unless time has passed.
TickAhead ==
    pc \in {"render", "stretch", "nap"} /\ bgService /\ ~did.time => left.tick > 0

\* Past the render gate, a visible guest's next frame lies ahead.
FrameAhead == pc \in {"stretch", "nap"} /\ loop.cur # "bg" => left.render > 0

PacingInv ==
    /\ PacingTyped
    /\ TickAhead
    /\ FrameAhead
    /\ EveryIterationTakesTime

-----------------------------------------------------------------------------
\* What is left of two deadlines after some time is still a pair of deadlines.
LEMMA AfterType ==
    ASSUME NEW d \in [render : Nat, tick : Nat], NEW t \in Nat
    PROVE  /\ After(d, t) \in [render : Nat, tick : Nat]
           /\ t = 0 => After(d, t) = d
BY DEF After, Monus

\* A deadline in the past never reaches the nap of a loop that will not serve
\* it: when no time has passed in this iteration the nap is not empty.
LEMMA NapIsPositive ==
    ASSUME PacingInv, pc = "nap", ~did.time, NEW quiet \in Nat
    PROVE  NapLength(quiet) \in Nat \ {0}
<1> DEFINE cap == IF loop.cur = "bg" THEN BgPoll
                  ELSE IF quiet >= IdleAfter THEN IdlePoll ELSE Poll
           render == IF loop.cur # "bg" THEN left.render ELSE cap
           pump == IF bgService THEN left.tick ELSE cap
<1>1. cap \in Nat \ {0}
  BY PollsAssumption
<1>2. render \in Nat \ {0} /\ pump \in Nat \ {0}
  BY <1>1 DEF PacingInv, PacingTyped, TickAhead, FrameAhead
<1>3. NapLength(quiet) = Least(cap, Least(render, pump))
  BY DEF NapLength
<1> QED
  BY <1>1, <1>2, <1>3 DEF Least

-----------------------------------------------------------------------------
\* The invariant holds initially and is kept by every step.
LEMMA PacingInductive == Spec => []PacingInv
<1> USE CadencesAssumption, PollsAssumption, CapsAssumption, ServicesAssumption
<1>1. Init => PacingInv
  BY DEF Init, PacingInv, PacingTyped, TickAhead, FrameAhead, EveryIterationTakesTime, Roles
<1>2. PacingInv /\ [Next]_vars => PacingInv'
  <2> SUFFICES ASSUME PacingInv, [Next]_vars PROVE PacingInv'
    OBVIOUS
  <2> USE DEF PacingInv, PacingTyped, TickAhead, FrameAhead, EveryIterationTakesTime, Roles
  <2>1. ASSUME NEW e \in BOOLEAN, NEW c \in Cadences, Wake(e, c) PROVE PacingInv'
    BY <2>1 DEF Wake
  <2>2. ASSUME NEW delay \in TickMin..IdleCap, NEW work \in 0..MaxWork,
               BgTick(delay, work)
        PROVE PacingInv'
    <3>1. work \in Nat /\ delay \in Nat \ {0}
      OBVIOUS
    <3>2. After(left, work) \in [render : Nat, tick : Nat]
      BY <3>1, AfterType
    <3>3. idle' \in Nat
      BY <2>2, <3>1 DEF BgTick, Least
    <3>4. left' \in [render : Nat, tick : Nat] /\ left'.tick > 0
      BY <2>2, <3>1, <3>2 DEF BgTick
    <3>5. did' \in [pump : BOOLEAN, render : BOOLEAN, time : BOOLEAN]
      <4>1. did' = [did EXCEPT !.pump = TRUE, !.time = work > 0]
        BY <2>2 DEF BgTick
      <4>2. (work > 0) \in BOOLEAN
        OBVIOUS
      <4> QED
        BY <4>1, <4>2, Zenon
    <3>6. pc' = "render" /\ UNCHANGED <<bgService, role, loop, doze>>
      BY <2>2 DEF BgTick
    <3> QED
      BY <3>3, <3>4, <3>5, <3>6
  <2>3. CASE NoBgTick
    BY <2>3 DEF NoBgTick, PumpDue
  <2>4. ASSUME NEW delay \in 0..IdleCap, NEW work \in 0..MaxWork, Render(delay, work)
        PROVE PacingInv'
    <3>1. work \in Nat /\ delay \in Nat
      OBVIOUS
    <3>2. /\ After(left, work) \in [render : Nat, tick : Nat]
          /\ work = 0 => After(left, work) = left
      BY <3>1, AfterType
    <3>3. idle' \in Nat /\ Most(delay, FrameInterval) \in Nat \ {0}
      BY <2>4, <3>1 DEF Render, Least, Most
    <3>4. /\ pc = "render" /\ pc' = "stretch" /\ UNCHANGED <<bgService, role, loop, doze>>
          /\ left' = [After(left, work) EXCEPT !.render = Most(delay, FrameInterval)]
          /\ did' = [did EXCEPT !.render = TRUE, !.time = @ \/ work > 0]
      BY <2>4 DEF Render
    <3>5. /\ left' \in [render : Nat, tick : Nat] /\ left'.render > 0
          /\ work = 0 => left'.tick = left.tick
      BY <3>2, <3>3, <3>4
    <3>6. did' \in [pump : BOOLEAN, render : BOOLEAN, time : BOOLEAN]
      BY <3>4
    <3>7. did'.time <=> (did.time \/ work > 0)
      BY <3>4, Zenon
    <3>8. PacingTyped' /\ FrameAhead' /\ EveryIterationTakesTime'
      BY <3>3, <3>4, <3>5, <3>6
    <3>9. TickAhead'
      BY <3>1, <3>4, <3>5, <3>7
    <3> QED
      BY <3>8, <3>9
  <2>5. CASE NoRender
    BY <2>5 DEF NoRender, RenderDue
  <2>6. CASE Stretch
    <3>1. left'.render \in Nat /\ left'.render >= left.render /\ left'.tick = left.tick
      BY <2>6 DEF Stretch, Most
    <3>2. Least(loop.frame + 1, WarmUp) \in Nat
      BY DEF Least
    <3> QED
      BY <2>6, <3>1, <3>2 DEF Stretch, Most
  <2>7. CASE Nap
    <3> DEFINE quiet == IF loop.dirty THEN 0 ELSE idle
    <3>1. quiet \in Nat
      OBVIOUS
    <3>2. NapLength(quiet) \in Nat
      BY <3>1 DEF NapLength, Least
    <3>3. did.time \/ NapLength(quiet) > 0
      BY <2>7, <3>1, NapIsPositive DEF Nap
    <3>4. After(left, NapLength(quiet)) \in [render : Nat, tick : Nat]
      BY <3>2, AfterType
    <3>5. Least(quiet + NapLength(quiet), IdleAfter) \in Nat
      BY <3>1, <3>2 DEF Least
    <3> QED
      BY <2>7, <3>3, <3>4, <3>5 DEF Nap
  <2>8. CASE Exit
    BY <2>8 DEF Exit
  <2>9. ASSUME NEW q \in Roles, SetRole(q) PROVE PacingInv'
    BY <2>9 DEF SetRole
  <2>10. CASE UNCHANGED vars
    BY <2>10 DEF vars
  <2> QED
    BY <2>1, <2>2, <2>3, <2>4, <2>5, <2>6, <2>7, <2>8, <2>9, <2>10 DEF Next, Iterate
<1> QED
  BY <1>1, <1>2, PTL DEF Spec

\* Whatever the intervals, the cadences the arbiter pushes and the delays the
\* guest returns, every iteration of the loop takes time.
THEOREM NeverSpins == HostSpec => []EveryIterationTakesTime
BY PacingInductive, PartsImplemented, PTL DEF PacingInv

-----------------------------------------------------------------------------
(* Start: a host enters its loop in step with an arbiter that was there all  *)
(* along, and what the arbiter retains for it is never lost, for every launch *)
(* and however often the arbiter restarts.                                   *)

AfterPanel == {"load", "instantiate", "bind", "subscribe", "loop"}
AfterLock == AfterPanel \union {"renderer", "panel"}
AfterRegister == AfterLock \union {"surface"}

StagesOf == AfterRegister \union Start!Ended \union {"start", "register", "lock", "test", "run"}

StartTyped ==
    /\ launch \in Launches
    /\ stage \in StagesOf
    /\ insets \in BOOLEAN /\ sock \in BOOLEAN
    /\ inbox \in Seq(Nat) /\ heard \in Nat
    /\ arbiter \in [up : BOOLEAN, boot : Nat, value : Nat, density : BOOLEAN,
                    chrome : BOOLEAN, subscribed : BOOLEAN]

\* The arbiter has been up since the process was launched.
Steady == launch.kind = "standalone" /\ arbiter.boot = 0 /\ arbiter.up

InsetsKept == Steady /\ launch.mode = "none" /\ stage \in AfterPanel => insets

ChromeKnown ==
    Steady /\ launch.app =>
        /\ launch.mode \in {"top", "bottom-bar"} /\ stage \in AfterRegister => arbiter.chrome
        /\ launch.mode = "lock" /\ stage \in AfterLock => arbiter.chrome

Subscribed == Steady /\ launch.listens /\ stage = "loop" => arbiter.subscribed

\* Subscribing is the last thing before the loop.
SubscribedLast == arbiter.subscribed => stage \in Start!Ended \union {"loop"}

StartInv ==
    /\ StartTyped
    /\ InsetsKept /\ ChromeKnown
    /\ Subscribed /\ SubscribedLast
    /\ Start!RetainedIsHeard

-----------------------------------------------------------------------------
\* The stages follow each other as Stages lists them.
LEMMA ProceedGoesOn ==
    ASSUME Start!Proceed
    PROVE  /\ launch' = launch
           /\ stage = "renderer" => stage' = "panel"
           /\ stage = "panel" => stage' = "load"
           /\ stage = "load" => stage' = "instantiate"
           /\ stage = "instantiate" => stage' = "bind"
           /\ stage = "bind" => stage' = "subscribe"
           /\ stage = "subscribe" => stage' = "loop"
<1>1. ASSUME NEW k \in 1..6, stage = Start!Stages[k]
      PROVE  stage' = Start!Stages[k + 1]
  <2>1. DOMAIN Start!Stages = 1..7 /\ \A i, j \in 1..7 : Start!Stages[i] = Start!Stages[j] => i = j
    BY DEF Start!Stages
  <2>2. \A i \in DOMAIN Start!Stages : Start!Stages[i] = stage <=> i = k
    BY <1>1, <2>1
  <2>3. (CHOOSE i \in DOMAIN Start!Stages : Start!Stages[i] = stage) = k
    BY <1>1, <2>1, <2>2
  <2>4. stage' = Start!Stages[1 + CHOOSE i \in DOMAIN Start!Stages : Start!Stages[i] = stage]
    BY DEF Start!Proceed, Start!Goto
  <2>5. 1 + k = k + 1
    OBVIOUS
  <2> QED
    BY <2>3, <2>4, <2>5, Zenon
<1>2. /\ Start!Stages[1] = "renderer" /\ Start!Stages[2] = "panel" /\ Start!Stages[3] = "load"
      /\ Start!Stages[4] = "instantiate" /\ Start!Stages[5] = "bind" /\ Start!Stages[6] = "subscribe"
      /\ Start!Stages[7] = "loop"
  BY DEF Start!Stages
<1> QED
  BY <1>1, <1>2 DEF Start!Proceed, Start!Goto

\* The last of what came in, read from the other end.
LEMMA LastOfQueue ==
    ASSUME NEW s \in Seq(Nat), NEW v \in Nat
    PROVE  /\ Append(s, v) \in Seq(Nat) /\ Append(s, v) # <<>>
           /\ Append(s, v)[Len(Append(s, v))] = v
           /\ s # <<>> => /\ Tail(s) \in Seq(Nat) /\ Head(s) \in Nat
                          /\ Tail(s) = <<>> => Head(s) = s[Len(s)]
                          /\ Tail(s) # <<>> => Tail(s)[Len(Tail(s))] = s[Len(s)]
OBVIOUS

-----------------------------------------------------------------------------
\* The invariant holds when a process is launched.
LEMMA StartInitially == Start!Init => StartInv
<1> SUFFICES ASSUME Start!Init PROVE StartInv
  OBVIOUS
<1>1. StartTyped
  <2>1. arbiter \in [up : BOOLEAN, boot : Nat, value : Nat, density : BOOLEAN,
                     chrome : BOOLEAN, subscribed : BOOLEAN]
    <3>1. {0} \subseteq Nat /\ {1} \subseteq Nat /\ {FALSE} \subseteq BOOLEAN
      OBVIOUS
    <3>2. \A Z, O, F : Z \subseteq Nat /\ O \subseteq Nat /\ F \subseteq BOOLEAN =>
            [up : BOOLEAN, boot : Z, value : O, density : BOOLEAN, chrome : F, subscribed : F]
              \subseteq [up : BOOLEAN, boot : Nat, value : Nat, density : BOOLEAN,
                         chrome : BOOLEAN, subscribed : BOOLEAN]
      OBVIOUS
    <3> QED
      BY <3>1, <3>2 DEF Start!Init
  <2>2. inbox \in Seq(Nat) /\ heard \in Nat /\ stage \in StagesOf
    BY DEF Start!Init, StagesOf
  <2> QED
    BY <2>1, <2>2 DEF Start!Init, StartTyped
<1>2. ~arbiter.subscribed /\ stage = "start"
  BY DEF Start!Init
<1> QED
  BY <1>1, <1>2 DEF StartInv, AfterRegister, AfterLock, AfterPanel, InsetsKept, ChromeKnown,
       Subscribed, SubscribedLast, Start!RetainedIsHeard

\* A step of the host that reaches neither the arbiter nor the inbox keeps the
\* invariant when it stays out of the loop and does not skip a stage.
LEMMA HostStep ==
    ASSUME StartInv, UNCHANGED <<launch, inbox, heard, arbiter>>, insets' = insets, sock' \in BOOLEAN,
           stage' \in StagesOf,
           stage' = "loop" => launch.kind # "standalone" \/ (stage = "loop" /\ sock' = sock),
           arbiter.subscribed => stage' \in Start!Ended \union {"loop"} /\ (stage' = "loop" => stage = "loop" /\ sock' = sock),
           launch.kind = "standalone" /\ stage' \in AfterPanel => stage \in AfterPanel,
           launch.kind = "standalone" /\ stage' \in AfterLock
             => stage \in AfterLock \/ (launch.app => launch.mode # "lock"),
           launch.kind = "standalone" /\ stage' \in AfterRegister
             => stage \in AfterRegister \/ (launch.app => launch.mode \notin {"top", "bottom-bar"})
    PROVE  StartInv'
<1> USE DEF StartInv
<1>1. StartTyped'
  BY DEF StartTyped
<1>2. InsetsKept' /\ ChromeKnown'
  BY DEF InsetsKept, ChromeKnown, Steady, AfterRegister
<1>3. Subscribed' /\ SubscribedLast'
  BY DEF Subscribed, SubscribedLast, Steady
<1>4. Start!RetainedIsHeard'
  BY DEF Start!RetainedIsHeard
<1> QED
  BY <1>1, <1>2, <1>3, <1>4

\* Every other step of the host keeps it: the chrome registers and the panel is
\* reported before the stages that rely on it, and the subscription comes last.
LEMMA StartingStep == ASSUME Start!ConstantsOK, StartInv, Start!Starting PROVE StartInv'
<1> USE DEF StagesOf, AfterRegister, AfterLock, AfterPanel, Start!Ended
<1>t. StartTyped /\ SubscribedLast
  BY DEF StartInv
<1>k. launch.kind \in {"standalone", "once", "desktop", "install"}
  BY <1>t DEF Start!ConstantsOK, StartTyped
<1>1. CASE Start!Start
  BY <1>t, <1>1, HostStep DEF Start!Start, Start!Goto, StartTyped, SubscribedLast
<1>2. CASE Start!StartDesktop
  BY <1>t, <1>2, HostStep DEF Start!StartDesktop, Start!Goto, StartTyped, SubscribedLast
<1>3. CASE Start!RegisterChrome
  <2>1. CASE arbiter.up
    <3>1. stage' = (IF stage = "lock" THEN "renderer" ELSE "surface") /\ arbiter'.chrome
          /\ UNCHANGED <<launch, insets, sock, inbox, heard>> /\ ~arbiter.subscribed
      BY <1>t, <1>3, <2>1 DEF Start!RegisterChrome, Start!Goto, StartTyped, SubscribedLast
    <3>2. arbiter' = [arbiter EXCEPT !.chrome = TRUE]
      BY <1>3, <2>1 DEF Start!RegisterChrome
    <3>3. StartTyped' /\ ~arbiter'.subscribed
      BY <1>t, <3>1, <3>2 DEF StartTyped
    <3> QED
      BY <3>1, <3>3 DEF StartInv, InsetsKept, ChromeKnown, Subscribed, SubscribedLast, Start!RetainedIsHeard
  <2>2. CASE ~arbiter.up
    <3>1. stage' \in {stage, "renderer", "surface"} /\ stage \in {"register", "lock"}
          /\ UNCHANGED <<launch, insets, sock, inbox, heard, arbiter>> /\ ~arbiter.subscribed
      BY <1>t, <1>3, <2>2 DEF Start!RegisterChrome, Start!Goto, StartTyped, SubscribedLast
    <3>2. StartTyped' /\ ~arbiter'.subscribed /\ ~arbiter'.up
      BY <1>t, <2>2, <3>1 DEF StartTyped
    <3> QED
      BY <3>1, <3>2
         DEF StartInv, Steady, InsetsKept, ChromeKnown, Subscribed, SubscribedLast, Start!RetainedIsHeard
  <2> QED
    BY <2>1, <2>2
<1>4. CASE Start!ReportPanel
  <2>1. stage = "panel" /\ stage' = "load" /\ UNCHANGED <<launch, sock, inbox, heard>>
        /\ ~arbiter.subscribed
    BY <1>t, <1>4, ProceedGoesOn DEF Start!ReportPanel, SubscribedLast
  <2>2. CASE launch.mode = "none"
    <3>1. insets' = arbiter.up /\ arbiter' = [arbiter EXCEPT !.density = @ \/ arbiter.up]
      BY <1>4, <2>2 DEF Start!ReportPanel, Start!Reserved
    <3>2. /\ StartTyped' /\ ~arbiter'.subscribed /\ arbiter'.chrome = arbiter.chrome
          /\ arbiter'.boot = arbiter.boot /\ arbiter'.up = arbiter.up
      BY <1>t, <2>1, <3>1 DEF StartTyped
    <3> QED
      BY <2>1, <2>2, <3>1, <3>2
         DEF StartInv, Steady, InsetsKept, ChromeKnown, Subscribed, SubscribedLast, Start!RetainedIsHeard
  <2>3. CASE launch.mode # "none"
    <3>1. UNCHANGED <<insets, arbiter>>
      BY <1>4, <2>3 DEF Start!ReportPanel
    <3>2. StartTyped'
      BY <1>t, <2>1, <3>1 DEF StartTyped
    <3> QED
      BY <2>1, <2>3, <3>1, <3>2
         DEF StartInv, Steady, InsetsKept, ChromeKnown, Subscribed, SubscribedLast, Start!RetainedIsHeard
  <2> QED
    BY <2>2, <2>3
<1>5. CASE Start!Subscribe
  <2>1. stage = "subscribe" /\ stage' = "loop" /\ UNCHANGED <<launch, insets, sock, heard>>
        /\ ~arbiter.subscribed
    BY <1>t, <1>5, ProceedGoesOn DEF Start!Subscribe, SubscribedLast
  <2>2. CASE launch.listens /\ arbiter.up
    <3>1. /\ arbiter' = [arbiter EXCEPT !.subscribed = TRUE]
          /\ inbox' = IF sock THEN Append(inbox, arbiter.value) ELSE inbox
      BY <1>5, <2>2 DEF Start!Subscribe, Start!Deliver
    <3>2. /\ StartTyped' /\ arbiter'.subscribed /\ arbiter'.chrome = arbiter.chrome
          /\ arbiter'.value = arbiter.value /\ arbiter'.boot = arbiter.boot
          /\ arbiter'.up = arbiter.up
      BY <1>t, <2>1, <3>1, LastOfQueue DEF StartTyped
    <3>3. Start!RetainedIsHeard'
      BY <1>t, <2>1, <3>1, <3>2, LastOfQueue DEF StartTyped, Start!RetainedIsHeard
    <3> QED
      BY <2>1, <3>2, <3>3
         DEF StartInv, Steady, InsetsKept, ChromeKnown, Subscribed, SubscribedLast
  <2>3. CASE ~(launch.listens /\ arbiter.up)
    <3>1. UNCHANGED <<arbiter, inbox>>
      BY <1>5, <2>3 DEF Start!Subscribe
    <3>2. StartTyped'
      BY <1>t, <2>1, <3>1 DEF StartTyped
    <3> QED
      BY <2>1, <2>3, <3>1, <3>2
         DEF StartInv, Steady, InsetsKept, ChromeKnown, Subscribed, SubscribedLast, Start!RetainedIsHeard
  <2> QED
    BY <2>2, <2>3
<1>6. ASSUME NEW overlay \in BOOLEAN, NEW full \in BOOLEAN, Start!CreateSurface(overlay, full) PROVE StartInv'
  BY <1>t, <1>6, HostStep DEF Start!CreateSurface, Start!AfterSurface, Start!Goto, StartTyped, SubscribedLast
<1>7. ASSUME NEW ok \in BOOLEAN, Start!Renderer(ok) PROVE StartInv'
  BY <1>t, <1>7, HostStep, ProceedGoesOn DEF Start!Renderer, Start!Goto, StartTyped, SubscribedLast
<1>8. ASSUME NEW ok \in BOOLEAN, Start!Load(ok) PROVE StartInv'
  BY <1>t, <1>8, HostStep, ProceedGoesOn DEF Start!Load, Start!Goto, StartTyped, SubscribedLast
<1>9. ASSUME NEW ok \in BOOLEAN, Start!Instantiate(ok) PROVE StartInv'
  BY <1>t, <1>9, HostStep, ProceedGoesOn DEF Start!Instantiate, Start!Goto, StartTyped, SubscribedLast
<1>10. ASSUME NEW ok \in BOOLEAN, Start!Bind(ok) PROVE StartInv'
  BY <1>t, <1>10, HostStep, ProceedGoesOn DEF Start!Bind, StartTyped, SubscribedLast
<1>11. ASSUME NEW ok \in BOOLEAN, Start!StartOnce(ok) PROVE StartInv'
  BY <1>t, <1>11, HostStep DEF Start!StartOnce, Start!Goto, StartTyped, SubscribedLast
<1>12. ASSUME NEW answer \in {"ok", "error", "trap"}, Start!RunOnce(answer) PROVE StartInv'
  BY <1>t, <1>12, HostStep DEF Start!RunOnce, Start!Goto, StartTyped, SubscribedLast
<1>13. ASSUME NEW source \in [unpacks : BOOLEAN, root : BOOLEAN, wrappers : 0..2, installs : BOOLEAN],
              Start!Install(source)
       PROVE StartInv'
  BY <1>t, <1>13, HostStep DEF Start!Install, Start!Goto, StartTyped, SubscribedLast
<1> QED
  BY <1>1, <1>2, <1>3, <1>4, <1>5, <1>6, <1>7, <1>8, <1>9, <1>10, <1>11, <1>12, <1>13 DEF Start!Starting

\* So do the loop and the arbiter: a change of the value is queued behind what
\* the loop has not heard yet, and a restart forgets host and subscription.
LEMMA StartInductive == ASSUME Start!ConstantsOK PROVE Start!Spec => []StartInv
<1>1. StartInv /\ [Start!Next]_Start!vars => StartInv'
  <2> SUFFICES ASSUME StartInv, [Start!Next]_Start!vars PROVE StartInv'
    OBVIOUS
  <2> USE DEF Start!Ended
  <2>t. StartTyped /\ InsetsKept /\ ChromeKnown /\ Subscribed /\ SubscribedLast /\ Start!RetainedIsHeard
    BY DEF StartInv
  <2>1. CASE Start!Starting
    BY <2>1, StartingStep
  <2>2. CASE Start!Hear
    <3>1. /\ heard' = Head(inbox) /\ inbox' = Tail(inbox) /\ inbox # <<>>
          /\ UNCHANGED <<launch, stage, insets, sock, arbiter>>
      BY <2>2 DEF Start!Hear
    <3>2. StartTyped'
      BY <2>t, <3>1, LastOfQueue DEF StartTyped
    <3>3. Start!RetainedIsHeard'
      BY <2>t, <3>1, LastOfQueue DEF StartTyped, Start!RetainedIsHeard
    <3> QED
      BY <2>t, <3>1, <3>2, <3>3
         DEF StartInv, Steady, InsetsKept, ChromeKnown, Subscribed, SubscribedLast
  <2>3. CASE Start!Shutdown
    BY <2>t, <2>3, HostStep
       DEF Start!Shutdown, Start!Goto, StartTyped, StagesOf, AfterRegister, AfterLock, AfterPanel, SubscribedLast
  <2>4. CASE Start!Killed
    BY <2>t, <2>4, HostStep
       DEF Start!Killed, Start!Goto, StartTyped, StagesOf, AfterRegister, AfterLock, AfterPanel, SubscribedLast
  <2>5. CASE Start!Change
    <3>1. /\ arbiter' = [arbiter EXCEPT !.value = @ + 1]
          /\ inbox' = IF arbiter.subscribed /\ sock THEN Append(inbox, arbiter.value + 1) ELSE inbox
          /\ UNCHANGED <<launch, stage, insets, sock, heard>>
      BY <2>5 DEF Start!Change, Start!Deliver
    <3>2. arbiter.value + 1 \in Nat
      BY <2>t DEF StartTyped
    <3>3. /\ StartTyped' /\ arbiter'.subscribed = arbiter.subscribed /\ arbiter'.chrome = arbiter.chrome
          /\ arbiter'.value = arbiter.value + 1 /\ arbiter'.boot = arbiter.boot
          /\ arbiter'.up = arbiter.up
      BY <2>t, <3>1, <3>2, LastOfQueue DEF StartTyped
    <3>4. Start!RetainedIsHeard'
      BY <2>t, <3>1, <3>2, <3>3, LastOfQueue DEF StartTyped, Start!RetainedIsHeard
    <3> QED
      BY <2>t, <3>1, <3>3, <3>4
         DEF StartInv, Steady, InsetsKept, ChromeKnown, Subscribed, SubscribedLast
  <2>6. CASE Start!ArbiterDies
    <3>1. /\ arbiter' = [arbiter EXCEPT !.up = FALSE, !.chrome = FALSE, !.subscribed = FALSE,
                                        !.density = FALSE]
          /\ UNCHANGED <<launch, stage, insets, sock, inbox, heard>>
      BY <2>6 DEF Start!ArbiterDies, Start!hostStart
    <3>2. StartTyped' /\ ~arbiter'.up /\ ~arbiter'.subscribed
      BY <2>t, <3>1 DEF StartTyped
    <3> QED
      BY <3>1, <3>2
         DEF StartInv, Steady, InsetsKept, ChromeKnown, Subscribed, SubscribedLast, Start!RetainedIsHeard
  <2>7. CASE Start!ArbiterComes
    <3>1. /\ arbiter' = [arbiter EXCEPT !.up = TRUE, !.boot = @ + 1]
          /\ UNCHANGED <<launch, stage, insets, sock, inbox, heard>>
      BY <2>7 DEF Start!ArbiterComes, Start!hostStart
    <3>n. arbiter.boot + 1 \in Nat \ {0}
      BY <2>t DEF StartTyped
    <3>2. /\ StartTyped' /\ arbiter'.boot # 0 /\ arbiter'.value = arbiter.value
          /\ arbiter'.subscribed = arbiter.subscribed
      BY <2>t, <3>1, <3>n DEF StartTyped
    <3> QED
      BY <2>t, <3>1, <3>2
         DEF StartInv, Steady, InsetsKept, ChromeKnown, Subscribed, SubscribedLast, Start!RetainedIsHeard
  <2>8. CASE UNCHANGED Start!vars
    BY <2>t, <2>8 DEF Start!vars, Start!hostStart, StartInv, StartTyped, Steady, InsetsKept, ChromeKnown, Subscribed,
       SubscribedLast, Start!RetainedIsHeard
  <2> QED
    BY <2>1, <2>2, <2>3, <2>4, <2>5, <2>6, <2>7, <2>8 DEF Start!Next
<1> QED
  BY <1>1, StartInitially, PTL DEF Start!Spec

-----------------------------------------------------------------------------
\* Whatever is launched and however often the arbiter restarts, a listener with
\* its socket bound has heard the topic's value or reads it last, and under an
\* arbiter that was there all along a host is in its loop only with its insets,
\* its chrome and its subscription settled.
THEOREM LoopStartsInStep == HostSpec => []StartsInStep
<1>1. Start!ConstantsOK
  BY Constants
<1>2. StartInv => StartsInStep
  BY DEF StartInv, Steady, InsetsKept, ChromeKnown, Subscribed, StartsInStep, Start!StartsInStep,
         Start!InStep, AfterPanel, AfterLock, AfterRegister
<1>3. Start!Spec => []StartInv
  BY <1>1, StartInductive
<1> QED
  BY <1>2, <1>3, PartsImplemented, PTL

-----------------------------------------------------------------------------
(* Events: lines are handled once and in order, callbacks are accounted for, *)
(* and a blanked panel is inert, whatever the guest does in its calls.       *)

Touches == [kind : {"touch", "key"}, blank : BOOLEAN]

EventsTyped ==
    /\ gate \in BOOLEAN /\ queue \in Seq(Nat) /\ channel \in Seq(Touches)
    /\ lines \in [sent : Nat, queued : Nat, handled : Nat]
    /\ turn \in [at : {"input", "inbound", "timers", "frame", "nap"}, inputs : Seq(Touches),
                 batch : Seq(Nat), due : Seq(Nat), past : BOOLEAN, idle : Nat]

\* A batch of lines is worked off in the stage that took it.
Batched == turn.at # "inbound" => turn.batch = <<>>

\* What is left of the lines up to queued once those up to handled are done, in
\* a batch and in the queue behind it.
Gapless(batch, rest, handled, queued) ==
    /\ Len(batch) + Len(rest) = queued - handled
    /\ \A i \in 1..Len(batch) : batch[i] = handled + i
    /\ \A i \in 1..Len(rest) : rest[i] = handled + Len(batch) + i

InOrder == Gapless(turn.batch, queue, lines.handled, lines.queued)

LinesInv == EventsTyped /\ Batched /\ InOrder

\* Callbacks the guest was called for, or that are next in this stage.
Out == fired \union {turn.due[i] : i \in 1..Len(turn.due)}

TimersTyped ==
    /\ timers \in [heap : SUBSET [handle : Nat, left : Int], handles : SUBSET Nat,
                   cancelled : SUBSET Nat, next : Nat]
    /\ IsFiniteSet(timers.heap)
    /\ revoked \subseteq Nat /\ Out \subseteq Nat

\* Handles are given in order, and each has one entry.
Numbered ==
    /\ \A h \in timers.handles \union timers.cancelled \union revoked \union Out : h < timers.next
    /\ \A e, f \in timers.heap : e.handle = f.handle => e = f

\* What is pending has neither left the heap nor been cancelled.
Sorted ==
    /\ Events!HandlesOf(timers.heap) = timers.handles \union timers.cancelled
    /\ timers.handles \intersect timers.cancelled = {}
    /\ Out \intersect timers.handles = {} /\ Out \intersect revoked = {}
    /\ revoked \intersect timers.handles = {}

TimersInv == TimersTyped /\ Numbered /\ Sorted

-----------------------------------------------------------------------------
\* Steps that take nothing and deliver nothing.
LEMMA LinesUntouched ==
    ASSUME LinesInv, UNCHANGED <<queue, lines, turn>>, gate' \in BOOLEAN, channel' \in Seq(Touches)
    PROVE  LinesInv'
BY DEF LinesInv, EventsTyped, Batched, InOrder

\* Steps within a stage, or to a stage that is past the lines.
LEMMA LinesStay ==
    ASSUME LinesInv, UNCHANGED <<queue, lines, gate>>, channel' \in Seq(Touches),
           NEW at \in {"input", "timers", "frame", "nap", turn.at},
           at # turn.at => turn.batch = <<>>,
           NEW inputs \in Seq(Touches), NEW due \in Seq(Nat), NEW wait \in Nat,
           \/ turn' = [turn EXCEPT !.at = at, !.inputs = inputs, !.due = due, !.idle = wait]
           \/ \E past \in BOOLEAN : turn' = [turn EXCEPT !.at = at, !.inputs = inputs, !.due = due,
                                                         !.idle = wait, !.past = past]
    PROVE  LinesInv' /\ turn'.due = due
<1>1. turn' \in [at : {"input", "inbound", "timers", "frame", "nap"}, inputs : Seq(Touches),
                 batch : Seq(Nat), due : Seq(Nat), past : BOOLEAN, idle : Nat]
      /\ turn'.batch = turn.batch /\ turn'.due = due /\ turn'.at = at
  BY DEF LinesInv, EventsTyped
<1>2. Batched'
  BY <1>1 DEF LinesInv, EventsTyped, Batched
<1> QED
  BY <1>1, <1>2 DEF LinesInv, EventsTyped, InOrder

\* One more is queued, the queue becomes the batch, the first of a batch is handled.
LEMMA GaplessQueued ==
    ASSUME NEW b \in Seq(Nat), NEW q \in Seq(Nat), NEW h \in Nat, NEW n \in Nat, Gapless(b, q, h, n)
    PROVE  Append(q, n + 1) \in Seq(Nat) /\ Gapless(b, Append(q, n + 1), h, n + 1)
<1>1. Len(b) \in Nat /\ Len(q) \in Nat /\ n + 1 \in Nat
  OBVIOUS
<1>2. /\ Append(q, n + 1) \in Seq(Nat) /\ Len(Append(q, n + 1)) = Len(q) + 1
      /\ \A i \in 1..Len(q) : Append(q, n + 1)[i] = q[i]
      /\ Append(q, n + 1)[Len(q) + 1] = n + 1
  BY <1>1, AppendProperties
<1>3. /\ Len(b) + Len(q) = n - h /\ \A i \in 1..Len(b) : b[i] = h + i
      /\ \A i \in 1..Len(q) : q[i] = h + Len(b) + i
  BY DEF Gapless
<1>4. Len(b) + (Len(q) + 1) = (n + 1) - h /\ n + 1 = h + Len(b) + (Len(q) + 1)
  <2>1. \A x, y \in Nat : x + y = n - h
                           => x + (y + 1) = (n + 1) - h /\ n + 1 = h + x + (y + 1)
    OBVIOUS
  <2> QED
    BY <1>1, <1>3, <2>1
<1>5. ASSUME NEW i \in 1..Len(q) + 1 PROVE Append(q, n + 1)[i] = h + Len(b) + i
  <2>1. CASE i \in 1..Len(q)
    BY <1>2, <1>3, <2>1
  <2>2. CASE i = Len(q) + 1
    BY <1>2, <1>4, <2>2
  <2> QED
    BY <1>1, <2>1, <2>2
<1> QED
  BY <1>2, <1>3, <1>4, <1>5 DEF Gapless

LEMMA GaplessTaken ==
    ASSUME NEW q \in Seq(Nat), NEW h \in Nat, NEW n \in Nat, Gapless(<<>>, q, h, n)
    PROVE  Gapless(q, <<>>, h, n)
<1>1. Len(<<>>) = 0 /\ Len(q) \in Nat /\ \A i \in 1..0 : FALSE
  OBVIOUS
<1>2. ASSUME NEW i \in 1..Len(q) PROVE q[i] = h + i
  BY <1>1 DEF Gapless
<1> QED
  BY <1>1, <1>2 DEF Gapless

LEMMA GaplessHandled ==
    ASSUME NEW b \in Seq(Nat), NEW q \in Seq(Nat), NEW h \in Nat, NEW n \in Nat, Gapless(b, q, h, n),
           b # <<>>
    PROVE  Tail(b) \in Seq(Nat) /\ Head(b) = h + 1 /\ Gapless(Tail(b), q, h + 1, n)
<1>1. Len(b) \in Nat \ {0} /\ Len(q) \in Nat
  OBVIOUS
<1>2. /\ Tail(b) \in Seq(Nat) /\ Len(Tail(b)) = Len(b) - 1 /\ Head(b) = b[1]
      /\ \A i \in 1..Len(b) - 1 : Tail(b)[i] = b[i + 1]
  BY <1>1
<1>3. /\ Len(b) + Len(q) = n - h /\ \A i \in 1..Len(b) : b[i] = h + i
      /\ \A i \in 1..Len(q) : q[i] = h + Len(b) + i
  BY DEF Gapless
<1>4. Head(b) = h + 1 /\ (Len(b) - 1) + Len(q) = n - (h + 1)
  BY <1>1, <1>2, <1>3
<1>5. ASSUME NEW i \in 1..Len(b) - 1 PROVE Tail(b)[i] = h + 1 + i
  <2>1. i + 1 \in 1..Len(b) /\ h + (i + 1) = h + 1 + i
    BY <1>1
  <2> QED
    BY <1>2, <1>3, <2>1
<1>6. ASSUME NEW i \in 1..Len(q) PROVE q[i] = h + 1 + (Len(b) - 1) + i
  <2>1. h + 1 + (Len(b) - 1) + i = h + Len(b) + i
    BY <1>1
  <2> QED
    BY <1>3, <2>1
<1> QED
  BY <1>2, <1>4, <1>5, <1>6 DEF Gapless

LEMMA ReadLineKeepsOrder ==
    ASSUME LinesInv, NEW c, Events!ReadLine(c)
    PROVE  LinesInv'
<1>1. CASE UNCHANGED <<queue, lines>>
  BY <1>1, LinesUntouched DEF Events!ReadLine, LinesInv, EventsTyped
<1>2. CASE /\ lines' = [lines EXCEPT !.queued = @ + 1]
           /\ queue' = Append(queue, lines.queued + 1)
           /\ UNCHANGED gate
  <2>1. UNCHANGED <<turn, channel>>
    BY DEF Events!ReadLine
  <2>2. lines \in [sent : Nat, queued : Nat, handled : Nat] /\ queue \in Seq(Nat)
        /\ turn.batch \in Seq(Nat)
    BY DEF LinesInv, EventsTyped
  <2>3. /\ lines' \in [sent : Nat, queued : Nat, handled : Nat]
        /\ lines'.queued = lines.queued + 1 /\ lines'.handled = lines.handled
    BY <1>2, <2>2
  <2>4. queue' \in Seq(Nat) /\ Gapless(turn.batch, queue', lines.handled, lines.queued + 1)
    BY <1>2, <2>2, GaplessQueued DEF LinesInv, InOrder
  <2>5. InOrder'
    BY <2>1, <2>3, <2>4 DEF InOrder
  <2> QED
    BY <1>2, <2>1, <2>2, <2>3, <2>5 DEF LinesInv, EventsTyped, Batched
<1> QED
  BY <1>1, <1>2 DEF Events!ReadLine

LEMMA DrainKeepsOrder ==
    ASSUME LinesInv, Events!DrainQueue
    PROVE  LinesInv'
<1>1. IdleTurns \in Nat /\ turn.batch = <<>> /\ turn.at = "input"
  BY Constants DEF Events!ConstantsOK, Events!DrainQueue, Events!At, LinesInv, Batched
<1>2. turn' = [turn EXCEPT !.at = "inbound", !.batch = queue,
                           !.idle = IF queue = <<>> THEN @ ELSE IdleTurns]
      /\ queue' = <<>> /\ UNCHANGED <<lines, gate, channel>>
  BY DEF Events!DrainQueue
<1>3. /\ turn' \in [at : {"input", "inbound", "timers", "frame", "nap"}, inputs : Seq(Touches),
                    batch : Seq(Nat), due : Seq(Nat), past : BOOLEAN, idle : Nat]
      /\ turn'.batch = queue /\ turn'.at = "inbound"
  BY <1>1, <1>2 DEF LinesInv, EventsTyped
<1>4. <<>> \in Seq(Nat) /\ Gapless(queue, <<>>, lines.handled, lines.queued)
  BY <1>1, GaplessTaken DEF LinesInv, InOrder, EventsTyped
<1>5. InOrder'
  BY <1>2, <1>3, <1>4 DEF InOrder
<1> QED
  BY <1>2, <1>3, <1>4, <1>5 DEF LinesInv, EventsTyped, Batched

LEMMA HandlingKeepsOrder ==
    ASSUME LinesInv, Events!HandleLine
    PROVE  LinesInv' /\ turn'.due = turn.due /\ turn'.inputs = turn.inputs
<1>1. turn.batch # <<>> /\ turn.at = "inbound" /\ turn' = [turn EXCEPT !.batch = Tail(@)]
      /\ lines' = [lines EXCEPT !.handled = Head(turn.batch)]
      /\ UNCHANGED <<queue, gate, channel>>
  BY DEF Events!HandleLine, Events!At
<1>2. /\ turn.batch \in Seq(Nat) /\ queue \in Seq(Nat)
      /\ lines \in [sent : Nat, queued : Nat, handled : Nat]
  BY DEF LinesInv, EventsTyped
<1>3. /\ Tail(turn.batch) \in Seq(Nat) /\ Head(turn.batch) = lines.handled + 1
      /\ Gapless(Tail(turn.batch), queue, lines.handled + 1, lines.queued)
  BY <1>1, <1>2, GaplessHandled DEF LinesInv, InOrder
<1>5. /\ turn' \in [at : {"input", "inbound", "timers", "frame", "nap"}, inputs : Seq(Touches),
                    batch : Seq(Nat), due : Seq(Nat), past : BOOLEAN, idle : Nat]
      /\ turn'.batch = Tail(turn.batch) /\ turn'.at = "inbound" /\ turn'.due = turn.due
      /\ turn'.inputs = turn.inputs
  BY <1>1, <1>3 DEF LinesInv, EventsTyped
<1>6. /\ lines' \in [sent : Nat, queued : Nat, handled : Nat]
      /\ lines'.queued = lines.queued /\ lines'.handled = lines.handled + 1
  <2>1. lines' = [lines EXCEPT !.handled = lines.handled + 1]
    BY <1>1, <1>3
  <2>2. lines.handled + 1 \in Nat
    BY <1>2
  <2> QED
    BY <1>2, <2>1, <2>2
<1>7. InOrder'
  BY <1>1, <1>3, <1>5, <1>6 DEF InOrder
<1> QED
  BY <1>1, <1>5, <1>6, <1>7 DEF LinesInv, EventsTyped, Batched

-----------------------------------------------------------------------------
Entries == [handle : Nat, left : Int]

\* A call into the guest may schedule a callback, cancel one or do neither.
LEMMA ScheduleKeepsTimers ==
    ASSUME TimersInv, NEW d \in Int, Events!Schedule(d), Out' \subseteq Out
    PROVE  TimersInv'
<1> DEFINE e == [handle |-> timers.next, left |-> d]
<1>1. /\ timers' = [timers EXCEPT !.heap = @ \union {e}, !.handles = @ \union {timers.next}, !.next = @ + 1]
      /\ UNCHANGED revoked
  BY DEF Events!Schedule
<1>2. TimersTyped /\ timers.next \in Nat /\ e \in Entries /\ e.handle = timers.next
  BY DEF TimersInv, TimersTyped, Entries
<1> HIDE DEF e
<1>3. /\ timers \in [heap : SUBSET Entries, handles : SUBSET Nat, cancelled : SUBSET Nat, next : Nat]
      /\ timers.heap \union {e} \in SUBSET Entries /\ timers.handles \union {timers.next} \in SUBSET Nat
      /\ timers.next + 1 \in Nat
  BY <1>2 DEF TimersTyped, Entries
<1>4. /\ timers'.heap = timers.heap \union {e} /\ timers'.handles = timers.handles \union {timers.next}
      /\ timers'.cancelled = timers.cancelled /\ timers'.next = timers.next + 1
      /\ timers' \in [heap : SUBSET Entries, handles : SUBSET Nat, cancelled : SUBSET Nat, next : Nat]
  BY <1>1, <1>3
<1>5. IsFiniteSet(timers'.heap)
  BY <1>2, <1>4, FS_AddElement DEF TimersTyped
<1>6. TimersTyped'
  BY <1>1, <1>2, <1>4, <1>5 DEF TimersTyped, Entries
<1>7. \A h \in timers.handles \union timers.cancelled \union revoked \union Out :
        h < timers.next /\ h \in Nat /\ h # timers.next
  BY DEF TimersInv, TimersTyped, Numbered
<1>8. \A f \in timers.heap : f.handle # timers.next
  BY <1>7 DEF TimersInv, Sorted, Events!HandlesOf
<1>9. Numbered'
  <2>1. \A h \in timers'.handles \union timers'.cancelled \union revoked' \union Out' : h < timers'.next
    BY <1>1, <1>2, <1>4, <1>7
  <2>2. \A f, g \in timers'.heap : f.handle = g.handle => f = g
    BY <1>2, <1>4, <1>8 DEF TimersInv, Numbered
  <2> QED
    BY <2>1, <2>2 DEF Numbered
<1>10. Sorted'
  <2>1. Events!HandlesOf(timers'.heap) = timers'.handles \union timers'.cancelled
    BY <1>2, <1>4 DEF TimersInv, Sorted, Events!HandlesOf
  <2> QED
    BY <1>1, <1>4, <1>7, <2>1 DEF TimersInv, Sorted, Events!HandlesOf
<1> QED
  BY <1>6, <1>9, <1>10 DEF TimersInv

LEMMA CancelKeepsTimers ==
    ASSUME TimersInv, NEW h, Events!Cancel(h), Out' \subseteq Out
    PROVE  TimersInv'
<1>1. CASE h \notin timers.handles
  <2>1. timers' = timers /\ revoked' = revoked
    BY <1>1 DEF Events!Cancel
  <2> QED
    BY <2>1 DEF TimersInv, TimersTyped, Numbered, Sorted, Events!HandlesOf
<1>2. CASE h \in timers.handles
  <2>1. /\ timers' = [timers EXCEPT !.handles = @ \ {h}, !.cancelled = @ \union {h}]
        /\ revoked' = revoked \union {h}
    BY <1>2 DEF Events!Cancel
  <2>2. /\ timers \in [heap : SUBSET Entries, handles : SUBSET Nat, cancelled : SUBSET Nat, next : Nat]
        /\ h \in Nat
    BY <1>2 DEF TimersInv, TimersTyped, Entries
  <2>3. /\ timers'.heap = timers.heap /\ timers'.handles = timers.handles \ {h}
        /\ timers'.cancelled = timers.cancelled \union {h} /\ timers'.next = timers.next
        /\ timers' \in [heap : SUBSET Entries, handles : SUBSET Nat, cancelled : SUBSET Nat, next : Nat]
    BY <2>1, <2>2
  <2>4. TimersTyped'
    BY <2>1, <2>2, <2>3 DEF TimersInv, TimersTyped, Entries
  <2>5. Numbered'
    BY <1>2, <2>1, <2>3 DEF TimersInv, Numbered
  <2>6. Sorted'
    BY <1>2, <2>1, <2>3 DEF TimersInv, Sorted, Events!HandlesOf
  <2> QED
    BY <2>4, <2>5, <2>6 DEF TimersInv
<1> QED
  BY <1>1, <1>2

\* Whatever a call into the guest does, as long as no other callback gets out.
LEMMA CallKeepsTimers ==
    ASSUME TimersInv, Events!GuestCall, Out' \subseteq Out
    PROVE  TimersInv'
<1>1. CASE UNCHANGED <<timers, revoked>>
  BY <1>1 DEF TimersInv, TimersTyped, Numbered, Sorted, Events!HandlesOf
<1>2. CASE \E d \in 0..MaxDelay : Events!Schedule(d)
  BY <1>2, ScheduleKeepsTimers
<1>3. CASE \E h \in 1..(timers.next - 1) : Events!Cancel(h)
  BY <1>3, CancelKeepsTimers
<1> QED
  BY <1>1, <1>2, <1>3 DEF Events!GuestCall

\* The entries that leave the heap, and the order their callbacks are called in.
LEMMA DrainKeepsTimers ==
    ASSUME LinesInv, TimersInv, Events!DrainTimers
    PROVE  LinesInv' /\ turn'.inputs = turn.inputs /\ TimersInv'
<1> DEFINE live == Events!Live(Events!Popped)
<1>1. PICK s \in Events!Orders(live) :
        turn' = [turn EXCEPT !.at = "timers", !.due = [i \in DOMAIN s |-> s[i].handle],
                             !.idle = IF s = <<>> THEN @ ELSE IdleTurns]
  BY DEF Events!DrainTimers
<1> DEFINE due == [i \in DOMAIN s |-> s[i].handle]
           wait == IF s = <<>> THEN turn.idle ELSE IdleTurns
<1>2. /\ timers' = [timers EXCEPT !.heap = @ \ Events!Popped,
                                  !.cancelled = @ \ Events!HandlesOf(Events!Popped),
                                  !.handles = @ \ Events!HandlesOf(live)]
      /\ UNCHANGED <<queue, gate, channel, lines, revoked, fired>>
      /\ turn.at = "inbound" /\ turn.batch = <<>>
  BY DEF Events!DrainTimers, Events!At
<1>3. /\ Events!Popped \subseteq timers.heap /\ live \subseteq timers.heap /\ timers.heap \subseteq Entries
      /\ IsFiniteSet(timers.heap) /\ IsFiniteSet(live)
  <2>1. Events!Popped \subseteq timers.heap /\ live \subseteq timers.heap
    BY DEF Events!Popped, Events!Live
  <2>2. IsFiniteSet(timers.heap) /\ timers.heap \subseteq Entries
    BY DEF TimersInv, TimersTyped, Entries
  <2> QED
    BY <2>1, <2>2, FS_Subset
<1> DEFINE n == Cardinality(live)
<1>4. n \in Nat /\ s \in [1..n -> live]
  <2>1. Events!Cardinality(live) = n
    BY DEF Cardinality, Events!Cardinality
  <2> QED
    BY <1>3, <2>1, FS_CardinalityType DEF Events!Orders
<1>5. due \in [1..n -> Nat] /\ DOMAIN s = 1..n
  BY <1>3, <1>4 DEF Entries
<1>6. due \in Seq(Nat) /\ Len(due) = n /\ \A i \in 1..n : due[i] \in Events!HandlesOf(live)
  <2>1. due \in Seq(Nat)
    BY <1>4, <1>5, SeqDef
  <2>2. Len(due) = n
    BY <1>4, <1>5, <2>1, LenProperties
  <2>3. \A i \in 1..n : due[i] \in Events!HandlesOf(live)
    BY <1>4, <1>5 DEF Events!HandlesOf
  <2> QED
    BY <2>1, <2>2, <2>3
<1>7. wait \in Nat
  BY Constants DEF LinesInv, EventsTyped, Events!ConstantsOK
<1>8. LinesInv' /\ turn'.due = due /\ turn'.inputs = turn.inputs
  <2>1. turn \in [at : {"input", "inbound", "timers", "frame", "nap"}, inputs : Seq(Touches),
                  batch : Seq(Nat), due : Seq(Nat), past : BOOLEAN, idle : Nat]
    BY DEF LinesInv, EventsTyped
  <2>2. turn' = [turn EXCEPT !.at = "timers", !.inputs = turn.inputs, !.due = due, !.idle = wait]
    <3> HIDE DEF due
    <3> QED
      BY <1>1, <2>1 DEF due
  <2> HIDE DEF due, wait
  <2> QED
    BY <1>2, <1>6, <1>7, <2>1, <2>2, LinesStay DEF LinesInv, EventsTyped
<1> HIDE DEF due, wait, n, live
<1>9. Out' \subseteq Out \union Events!HandlesOf(live)
  BY <1>2, <1>6, <1>8 DEF Out
<1>10. /\ timers'.heap = timers.heap \ Events!Popped
       /\ timers'.cancelled = timers.cancelled \ Events!HandlesOf(Events!Popped)
       /\ timers'.handles = timers.handles \ Events!HandlesOf(live)
       /\ timers'.next = timers.next
       /\ timers' \in [heap : SUBSET Entries, handles : SUBSET Nat, cancelled : SUBSET Nat, next : Nat]
  <2>1. timers \in [heap : SUBSET Entries, handles : SUBSET Nat, cancelled : SUBSET Nat, next : Nat]
    BY DEF TimersInv, TimersTyped, Entries
  <2> QED
    BY <1>2, <2>1
<1>11. Events!HandlesOf(live) = Events!HandlesOf(Events!Popped) \intersect timers.handles
  BY DEF live, Events!Live, Events!HandlesOf, TimersInv, Sorted
<1>12. IsFiniteSet(timers'.heap)
  BY <1>3, <1>10, FS_Subset
<1>13. TimersTyped'
  BY <1>2, <1>9, <1>10, <1>11, <1>12 DEF TimersInv, TimersTyped, Entries
<1>14. Numbered'
  BY <1>2, <1>9, <1>10, <1>11 DEF TimersInv, Numbered
<1>15. Sorted'
  <2>1. Events!HandlesOf(timers'.heap)
          = Events!HandlesOf(timers.heap) \ Events!HandlesOf(Events!Popped)
    BY <1>3, <1>10 DEF TimersInv, Numbered, Events!HandlesOf
  <2>2. Events!HandlesOf(timers'.heap) = timers'.handles \union timers'.cancelled
    BY <1>10, <1>11, <2>1 DEF TimersInv, Sorted
  <2> QED
    BY <1>2, <1>9, <1>10, <1>11, <2>2 DEF TimersInv, Sorted
<1> QED
  BY <1>8, <1>13, <1>14, <1>15 DEF TimersInv

LEMMA NapKeepsTimers ==
    ASSUME TimersInv, Events!Nap, Out' = Out
    PROVE  TimersInv'
<1> DEFINE older(e) == [e EXCEPT !.left = @ - 1]
<1>1. timers' = [timers EXCEPT !.heap = {older(e) : e \in timers.heap}] /\ UNCHANGED revoked
  BY DEF Events!Nap
<1>2. timers \in [heap : SUBSET Entries, handles : SUBSET Nat, cancelled : SUBSET Nat, next : Nat]
  BY DEF TimersInv, TimersTyped, Entries
<1>3. \A e \in timers.heap : older(e) \in Entries /\ older(e).handle = e.handle
  BY <1>2 DEF Entries
<1> HIDE DEF older
<1>4. {older(e) : e \in timers.heap} \in SUBSET Entries
  BY <1>3
<1>5. /\ timers'.heap = {older(e) : e \in timers.heap} /\ timers'.handles = timers.handles
      /\ timers'.cancelled = timers.cancelled /\ timers'.next = timers.next
      /\ timers' \in [heap : SUBSET Entries, handles : SUBSET Nat, cancelled : SUBSET Nat, next : Nat]
  BY <1>1, <1>2, <1>4
<1>6. IsFiniteSet(timers'.heap)
  <2> DEFINE f == [e \in timers.heap |-> older(e)]
  <2>1. f \in Surjection(timers.heap, timers'.heap)
    BY <1>5 DEF Surjection
  <2> HIDE DEF f
  <2> QED
    BY <2>1, FS_Surjection DEF TimersInv, TimersTyped
<1>7. TimersTyped'
  BY <1>1, <1>5, <1>6 DEF TimersInv, TimersTyped, Entries
<1>8. Numbered'
  BY <1>1, <1>3, <1>5 DEF TimersInv, Numbered
<1>9. Sorted'
  <2>1. Events!HandlesOf(timers'.heap) = Events!HandlesOf(timers.heap)
    BY <1>3, <1>5 DEF Events!HandlesOf
  <2> QED
    BY <1>1, <1>5, <2>1 DEF TimersInv, Sorted
<1> QED
  BY <1>7, <1>8, <1>9 DEF TimersInv

-----------------------------------------------------------------------------
\* Steps that neither deliver nor schedule.
LEMMA ElsewhereKept ==
    ASSUME LinesInv, TimersInv, UNCHANGED <<queue, turn, timers, revoked, fired>>,
           gate' \in BOOLEAN, channel' \in Seq(Touches),
           lines' = lines \/ \E c : Events!Send(c)
    PROVE  LinesInv' /\ TimersInv'
<1>1. TimersInv'
  BY DEF TimersInv, TimersTyped, Numbered, Sorted, Out, Events!HandlesOf
<1>2. CASE lines' = lines
  BY <1>1, <1>2, LinesUntouched
<1>3. ASSUME NEW c, Events!Send(c) PROVE LinesInv'
  <2>1. lines' = [lines EXCEPT !.sent = @ + 1]
    BY <1>3 DEF Events!Send
  <2>2. lines \in [sent : Nat, queued : Nat, handled : Nat]
    BY DEF LinesInv, EventsTyped
  <2>3. /\ lines' \in [sent : Nat, queued : Nat, handled : Nat]
        /\ lines'.queued = lines.queued /\ lines'.handled = lines.handled
    BY <2>1, <2>2
  <2> QED
    BY <2>3 DEF LinesInv, EventsTyped, Batched, InOrder
<1> QED
  BY <1>1, <1>2, <1>3

\* The stages of the iteration past the lines: what they poll, dispatch and fire.
LEMMA StagesKeep ==
    ASSUME LinesInv, TimersInv,
           \/ Events!PollInput \/ Events!PassInput \/ Events!DispatchInput \/ Events!Fire \/ Events!BgTick
           \/ Events!Frame \/ Events!NoFrame \/ Events!Nap
    PROVE  LinesInv' /\ TimersInv'
<1> DEFINE ty == [at : {"input", "inbound", "timers", "frame", "nap"}, inputs : Seq(Touches),
                  batch : Seq(Nat), due : Seq(Nat), past : BOOLEAN, idle : Nat]
<1>t. /\ turn \in ty /\ turn.inputs \in Seq(Touches) /\ turn.due \in Seq(Nat) /\ turn.idle \in Nat
      /\ IdleTurns \in Nat /\ channel \in Seq(Touches) /\ gate \in BOOLEAN
      /\ turn.at # "inbound" => turn.batch = <<>>
  BY Constants DEF LinesInv, EventsTyped, Batched, Events!ConstantsOK
<1>s. /\ turn.inputs # <<>> => Tail(turn.inputs) \in Seq(Touches)
      /\ turn.due # <<>> => /\ Tail(turn.due) \in Seq(Nat) /\ Head(turn.due) = turn.due[1]
                            /\ Len(turn.due) \in Nat \ {0}
                            /\ Len(Tail(turn.due)) = Len(turn.due) - 1
                            /\ \A i \in 1..Len(turn.due) - 1 : Tail(turn.due)[i] = turn.due[i + 1]
  BY <1>t
<1>1. CASE Events!PollInput
  <2>1. /\ turn' = [turn EXCEPT !.at = turn.at, !.inputs = channel, !.due = turn.due, !.idle = IdleTurns]
        /\ UNCHANGED <<queue, lines, gate, timers, revoked, fired>> /\ turn.inputs = <<>>
        /\ channel' = <<>> /\ <<>> \in Seq(Touches)
    BY <1>1, <1>t DEF Events!PollInput
  <2>2. LinesInv' /\ turn'.due = turn.due
    BY <1>t, <2>1, LinesStay
  <2> QED
    BY <2>1, <2>2 DEF TimersInv, TimersTyped, Numbered, Sorted, Out, Events!HandlesOf
<1>2. CASE Events!PassInput \/ Events!DispatchInput
  <2>1. PICK inputs \in Seq(Touches), past \in BOOLEAN :
        /\ turn' = [turn EXCEPT !.at = turn.at, !.inputs = inputs, !.due = turn.due,
                                !.idle = turn.idle, !.past = past]
        /\ UNCHANGED <<queue, lines, gate, channel, fired>>
    <3>1. CASE Events!PassInput
      <4>1. /\ turn.inputs # <<>> /\ UNCHANGED <<queue, lines, gate, channel, fired>>
            /\ \/ turn' = [turn EXCEPT !.inputs = Tail(turn.inputs)]
               \/ turn' = [turn EXCEPT !.past = TRUE]
        BY <3>1 DEF Events!PassInput
      <4>2. \/ turn' = [turn EXCEPT !.at = turn.at, !.inputs = Tail(turn.inputs), !.due = turn.due,
                                    !.idle = turn.idle, !.past = turn.past]
            \/ turn' = [turn EXCEPT !.at = turn.at, !.inputs = turn.inputs, !.due = turn.due,
                                    !.idle = turn.idle, !.past = TRUE]
        BY <1>t, <4>1
      <4> QED
        BY <1>t, <1>s, <4>1, <4>2
    <3>2. CASE Events!DispatchInput
      <4>1. /\ turn' = [turn EXCEPT !.at = turn.at, !.inputs = Tail(turn.inputs), !.due = turn.due,
                                    !.idle = turn.idle, !.past = FALSE]
            /\ UNCHANGED <<queue, lines, gate, channel, fired>> /\ turn.inputs # <<>>
        BY <1>t, <3>2 DEF Events!DispatchInput
      <4> QED
        BY <1>s, <4>1
    <3> QED
      BY <1>2, <3>1, <3>2
  <2>2. LinesInv' /\ turn'.due = turn.due
    BY <1>t, <2>1, LinesStay
  <2>3. Out' = Out
    BY <2>1, <2>2 DEF Out
  <2>4. UNCHANGED <<timers, revoked>> \/ Events!GuestCall
    BY <1>2 DEF Events!PassInput, Events!DispatchInput
  <2> QED
    BY <2>2, <2>3, <2>4, CallKeepsTimers
       DEF TimersInv, TimersTyped, Numbered, Sorted, Events!HandlesOf
<1>3. CASE Events!Fire
  <2>1. /\ turn' = [turn EXCEPT !.at = turn.at, !.inputs = turn.inputs, !.due = Tail(turn.due),
                                !.idle = turn.idle]
        /\ turn.due # <<>> /\ UNCHANGED <<queue, lines, gate, channel>> /\ Events!GuestCall
        /\ fired' \subseteq fired \union {Head(turn.due)}
    BY <1>3, <1>t DEF Events!Fire
  <2>2. LinesInv' /\ turn'.due = Tail(turn.due)
    BY <1>t, <1>s, <2>1, LinesStay
  <2>3. Out' \subseteq Out
    <3>1. ASSUME NEW i \in 1..Len(Tail(turn.due)) PROVE Tail(turn.due)[i] \in Out
      <4>1. i + 1 \in 1..Len(turn.due) /\ Tail(turn.due)[i] = turn.due[i + 1]
        BY <1>s, <2>1
      <4> QED
        BY <4>1 DEF Out
    <3>2. Head(turn.due) \in Out
      <4>1. 1 \in 1..Len(turn.due) /\ Head(turn.due) = turn.due[1]
        BY <1>s, <2>1
      <4> QED
        BY <4>1 DEF Out
    <3>3. Out' = fired' \union {Tail(turn.due)[i] : i \in 1..Len(Tail(turn.due))}
      BY <2>2 DEF Out
    <3>4. fired \subseteq Out
      BY DEF Out
    <3> QED
      BY <2>1, <3>1, <3>2, <3>3, <3>4
  <2> QED
    BY <2>1, <2>2, <2>3, CallKeepsTimers
<1>4. CASE Events!BgTick \/ Events!Frame
  <2>1. PICK at \in {"frame", "nap"}, wait \in Nat :
          turn' = [turn EXCEPT !.at = at, !.inputs = turn.inputs, !.due = turn.due, !.idle = wait]
    <3>1. CASE Events!BgTick
      <4>1. turn' = [turn EXCEPT !.at = "frame", !.inputs = turn.inputs, !.due = turn.due,
                                 !.idle = turn.idle]
        BY <1>t, <3>1 DEF Events!BgTick
      <4> QED
        BY <1>t, <4>1
    <3>2. CASE Events!Frame
      <4>1. turn' = [turn EXCEPT !.at = "nap", !.inputs = turn.inputs, !.due = turn.due, !.idle = 0]
        BY <1>t, <3>2 DEF Events!Frame
      <4> QED
        BY <4>1
    <3> QED
      BY <1>4, <3>1, <3>2
  <2>2. /\ turn.at # "inbound" /\ UNCHANGED <<queue, lines, gate, channel, fired>>
        /\ Events!GuestCall \/ UNCHANGED <<timers, revoked>>
    BY <1>4 DEF Events!BgTick, Events!Frame, Events!At
  <2>3. LinesInv' /\ turn'.due = turn.due
    BY <1>t, <2>1, <2>2, LinesStay
  <2>4. Out' = Out
    BY <2>2, <2>3 DEF Out
  <2> QED
    BY <2>2, <2>3, <2>4, CallKeepsTimers DEF TimersInv, TimersTyped, Numbered, Sorted, Events!HandlesOf
<1>5. CASE Events!NoFrame
  <2>1. PICK wait \in Nat :
          turn' = [turn EXCEPT !.at = "nap", !.inputs = turn.inputs, !.due = turn.due, !.idle = wait]
    <3> DEFINE w == IF host.background THEN turn.idle ELSE turn.idle + 1
    <3>1. turn' = [turn EXCEPT !.at = "nap", !.inputs = turn.inputs, !.due = turn.due, !.idle = w]
      BY <1>5, <1>t DEF Events!NoFrame
    <3>2. w \in Nat
      BY <1>t
    <3> HIDE DEF w
    <3> QED
      BY <3>1, <3>2
  <2>2. /\ turn.at # "inbound" /\ UNCHANGED <<queue, lines, gate, channel, fired, timers, revoked>>
    BY <1>5 DEF Events!NoFrame, Events!At
  <2>3. LinesInv' /\ turn'.due = turn.due
    BY <1>t, <2>1, <2>2, LinesStay
  <2> QED
    BY <2>2, <2>3 DEF TimersInv, TimersTyped, Numbered, Sorted, Out, Events!HandlesOf
<1>6. CASE Events!Nap
  <2>1. /\ turn' = [turn EXCEPT !.at = "input", !.inputs = turn.inputs, !.due = turn.due,
                                !.idle = turn.idle]
        /\ turn.at # "inbound" /\ UNCHANGED <<queue, lines, gate, channel, fired>>
    BY <1>6, <1>t DEF Events!Nap, Events!At
  <2>2. LinesInv' /\ turn'.due = turn.due
    BY <1>t, <2>1, LinesStay
  <2>3. Out' = Out
    BY <2>1, <2>2 DEF Out
  <2> QED
    BY <1>6, <2>2, <2>3, NapKeepsTimers
<1> QED
  BY <1>1, <1>2, <1>3, <1>4, <1>5, <1>6

\* Every step keeps the books.
LEMMA EventsInductive ==
    ASSUME LinesInv, TimersInv, [Events!Next]_(Events!vars)
    PROVE  LinesInv' /\ TimersInv'
<1>t. gate \in BOOLEAN /\ channel \in Seq(Touches) /\ turn.due \in Seq(Nat)
  BY DEF LinesInv, EventsTyped
<1>1. ASSUME NEW c, Events!Connect(c) \/ Events!Send(c) \/ Events!HangUp(c) \/ Events!Eof(c)
      PROVE  LinesInv' /\ TimersInv'
  BY <1>t, <1>1, ElsewhereKept DEF Events!Connect, Events!Send, Events!HangUp, Events!Eof
<1>2. ASSUME NEW b, Events!Accept \/ Events!SetRole(b) \/ Events!Shutdown \/ UNCHANGED Events!vars
      PROVE  LinesInv' /\ TimersInv'
  BY <1>t, <1>2, ElsewhereKept DEF Events!Accept, Events!SetRole, Events!Shutdown, Events!vars
<1>3. ASSUME NEW kind \in {"touch", "key"}, Events!Input(kind)
      PROVE  LinesInv' /\ TimersInv'
  <2>1. channel' \in Seq(Touches)
    BY <1>t, <1>3 DEF Events!Input, Touches
  <2> QED
    BY <1>t, <1>3, <2>1, ElsewhereKept DEF Events!Input
<1>4. ASSUME NEW c, Events!ReadLine(c)
      PROVE  LinesInv' /\ TimersInv'
  <2>1. UNCHANGED <<turn, timers, revoked, fired>>
    BY <1>4 DEF Events!ReadLine
  <2> QED
    BY <1>4, <2>1, ReadLineKeepsOrder
       DEF TimersInv, TimersTyped, Numbered, Sorted, Out, Events!HandlesOf
<1>5. CASE Events!DrainQueue
  <2>1. /\ UNCHANGED <<timers, revoked, fired>> /\ turn.inputs = <<>>
        /\ turn' = [turn EXCEPT !.at = "inbound", !.batch = queue,
                                !.idle = IF queue = <<>> THEN @ ELSE IdleTurns]
    BY <1>5 DEF Events!DrainQueue
  <2>2. turn'.due = turn.due /\ LinesInv'
    BY <1>5, <2>1, DrainKeepsOrder DEF LinesInv, EventsTyped
  <2> QED
    BY <2>1, <2>2 DEF TimersInv, TimersTyped, Numbered, Sorted, Out, Events!HandlesOf
<1>6. CASE Events!HandleLine
  <2>1. Events!GuestCall /\ UNCHANGED fired
    BY <1>6 DEF Events!HandleLine
  <2>2. LinesInv' /\ turn'.due = turn.due
    BY <1>6, HandlingKeepsOrder
  <2>3. Out' = Out
    BY <2>1, <2>2 DEF Out
  <2> QED
    BY <2>1, <2>2, <2>3, CallKeepsTimers
<1>7. CASE Events!DrainTimers
  BY <1>7, DrainKeepsTimers
<1>8. CASE Events!Iterate
  BY <1>5, <1>6, <1>7, <1>8, StagesKeep DEF Events!Iterate
<1>9. CASE Events!Listen \/ Events!HangsUp
  BY <1>1, <1>2, <1>4, <1>9 DEF Events!Listen, Events!HangsUp
<1> QED
  BY <1>1, <1>2, <1>3, <1>8, <1>9 DEF Events!Next

LEMMA EventsInitially == Events!Init => LinesInv /\ TimersInv
<1> SUFFICES ASSUME Events!Init PROVE LinesInv /\ TimersInv
  OBVIOUS
<1>1. <<>> \in Seq(Nat) /\ <<>> \in Seq(Touches) /\ Len(<<>>) = 0
  OBVIOUS
<1>2. LinesInv
  <2>1. EventsTyped /\ Batched
    BY <1>1 DEF Events!Init, EventsTyped, Batched
  <2>2. Gapless(<<>>, <<>>, 0, 0)
    BY <1>1 DEF Gapless
  <2> QED
    BY <2>1, <2>2 DEF Events!Init, LinesInv, InOrder
<1>3. Out = {}
  BY <1>1 DEF Events!Init, Out
<1>4. IsFiniteSet(timers.heap)
  BY FS_EmptySet DEF Events!Init
<1> QED
  BY <1>2, <1>3, <1>4 DEF Events!Init, TimersInv, TimersTyped, Numbered, Sorted, Events!HandlesOf

\* Whatever the guest schedules, cancels and traps on, lines are handled once and in
\* order, and no callback that was cancelled in time is called.
THEOREM NothingLost == HostSpec => []NothingIsLost
<1>1. LinesInv /\ TimersInv => NothingIsLost
  <2> SUFFICES ASSUME LinesInv, TimersInv PROVE NothingIsLost
    OBVIOUS
  <2>1. Events!CallbacksAccounted
    BY DEF TimersInv, Sorted, Out, Events!CallbacksAccounted
  <2>2. turn.batch \in Seq(Nat) /\ queue \in Seq(Nat)
    BY DEF LinesInv, EventsTyped
  <2>3. /\ Len(turn.batch \o queue) = Len(turn.batch) + Len(queue)
        /\ \A i \in 1..Len(turn.batch) + Len(queue) :
             (turn.batch \o queue)[i] = IF i <= Len(turn.batch) THEN turn.batch[i]
                                        ELSE queue[i - Len(turn.batch)]
        /\ Len(turn.batch) \in Nat /\ Len(queue) \in Nat
    BY <2>2, ConcatProperties
  <2>4. Gapless(turn.batch, queue, lines.handled, lines.queued)
    BY DEF LinesInv, InOrder
  <2>5. lines.handled \in Nat /\ lines.queued \in Nat
    BY DEF LinesInv, EventsTyped
  <2>6. ASSUME NEW i \in 1..Len(turn.batch \o queue)
        PROVE  (turn.batch \o queue)[i] = lines.handled + i
    <3>1. CASE i <= Len(turn.batch)
      BY <2>3, <2>4, <3>1 DEF Gapless
    <3>2. CASE i > Len(turn.batch)
      <4>1. /\ i - Len(turn.batch) \in 1..Len(queue)
            /\ lines.handled + Len(turn.batch) + (i - Len(turn.batch)) = lines.handled + i
        BY <2>3, <2>5, <3>2
      <4> QED
        BY <2>3, <2>4, <3>2, <4>1 DEF Gapless
    <3> QED
      BY <2>3, <3>1, <3>2
  <2> QED
    BY <2>1, <2>3, <2>4, <2>6 DEF NothingIsLost, Events!LinesInOrder, Gapless
<1> QED
  BY <1>1, PartsImplemented, EventsInitially, EventsInductive, PTL DEF Events!Spec

-----------------------------------------------------------------------------
(* The blanked panel.                                                      *)

\* A call is under way for the first input only, and while the panel is blanked
\* it is a touch's only if none has got through.
BlankInv ==
    /\ turn.past => turn.at = "input" /\ turn.inputs # <<>>
    /\ made \in [inputs : Nat, leaked : BOOLEAN, slipped : Nat]
    /\ gate => /\ made.slipped <= 1
               /\ turn.past /\ Head(turn.inputs).kind = "touch" => made.slipped = 0

LEMMA BlankInductive ==
    ASSUME LinesInv, TimersInv, BlankInv, [Events!Next]_(Events!vars) PROVE BlankInv'
<1>t. /\ turn \in [at : {"input", "inbound", "timers", "frame", "nap"}, inputs : Seq(Touches),
                    batch : Seq(Nat), due : Seq(Nat), past : BOOLEAN, idle : Nat]
      /\ gate \in BOOLEAN
      /\ turn.inputs # <<>> => Tail(turn.inputs) \in Seq(Touches) /\ Head(turn.inputs) \in Touches
  BY DEF LinesInv, EventsTyped
<1>1. ASSUME turn'.past = turn.past \/ ~turn'.past,
             turn.past => turn'.at = turn.at /\ turn'.inputs = turn.inputs,
             UNCHANGED <<gate, made>>
      PROVE  BlankInv'
  BY <1>1 DEF BlankInv
<1>2. ASSUME NEW c, \/ Events!Connect(c) \/ Events!Send(c) \/ Events!HangUp(c) \/ Events!Eof(c)
                   \/ Events!Accept \/ Events!SetRole(c) \/ Events!Shutdown
                   \/ UNCHANGED Events!vars
      PROVE  BlankInv'
  BY <1>1, <1>2 DEF Events!Connect, Events!Send, Events!HangUp, Events!Eof, Events!Accept,
                    Events!SetRole, Events!Shutdown, Events!vars
<1>3. ASSUME NEW kind \in {"touch", "key"}, Events!Input(kind) PROVE BlankInv'
  <2>1. UNCHANGED <<turn, gate>> /\ made' = [made EXCEPT !.inputs = @ + 1]
    BY <1>3 DEF Events!Input
  <2> QED
    BY <2>1 DEF BlankInv
<1>4. ASSUME NEW c, Events!ReadLine(c) PROVE BlankInv'
  <2>1. /\ UNCHANGED turn
        /\ \/ UNCHANGED <<gate, made>>
           \/ made' = IF gate' /\ ~gate THEN [made EXCEPT !.slipped = 0] ELSE made
    BY <1>4 DEF Events!ReadLine
  <2>2. CASE gate' /\ ~gate /\ made' = [made EXCEPT !.slipped = 0]
    BY <2>1, <2>2 DEF BlankInv
  <2>3. CASE UNCHANGED made /\ (gate' => gate)
    BY <2>1, <2>3 DEF BlankInv
  <2> QED
    BY <1>t, <2>1, <2>2, <2>3
<1>5. CASE Events!PollInput \/ Events!DrainQueue
  <2>1. ~turn.past
    BY <1>5 DEF Events!PollInput, Events!DrainQueue, BlankInv
  <2>2. turn'.past = turn.past /\ UNCHANGED <<gate, made>>
    BY <1>t, <1>5 DEF Events!PollInput, Events!DrainQueue
  <2> QED
    BY <1>1, <2>1, <2>2
<1>6. CASE Events!PassInput
  <2>1. /\ UNCHANGED <<gate, made>> /\ turn.inputs # <<>> /\ turn.at = "input" /\ ~turn.past
        /\ turn' = IF Head(turn.inputs).kind = "touch" /\ gate
                   THEN [turn EXCEPT !.inputs = Tail(turn.inputs)]
                   ELSE [turn EXCEPT !.past = TRUE]
    BY <1>6 DEF Events!PassInput, Events!At
  <2>2. CASE Head(turn.inputs).kind = "touch" /\ gate
    BY <1>t, <2>1, <2>2 DEF BlankInv
  <2>3. CASE ~(Head(turn.inputs).kind = "touch" /\ gate)
    <3>1. turn'.past /\ turn'.at = "input" /\ turn'.inputs = turn.inputs
      BY <1>t, <2>1, <2>3
    <3> QED
      BY <2>1, <2>3, <3>1 DEF BlankInv
  <2> QED
    BY <2>2, <2>3
<1>7. CASE Events!DispatchInput
  <2>1. /\ UNCHANGED gate /\ turn.past /\ ~turn'.past
        /\ made' = IF Head(turn.inputs).kind # "touch" THEN made
                   ELSE [made EXCEPT !.leaked = @ \/ Head(turn.inputs).blank,
                                     !.slipped = IF gate THEN @ + 1 ELSE @]
    BY <1>t, <1>7 DEF Events!DispatchInput
  <2>2. Head(turn.inputs).blank \in BOOLEAN
    BY <1>t, <2>1 DEF BlankInv, Touches
  <2>3. CASE Head(turn.inputs).kind # "touch"
    BY <2>1, <2>3 DEF BlankInv
  <2>4. CASE Head(turn.inputs).kind = "touch" /\ gate
    <3> DEFINE leaks == made.leaked \/ Head(turn.inputs).blank
    <3>1. made.slipped = 0 /\ made \in [inputs : Nat, leaked : BOOLEAN, slipped : Nat]
      BY <2>1, <2>4 DEF BlankInv
    <3>2. made' = [made EXCEPT !.leaked = leaks, !.slipped = 1]
      BY <2>1, <2>4, <3>1
    <3>3. leaks \in BOOLEAN
      BY <2>2, <3>1
    <3>4. PICK b \in BOOLEAN : made' = [made EXCEPT !.leaked = b, !.slipped = 1]
      BY <3>2, <3>3, Zenon
    <3>5. made'.slipped = 1 /\ made' \in [inputs : Nat, leaked : BOOLEAN, slipped : Nat]
      BY <3>1, <3>4
    <3> QED
      BY <2>1, <3>5 DEF BlankInv
  <2>5. CASE Head(turn.inputs).kind = "touch" /\ ~gate
    BY <2>1, <2>2, <2>5 DEF BlankInv
  <2> QED
    BY <2>3, <2>4, <2>5
<1>8. CASE \/ Events!HandleLine \/ Events!DrainTimers \/ Events!Fire \/ Events!BgTick
          \/ Events!Frame \/ Events!NoFrame \/ Events!Nap
  <2>1. turn.at # "input" /\ UNCHANGED <<gate, made>>
    BY <1>8 DEF Events!HandleLine, Events!DrainTimers, Events!Fire, Events!BgTick, Events!Frame,
                Events!NoFrame, Events!Nap, Events!At
  <2>2. turn'.past = turn.past
    BY <1>t, <1>8 DEF Events!HandleLine, Events!DrainTimers, Events!Fire, Events!BgTick,
                      Events!Frame, Events!NoFrame, Events!Nap
  <2> QED
    BY <1>1, <2>1, <2>2 DEF BlankInv
<1>9. CASE Events!Iterate
  BY <1>5, <1>6, <1>7, <1>8, <1>9 DEF Events!Iterate
<1> QED
  BY <1>2, <1>3, <1>4, <1>9 DEF Events!Next, Events!Listen, Events!HangsUp

\* Of all the touches the loop has taken up when the panel is blanked, and of all
\* that come until it is lit again, one at most reaches the guest.
THEOREM BlankPanel == HostSpec => []BlankPanelIsInert
<1>1. Events!Init => BlankInv
  BY DEF Events!Init, BlankInv
<1>2. BlankInv => BlankPanelIsInert
  BY DEF BlankInv, BlankPanelIsInert, Events!BlankPanelIsInert
<1> QED
  BY <1>1, <1>2, BlankInductive, PartsImplemented, EventsInitially, EventsInductive, PTL
     DEF Events!Spec

-----------------------------------------------------------------------------
(* The windowed host: deadlines are kept, and frames fit their window, for   *)
(* every guest, whatever the user and the window system do.                  *)

ShellTyped ==
    /\ shell \in [platform : Platforms, guest : Guests, state : {"runs", "exited"}]
    /\ sizes \in [drawn : Int, told : Int, next : Int] /\ window \in Int
    /\ guestIs \in {"absent", "sound", "poisoned"}
    /\ dueIn \in [render : Int, bg : Int, video : Int, call : Int]
    /\ redraw \in BOOLEAN /\ nap \in Int /\ happened \in Nat

\* Until the next frame, a callback is not later than the frame is waited for.
FrameIsNear ==
    Shell!Awake /\ ~redraw =>
        dueIn.render <= SleepCap /\ dueIn.render - SleepCap <= dueIn.call

\* A loop without a frame to draw sleeps no longer than its earliest deadline.
SleepsUntilDue == Shell!Awake /\ ~redraw /\ nap # Shell!None => 0 <= nap /\ nap <= Shell!Wake

\* A guest on a desktop knows the size its renderer draws at.
LaidOut == Shell!Desktop /\ guestIs = "sound" => sizes.told = sizes.drawn

ShellInv == ShellTyped /\ FrameIsNear /\ SleepsUntilDue /\ LaidOut

\* The intervals are times, and a deadline is never so far off as none.
LEMMA Intervals ==
    /\ Floor \in Nat /\ SleepCap \in Nat /\ BgMin \in Nat /\ BgDefault \in Nat /\ BgMax \in Nat
    /\ SleepCap < Shell!Never /\ Delays \subseteq Nat /\ Sizes \subseteq Nat
    /\ Shell!Never = 99 /\ Shell!None = -1
BY Constants DEF Shell!ConstantsOK, Shell!Never, Shell!None

\* The state of dueIn after some time, and after a clamp.
LEMMA ClampBounds ==
    ASSUME NEW x \in Int, NEW lo \in Int, NEW hi \in Int
    PROVE  Shell!Clamp(x, lo, hi) \in Int /\ Shell!Clamp(x, lo, hi) <= hi
BY DEF Shell!Clamp, Shell!Lowest, Shell!Highest

LEMMA LaterBounds ==
    ASSUME NEW x \in Int
    PROVE  /\ Shell!Later(x) \in Int /\ x - 1 <= Shell!Later(x)
           /\ 0 < x /\ x < Shell!Never => Shell!Later(x) = x - 1
BY Intervals DEF Shell!Later, Shell!Highest

LEMMA WakeBounds ==
    ASSUME ShellTyped
    PROVE  /\ Shell!Wake \in Int /\ Shell!Wake <= dueIn.render /\ Shell!Wake <= dueIn.bg
           /\ Shell!Wake <= dueIn.video
           /\ \A n \in Int : n <= dueIn.render /\ n <= dueIn.bg /\ n <= dueIn.video => n <= Shell!Wake
<1>1. dueIn.render \in Int /\ dueIn.bg \in Int /\ dueIn.video \in Int
  BY DEF ShellTyped
<1> QED
  BY <1>1 DEF Shell!Wake, Shell!Lowest

\* The user and the window system.
LEMMA UserStep ==
    ASSUME ShellInv,
           \/ \E size \in Sizes : Shell!Resumed(size) \/ Shell!Resizes(size, TRUE) \/ Shell!Resizes(size, FALSE)
           \/ Shell!Suspended \/ Shell!CloseRequested
           \/ \E f \in BOOLEAN : Shell!Focused(f)
           \/ \E kind \in {"touch", "key"} : Shell!Input(kind)
    PROVE  ShellInv' /\ happened' # happened
<1>t. /\ ShellTyped /\ Shell!None \in Int /\ Shell!Never \in Int /\ Sizes \subseteq Int
      /\ shell \in [platform : Platforms, guest : Guests, state : {"runs", "exited"}]
      /\ sizes \in [drawn : Int, told : Int, next : Int]
      /\ dueIn \in [render : Int, bg : Int, video : Int, call : Int]
      /\ happened \in Nat
  BY Intervals DEF ShellInv, ShellTyped
<1>e. Shell!Event
  BY DEF Shell!Resumed, Shell!Resizes, Shell!Suspended, Shell!CloseRequested, Shell!Focused, Shell!Input
<1>n. happened' \in Nat /\ happened' # happened /\ nap' = Shell!None /\ SleepsUntilDue'
  BY <1>t, <1>e DEF Shell!Event, SleepsUntilDue, Shell!None
<1>1. ASSUME NEW size \in Sizes, Shell!Resumed(size) PROVE ShellInv'
  <2>1. CASE guestIs = "absent"
    <3>1. /\ window' = size /\ redraw' = TRUE /\ UNCHANGED shell /\ guestIs' = "sound"
          /\ dueIn' = [dueIn EXCEPT !.render = 0, !.bg = IF shell.guest.bg THEN 0 ELSE Shell!Never]
          /\ sizes' = [drawn |-> size, told |-> size, next |-> Shell!None]
      BY <1>1, <2>1 DEF Shell!Resumed
    <3>2. dueIn' \in [render : Int, bg : Int, video : Int, call : Int]
      <4> DEFINE bg == IF shell.guest.bg THEN 0 ELSE Shell!Never
      <4>1. bg \in Int
        BY <1>t
      <4>2. dueIn' = [dueIn EXCEPT !.render = 0, !.bg = bg]
        BY <3>1
      <4> HIDE DEF bg
      <4>3. dueIn' = [render |-> 0, bg |-> bg, video |-> dueIn.video, call |-> dueIn.call]
        BY <1>t, <4>2
      <4>4. dueIn.video \in Int /\ dueIn.call \in Int
        BY <1>t
      <4> QED
        BY <4>1, <4>3, <4>4
    <3>3. ShellTyped' /\ LaidOut'
      BY <1>t, <1>n, <3>1, <3>2 DEF ShellTyped, LaidOut
    <3> QED
      BY <1>n, <3>1, <3>3 DEF ShellInv, FrameIsNear
  <2>2. CASE guestIs # "absent"
    <3>1. /\ window' = size /\ redraw' = TRUE /\ UNCHANGED <<shell, guestIs, dueIn>> /\ ~Shell!Desktop
          /\ sizes' = [sizes EXCEPT !.drawn = size]
      BY <1>1, <2>2 DEF Shell!Resumed
    <3>2. ShellTyped'
      BY <1>t, <1>n, <3>1 DEF ShellTyped
    <3>3. LaidOut'
      BY <3>1 DEF LaidOut, Shell!Desktop
    <3> QED
      BY <1>n, <3>1, <3>2, <3>3 DEF ShellInv, FrameIsNear
  <2> QED
    BY <2>1, <2>2
<1>2. ASSUME NEW size \in Sizes, NEW said \in BOOLEAN, Shell!Resizes(size, said) PROVE ShellInv'
  <2>1. /\ window' = size /\ UNCHANGED <<shell, guestIs, dueIn, redraw>> /\ window # Shell!None
        /\ sizes' = IF said THEN [sizes EXCEPT !.next = size] ELSE sizes
    BY <1>2 DEF Shell!Resizes
  <2>2. /\ sizes' \in [drawn : Int, told : Int, next : Int] /\ sizes'.told = sizes.told
        /\ sizes'.drawn = sizes.drawn
    BY <1>t, <2>1
  <2> QED
    BY <1>t, <1>n, <2>1, <2>2
       DEF ShellInv, ShellTyped, FrameIsNear, LaidOut, Shell!Desktop, Shell!Awake
<1>3. CASE Shell!Suspended
  <2>1. window' = Shell!None /\ redraw' = FALSE /\ UNCHANGED <<shell, sizes, guestIs, dueIn>>
    BY <1>3 DEF Shell!Suspended
  <2> QED
    BY <1>t, <1>n, <2>1 DEF ShellInv, ShellTyped, FrameIsNear, LaidOut, Shell!Desktop, Shell!Awake
<1>4. CASE Shell!CloseRequested
  <2>1. /\ shell' = [shell EXCEPT !.state = "exited"]
        /\ UNCHANGED <<window, sizes, guestIs, dueIn, redraw>>
    BY <1>4 DEF Shell!CloseRequested
  <2>2. /\ shell' \in [platform : Platforms, guest : Guests, state : {"runs", "exited"}]
        /\ shell'.platform = shell.platform /\ shell'.state = "exited"
    BY <1>t, <2>1
  <2> QED
    BY <1>t, <1>n, <2>1, <2>2 DEF ShellInv, ShellTyped, FrameIsNear, LaidOut, Shell!Desktop, Shell!Awake
<1>5. ASSUME NEW f \in BOOLEAN, Shell!Focused(f) PROVE ShellInv'
  <2>1. UNCHANGED <<shell, window, sizes, guestIs, dueIn, redraw>>
    BY <1>5 DEF Shell!Focused
  <2> QED
    BY <1>t, <1>n, <2>1 DEF ShellInv, ShellTyped, FrameIsNear, LaidOut, Shell!Desktop, Shell!Awake
<1>6. ASSUME NEW kind \in {"touch", "key"}, Shell!Input(kind) PROVE ShellInv'
  <2>1. /\ redraw' = (redraw \/ kind = "touch") /\ UNCHANGED <<shell, window, sizes>>
        /\ guestIs' \in {guestIs, "poisoned"}
    BY <1>6 DEF Shell!Input
  <2>2. \/ dueIn' = dueIn
        \/ \E c \in Delays : dueIn' = [dueIn EXCEPT !.call = c]
    <3>1. ASSUME guestIs = "sound"
          PROVE  \E c \in Shell!Scheduled(dueIn.call) : dueIn' = [dueIn EXCEPT !.call = c]
      BY <1>6, <3>1 DEF Shell!Input
    <3>2. dueIn = [dueIn EXCEPT !.call = dueIn.call]
      BY <1>t
    <3> QED
      BY <1>6, <3>1, <3>2 DEF Shell!Input, Shell!Scheduled
  <2>3. /\ dueIn' \in [render : Int, bg : Int, video : Int, call : Int]
        /\ dueIn'.render = dueIn.render
        /\ dueIn'.call = dueIn.call \/ dueIn'.call >= 0
    BY <1>t, <2>2, Intervals
  <2>4. FrameIsNear'
    <3> SUFFICES ASSUME Shell!Awake, ~redraw
                 PROVE  dueIn'.render <= SleepCap /\ dueIn'.render - SleepCap <= dueIn'.call
      BY <2>1 DEF FrameIsNear, Shell!Awake
    <3>1. dueIn.render <= SleepCap /\ dueIn.render - SleepCap <= dueIn.call
      BY DEF ShellInv, FrameIsNear
    <3>2. dueIn.render \in Int /\ dueIn.call \in Int /\ dueIn'.call \in Int /\ SleepCap \in Int
      BY <1>t, <2>3, Intervals
    <3> QED
      BY <2>3, <3>1, <3>2
  <2> QED
    BY <1>t, <1>n, <2>1, <2>3, <2>4 DEF ShellInv, ShellTyped, LaidOut, Shell!Desktop
<1> QED
  BY <1>n, <1>1, <1>2, <1>3, <1>4, <1>5, <1>6

LEMMA ResizedStep ==
    ASSUME ShellInv, Shell!Resized
    PROVE  ShellInv' /\ sizes'.next # sizes.next
<1>1. /\ sizes.next # Shell!None /\ redraw' = TRUE /\ nap' = Shell!None
      /\ sizes' = [drawn |-> sizes.next, next |-> Shell!None,
                   told |-> IF guestIs = "sound" THEN sizes.next ELSE sizes.told]
      /\ UNCHANGED <<shell, window, guestIs, dueIn, happened>>
  BY DEF Shell!Resized
<1>2. sizes \in [drawn : Int, told : Int, next : Int] /\ Shell!None \in Int
  BY Intervals DEF ShellInv, ShellTyped
<1>3. /\ sizes' \in [drawn : Int, told : Int, next : Int] /\ sizes'.next # sizes.next
      /\ guestIs = "sound" => sizes'.told = sizes'.drawn
  BY <1>1, <1>2
<1> QED
  BY <1>1, <1>2, <1>3
     DEF ShellInv, ShellTyped, FrameIsNear, SleepsUntilDue, LaidOut, Shell!Desktop, Shell!Awake

\* What a frame asks for next.
LEMMA NextDeadlines ==
    ASSUME ShellTyped, NEW r \in BOOLEAN, NEW c \in Shell!NextCalls(r)
    PROVE  c \in Int /\ 0 <= c
<1>1. dueIn.call \in Int /\ Shell!Never \in Int /\ 0 <= Shell!Never
  BY Intervals DEF ShellTyped
<1>2. \A d \in Delays : d \in Int /\ 0 <= d
  BY Intervals
<1> QED
  BY <1>1, <1>2 DEF Shell!NextCalls, Shell!Scheduled

LEMMA FrameStep ==
    ASSUME ShellInv, Shell!RedrawRequested
    PROVE  ShellInv' /\ (Shell!Desktop /\ window # 0 /\ guestIs = "sound"
                            => sizes'.drawn = window /\ sizes'.told = window)
<1>1. PICK outcome \in Shell!Outcomes, delay \in Delays \union {0},
           bgDelay \in {BgDefault} \union Delays,
           c \in Shell!NextCalls(TRUE) \union Shell!NextCalls(FALSE),
           v \in Shell!NextVideo(TRUE) \union Shell!NextVideo(FALSE) :
        /\ guestIs' = IF outcome = "ok" THEN "sound" ELSE "poisoned"
        /\ shell' = [shell EXCEPT !.state = IF outcome = "fatal" THEN "exited" ELSE @]
        /\ dueIn' = [render |-> Shell!NextRender(delay), bg |-> Shell!NextBg(bgDelay),
                     call |-> c, video |-> v]
  <2>1. PICK outcome \in Shell!Outcomes :
          /\ guestIs' = IF outcome = "ok" THEN "sound" ELSE "poisoned"
          /\ shell' = [shell EXCEPT !.state = IF outcome = "fatal" THEN "exited" ELSE @]
          /\ \E delay \in (IF outcome = "ok" THEN Delays ELSE {0}),
                bgDelay \in {BgDefault} \union (IF outcome = "refused" THEN {} ELSE Delays),
                c \in Shell!NextCalls(outcome = "refused"),
                v \in Shell!NextVideo(outcome \in {"ok", "after"}) :
                  dueIn' = [render |-> Shell!NextRender(delay), bg |-> Shell!NextBg(bgDelay),
                            call |-> c, video |-> v]
    BY Zenon DEF Shell!RedrawRequested
  <2>2. PICK delay \in (IF outcome = "ok" THEN Delays ELSE {0}),
             bgDelay \in {BgDefault} \union (IF outcome = "refused" THEN {} ELSE Delays),
             c \in Shell!NextCalls(outcome = "refused"),
             v \in Shell!NextVideo(outcome \in {"ok", "after"}) :
               dueIn' = [render |-> Shell!NextRender(delay), bg |-> Shell!NextBg(bgDelay),
                         call |-> c, video |-> v]
    BY <2>1
  <2>3. delay \in Delays \union {0} /\ bgDelay \in {BgDefault} \union Delays
    OBVIOUS
  <2>4. c \in Shell!NextCalls(TRUE) \union Shell!NextCalls(FALSE)
    BY DEF Shell!NextCalls
  <2>5. v \in Shell!NextVideo(TRUE) \union Shell!NextVideo(FALSE)
    BY DEF Shell!NextVideo
  <2> QED
    BY <2>1, <2>2, <2>3, <2>4, <2>5
<1>2. /\ nap' = Shell!None /\ redraw' = (Shell!Reconciled # sizes) /\ sizes' = Shell!Reconciled
      /\ UNCHANGED <<window, happened>> /\ Shell!Awake
  BY DEF Shell!RedrawRequested
<1>t. /\ ShellTyped /\ shell \in [platform : Platforms, guest : Guests, state : {"runs", "exited"}]
      /\ sizes \in [drawn : Int, told : Int, next : Int] /\ window \in Int
      /\ dueIn \in [render : Int, bg : Int, video : Int, call : Int]
  BY DEF ShellInv, ShellTyped
<1>3. Shell!NextRender(delay) \in Int /\ Shell!NextRender(delay) <= SleepCap
  <2> DEFINE asked == IF shell.guest.paced THEN delay ELSE 0
  <2>1. asked \in Int /\ Floor \in Int /\ SleepCap \in Int
    BY Intervals
  <2>2. Shell!NextRender(delay) = Shell!Clamp(asked, Floor, SleepCap)
    BY DEF Shell!NextRender
  <2> HIDE DEF asked
  <2> QED
    BY <2>1, <2>2, ClampBounds
<1>4. Shell!NextBg(bgDelay) \in Int
  BY <1>t, Intervals, ClampBounds DEF Shell!NextBg
<1>5. c \in Int /\ 0 <= c
  BY <1>t, NextDeadlines
<1>6. v \in Int
  BY <1>t, Intervals DEF Shell!NextVideo
<1>7. /\ dueIn' \in [render : Int, bg : Int, video : Int, call : Int]
      /\ dueIn'.render <= SleepCap /\ dueIn'.render - SleepCap <= dueIn'.call
  BY <1>1, <1>3, <1>4, <1>5, <1>6, Intervals
<1>8. /\ shell' \in [platform : Platforms, guest : Guests, state : {"runs", "exited"}]
      /\ shell'.platform = shell.platform
  BY <1>1, <1>t
<1>9. /\ sizes' \in [drawn : Int, told : Int, next : Int]
      /\ Shell!Desktop /\ guestIs = "sound" => sizes'.told = sizes'.drawn
      /\ Shell!Desktop /\ window # 0 => sizes'.drawn = window
  BY <1>2, <1>t DEF Shell!Reconciled, ShellInv, LaidOut
<1>10. guestIs' = "sound" => guestIs = "sound"
  BY <1>1 DEF Shell!Outcomes
<1>11. ShellTyped'
  BY <1>1, <1>2, <1>7, <1>8, <1>9, Intervals DEF ShellInv, ShellTyped
<1>12. FrameIsNear' /\ SleepsUntilDue'
  BY <1>2, <1>7 DEF FrameIsNear, SleepsUntilDue
<1>13. LaidOut'
  BY <1>8, <1>9, <1>10 DEF LaidOut, Shell!Desktop
<1> QED
  BY <1>9, <1>11, <1>12, <1>13 DEF ShellInv

LEMMA WaitStep ==
    ASSUME ShellInv, Shell!AboutToWait
    PROVE  ShellInv' /\ nap' # Shell!None
<1>1. /\ redraw' = (redraw \/ Shell!Wake <= 0) /\ nap' = Shell!Highest(Shell!Wake, 0)
      /\ UNCHANGED <<shell, window, sizes, guestIs, dueIn, happened>>
  BY DEF Shell!AboutToWait
<1>2. Shell!Wake \in Int /\ Shell!Wake' = Shell!Wake
  BY <1>1, WakeBounds DEF ShellInv, Shell!Wake, Shell!Lowest
<1>3. nap' \in Int /\ nap' >= 0 /\ (Shell!Wake > 0 => nap' = Shell!Wake)
  BY <1>1, <1>2 DEF Shell!Highest
<1>4. SleepsUntilDue'
  <2> SUFFICES ASSUME redraw' = FALSE PROVE 0 <= nap' /\ nap' <= Shell!Wake'
    BY <1>1 DEF SleepsUntilDue
  <2>1. ~(Shell!Wake <= 0)
    BY <1>1, Zenon
  <2>2. Shell!Wake > 0
    BY <1>2, <2>1
  <2> QED
    BY <1>2, <1>3, <2>2
<1> QED
  BY <1>1, <1>3, <1>4, Intervals DEF ShellInv, ShellTyped, FrameIsNear, LaidOut, Shell!Desktop, Shell!Awake

LEMMA TickStep ==
    ASSUME ShellInv, Shell!Tick
    PROVE  ShellInv'
<1>1. /\ ~redraw /\ (window = Shell!None \/ nap > 0)
      /\ nap' = IF window = Shell!None THEN Shell!None ELSE nap - 1
      /\ dueIn' = [d \in DOMAIN dueIn |-> Shell!Later(dueIn[d])]
      /\ UNCHANGED <<shell, window, sizes, guestIs, redraw, happened>>
  BY DEF Shell!Tick
<1>t. /\ ShellTyped /\ nap \in Int
      /\ dueIn \in [render : Int, bg : Int, video : Int, call : Int]
  BY DEF ShellInv, ShellTyped
<1>2. /\ dueIn' = [render |-> Shell!Later(dueIn.render), bg |-> Shell!Later(dueIn.bg),
                   video |-> Shell!Later(dueIn.video), call |-> Shell!Later(dueIn.call)]
  BY <1>1, <1>t
<1>3. /\ Shell!Later(dueIn.render) \in Int /\ Shell!Later(dueIn.bg) \in Int
      /\ Shell!Later(dueIn.video) \in Int /\ Shell!Later(dueIn.call) \in Int
      /\ dueIn.render - 1 <= Shell!Later(dueIn.render) /\ dueIn.bg - 1 <= Shell!Later(dueIn.bg)
      /\ dueIn.video - 1 <= Shell!Later(dueIn.video) /\ dueIn.call - 1 <= Shell!Later(dueIn.call)
  BY <1>t, LaterBounds
<1>4. /\ dueIn' \in [render : Int, bg : Int, video : Int, call : Int]
      /\ dueIn'.render = Shell!Later(dueIn.render) /\ dueIn'.call = Shell!Later(dueIn.call)
      /\ dueIn.render - 1 <= dueIn'.render /\ dueIn.bg - 1 <= dueIn'.bg
      /\ dueIn.video - 1 <= dueIn'.video /\ dueIn.call - 1 <= dueIn'.call
  BY <1>2, <1>3
<1>5. ShellTyped'
  BY <1>1, <1>4, <1>t, Intervals DEF ShellTyped
<1>6. ASSUME Shell!Awake, ~redraw
      PROVE  /\ 0 < nap /\ nap <= Shell!Wake /\ nap' = nap - 1
             /\ dueIn.render <= SleepCap /\ dueIn.render - SleepCap <= dueIn.call
  BY <1>1, <1>6, Intervals DEF ShellInv, SleepsUntilDue, FrameIsNear, Shell!Awake
<1>7. Shell!Awake' <=> Shell!Awake
  BY <1>1 DEF Shell!Awake
<1>8. FrameIsNear'
  <2> SUFFICES ASSUME Shell!Awake, ~redraw
               PROVE  dueIn'.render <= SleepCap /\ dueIn'.render - SleepCap <= dueIn'.call
    BY <1>1, <1>7 DEF FrameIsNear
  <2>1. dueIn.render \in Int /\ dueIn.call \in Int /\ Shell!Wake \in Int /\ Shell!Wake <= dueIn.render
    BY <1>t, WakeBounds
  <2>2. 0 < dueIn.render /\ dueIn.render < Shell!Never
    BY <1>6, <1>t, <2>1, Intervals
  <2>3. dueIn'.render = dueIn.render - 1
    BY <1>4, <2>1, <2>2, LaterBounds
  <2>4. dueIn'.call \in Int
    BY <1>4
  <2> QED
    BY <1>4, <1>6, <2>1, <2>3, <2>4, Intervals
<1>9. SleepsUntilDue'
  <2> SUFFICES ASSUME Shell!Awake, ~redraw PROVE 0 <= nap' /\ nap' <= Shell!Wake'
    BY <1>1, <1>7 DEF SleepsUntilDue
  <2>1. /\ Shell!Wake \in Int /\ Shell!Wake <= dueIn.render /\ Shell!Wake <= dueIn.bg
        /\ Shell!Wake <= dueIn.video
        /\ dueIn.render \in Int /\ dueIn.bg \in Int /\ dueIn.video \in Int
    BY <1>t, WakeBounds
  <2>2. dueIn'.render \in Int /\ dueIn'.bg \in Int /\ dueIn'.video \in Int /\ nap' \in Int
    BY <1>4, <1>5 DEF ShellTyped
  <2>3. nap' <= dueIn'.render /\ nap' <= dueIn'.bg /\ nap' <= dueIn'.video
    BY <1>4, <1>6, <1>t, <2>1, <2>2
  <2>4. ShellTyped' => (nap' <= Shell!Wake')
    BY <2>2, <2>3 DEF Shell!Wake, Shell!Lowest
  <2> QED
    BY <1>5, <1>6, <1>t, <2>4
<1>10. LaidOut'
  BY <1>1 DEF ShellInv, LaidOut, Shell!Desktop
<1> QED
  BY <1>5, <1>8, <1>9, <1>10 DEF ShellInv

\* Every step keeps the invariant, and draws at the window's size if it draws.
LEMMA ShellInductive ==
    ASSUME ShellInv, [Shell!Next]_(Shell!vars)
    PROVE  /\ ShellInv'
           /\ redraw /\ nap' = Shell!None /\ sizes'.next = sizes.next /\ happened' = happened
              /\ ~(UNCHANGED Shell!vars) => Shell!RedrawRequested
<1>1. CASE Shell!Loop
  <2>1. CASE Shell!WakesUp
    <3>1. /\ nap' = Shell!None /\ UNCHANGED <<shell, window, sizes, guestIs, dueIn, redraw, happened>>
          /\ ~redraw
      BY <2>1 DEF Shell!WakesUp
    <3> QED
      BY <3>1, Intervals DEF ShellInv, ShellTyped, FrameIsNear, SleepsUntilDue, LaidOut, Shell!Desktop,
         Shell!Awake
  <2>2. CASE Shell!Tick
    BY <2>2, TickStep DEF Shell!Tick
  <2>3. CASE Shell!AboutToWait \/ Shell!Resized \/ Shell!RedrawRequested
    BY <2>3, WaitStep, ResizedStep, FrameStep
  <2> QED
    BY <1>1, <2>1, <2>2, <2>3 DEF Shell!Loop
<1>2. CASE UNCHANGED Shell!vars
  BY <1>2 DEF Shell!vars, ShellInv, ShellTyped, FrameIsNear, SleepsUntilDue, LaidOut, Shell!Desktop,
     Shell!Awake, Shell!Wake
<1>3. CASE Shell!Next /\ ~Shell!Loop
  BY <1>3, UserStep DEF Shell!Next
<1> QED
  BY <1>1, <1>2, <1>3 DEF Shell!Next

LEMMA ShellInitially == Shell!Init => ShellInv
<1> SUFFICES ASSUME Shell!Init PROVE ShellInv
  OBVIOUS
<1>1. /\ shell \in [platform : Platforms, guest : Guests, state : {"runs", "exited"}]
      /\ sizes \in [drawn : Int, told : Int, next : Int]
      /\ dueIn \in [render : Int, bg : Int, video : Int, call : Int]
      /\ window = Shell!None /\ nap = Shell!None /\ guestIs = "absent" /\ redraw = FALSE /\ happened = 0
  BY Intervals DEF Shell!Init
<1>2. Shell!None \in Int /\ redraw \in BOOLEAN /\ happened \in Nat
  <2>1. Shell!None \in Int
    BY DEF Shell!None
  <2>2. happened \in Nat
    BY <1>1
  <2> QED
    BY <1>1, <2>1, <2>2, Zenon
<1>3. ShellTyped
  BY <1>1, <1>2 DEF ShellTyped
<1> QED
  BY <1>1, <1>3 DEF ShellInv, FrameIsNear, SleepsUntilDue, LaidOut, Shell!Awake

\* No deadline of the engine, of a video or of a frame passes while the loop sleeps,
\* a callback is late by the longest sleep at most, and a desktop's frame has its
\* window's size.
THEOREM WindowServed == HostSpec => WindowIsServed
<1> DEFINE Fits == redraw /\ nap' = Shell!None /\ sizes'.next = sizes.next /\ Shell!Desktop
                     /\ window' = window /\ window # 0 /\ guestIs = "sound" /\ happened' = happened
                     => sizes'.drawn = window /\ sizes'.told = window
<1>1. ShellInv => Shell!DeadlinesAreKept
  <2> SUFFICES ASSUME ShellInv, Shell!Awake, ~redraw, nap # Shell!None
               PROVE  /\ dueIn.bg >= 0 /\ dueIn.video >= 0 /\ dueIn.render >= 0
                      /\ dueIn.call >= -SleepCap
    BY DEF Shell!DeadlinesAreKept
  <2>1. /\ dueIn.render \in Int /\ dueIn.bg \in Int /\ dueIn.video \in Int /\ dueIn.call \in Int
        /\ nap \in Int
    BY DEF ShellInv, ShellTyped
  <2>2. 0 <= nap /\ nap <= Shell!Wake /\ dueIn.render - SleepCap <= dueIn.call
    BY DEF ShellInv, SleepsUntilDue, FrameIsNear
  <2> QED
    BY <2>1, <2>2, WakeBounds, Intervals DEF ShellInv
<1>2. ShellInv /\ [Shell!Next]_(Shell!vars) => [Fits]_(Shell!vars)
  BY ShellInductive, FrameStep
<1>3. ShellInv /\ [Shell!Next]_(Shell!vars) => ShellInv'
  BY ShellInductive
<1> QED
  BY <1>1, <1>2, <1>3, ShellInitially, PartsImplemented, PTL
     DEF Shell!Spec, WindowIsServed, Shell!FrameFitsWindow
=============================================================================
