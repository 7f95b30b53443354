----------------------------- MODULE LoopPacing -----------------------------
(***************************************************************************)
(* How often the standalone render loop wakes, pumps a background service  *)
(* and renders: the deadlines next_render_at and next_bg_tick_at, the doze *)
(* cadence and the nap of run_cwasm_loop (standalone.rs).                  *)
(*                                                                         *)
(* A deadline is kept as the time left until it, 0 once it has passed.     *)
(* Time passes during guest calls (up to MaxWork) and during the nap.      *)
(***************************************************************************)
EXTENDS Naturals, FiniteSetsExt

CONSTANTS
    Poll, IdlePoll, BgPoll,   \* POLL_MS, IDLE_POLL_MS, BG_POLL_MS
    IdleAfter,                \* IDLE_AFTER_MS
    IdleCap,                  \* IDLE_CAP_MS
    TickMin,                  \* BG_TICK_MIN_MS
    FrameInterval,            \* frame_interval, from target_fps
    WarmUp,                   \* iterations that render unconditionally
    Cadences,                 \* doze cadences the arbiter pushes, 0: awake
    Services,                 \* whether guests export bg-tick and declare it
    MaxWork                   \* bound: time one guest call takes

ASSUME CadencesAssumption == Cadences \subseteq Nat /\ 0 \in Cadences
ASSUME PollsAssumption == {Poll, IdlePoll, BgPoll, TickMin, FrameInterval}
                              \subseteq Nat \ {0}
ASSUME CapsAssumption == {IdleAfter, IdleCap, WarmUp, MaxWork} \subseteq Nat
                            /\ TickMin <= IdleCap
ASSUME ServicesAssumption == Services \subseteq BOOLEAN /\ Services # {}

VARIABLES
    bgService, \* bg_service, fixed when the guest is instantiated
    pc,        \* where the loop is
    role,      \* the ROLE atomic: "bg", or "fg" for either visible role
    loop,      \* cur_role and last_role, dirty, the frame count
    doze,      \* doze_cadence_ms
    left,      \* time left until next_render_at and next_bg_tick_at
    idle,      \* time since last_activity, up to IdleAfter
    did        \* history: what this iteration did, and whether it took time

vars == <<bgService, pc, role, loop, doze, left, idle, did>>

Roles == {"fg", "bg"}
Horizon == Max(Cadences \union {IdleCap, FrameInterval})

TypeOK ==
    /\ bgService \in Services
    /\ pc \in {"wake", "pump", "render", "stretch", "nap", "gone"}
    /\ role \in Roles
    /\ loop \in [cur : Roles, last : Roles \union {"none"}, dirty : BOOLEAN,
                 frame : 0..WarmUp]
    /\ doze \in Cadences
    /\ left \in [render : 0..Horizon, tick : 0..IdleCap]
    /\ idle \in 0..IdleAfter
    /\ did \in [pump : BOOLEAN, render : BOOLEAN, time : BOOLEAN]

Init ==
    /\ bgService \in Services
    /\ pc = "wake" /\ role \in Roles
    /\ loop = [cur |-> "fg", last |-> "none", dirty |-> FALSE, frame |-> 0]
    /\ doze = 0
    /\ left = [render |-> 0, tick |-> 0]
    /\ idle = 0
    /\ did = [pump |-> FALSE, render |-> FALSE, time |-> TRUE]

-----------------------------------------------------------------------------
Monus(a, b) == IF a > b THEN a - b ELSE 0   \* saturating_duration_since
Least(a, b) == IF a < b THEN a ELSE b
Most(a, b)  == IF a > b THEN a ELSE b

After(d, t) == [render |-> Monus(d.render, t), tick |-> Monus(d.tick, t)]

\* The arbiter changes the role at any time.
SetRole(r) ==
    /\ pc # "gone" /\ role # r
    /\ role' = r
    /\ UNCHANGED <<bgService, pc, loop, doze, left, idle, did>>

\* Top of the loop: role transition, then input, inbound events and due
\* callbacks.  Each of them marks the iteration dirty, a doze push included.
Wake(event, cadence) ==
    /\ pc = "wake" /\ pc' = "pump"
    /\ cadence # doze => event
    /\ loop' = [loop EXCEPT !.cur = role, !.last = role,
                            !.dirty = event \/ role # loop.last]
    /\ doze' = cadence
    /\ did' = [pump |-> FALSE, render |-> FALSE, time |-> FALSE]
    /\ UNCHANGED <<bgService, role, left, idle>>

\* should_shutdown() at the top, or a poisoned instance while rendering.
Exit ==
    /\ pc \in {"wake", "render"}
    /\ pc' = "gone"
    /\ UNCHANGED <<bgService, role, loop, doze, left, idle, did>>

PumpDue == bgService /\ left.tick = 0

\* The engine pump runs in every role; the guest picks the next delay.
BgTick(delay, work) ==
    /\ pc = "pump" /\ PumpDue
    /\ pc' = "render"
    /\ left' = [After(left, work) EXCEPT !.tick = delay]
    /\ idle' = Least(idle + work, IdleAfter)
    /\ did' = [did EXCEPT !.pump = TRUE, !.time = work > 0]
    /\ UNCHANGED <<bgService, role, loop, doze>>

NoBgTick ==
    /\ pc = "pump" /\ ~PumpDue
    /\ pc' = "render"
    /\ UNCHANGED <<bgService, role, loop, doze, left, idle, did>>

RenderDue ==
    /\ loop.cur # "bg"
    /\ loop.frame < WarmUp \/ left.render = 0 \/ loop.dirty

\* render_frame, then the guest's next delay, floored by the fps cap.
Render(delay, work) ==
    /\ pc = "render" /\ RenderDue
    /\ pc' = "stretch"
    /\ left' = [After(left, work) EXCEPT !.render = Most(delay, FrameInterval)]
    /\ idle' = Least(idle + work, IdleAfter)
    /\ did' = [did EXCEPT !.render = TRUE, !.time = @ \/ work > 0]
    /\ UNCHANGED <<bgService, role, loop, doze>>

NoRender ==
    /\ pc = "render" /\ ~RenderDue
    /\ pc' = "stretch"
    /\ UNCHANGED <<bgService, role, loop, doze, left, idle, did>>

\* Mutant: the doze holds back the pump as well.
MutantStretchBoth ==
    /\ pc = "stretch" /\ pc' = "nap"
    /\ left' = IF doze > 0 THEN [render |-> Most(left.render, doze),
                                  tick |-> Most(left.tick, doze)] ELSE left
    /\ loop' = [loop EXCEPT !.frame = Least(@ + 1, WarmUp)]
    /\ UNCHANGED <<bgService, role, doze, idle, did>>

\* While dozing the render deadline is pushed out in every iteration.
Stretch ==
    /\ pc = "stretch" /\ pc' = "nap"
    /\ left' = [left EXCEPT !.render = IF doze > 0 THEN Most(@, doze) ELSE @]
    /\ loop' = [loop EXCEPT !.frame = Least(@ + 1, WarmUp)]
    /\ UNCHANGED <<bgService, role, doze, idle, did>>

\* Mutant: the guard that keeps a hidden app's render deadline out of the nap
\* is dropped.
MutantNapGatedByRender(quiet) ==
    LET cap == IF loop.cur = "bg" THEN BgPoll
               ELSE IF quiet >= IdleAfter THEN IdlePoll ELSE Poll
        pump == IF bgService THEN left.tick ELSE cap
    IN  Least(cap, Least(left.render, pump))

\* The nap: the poll cap, cut short by the deadlines this loop will serve.
NapLength(quiet) ==
    LET cap == IF loop.cur = "bg" THEN BgPoll
               ELSE IF quiet >= IdleAfter THEN IdlePoll ELSE Poll
        render == IF loop.cur # "bg" THEN left.render ELSE cap
        pump == IF bgService THEN left.tick ELSE cap
    IN  Least(cap, Least(render, pump))

Nap ==
    /\ pc = "nap" /\ pc' = "wake"
    /\ LET quiet == IF loop.dirty THEN 0 ELSE idle
           nap == NapLength(quiet)
       IN  /\ left' = After(left, nap)
           /\ idle' = Least(quiet + nap, IdleAfter)
           /\ did' = [did EXCEPT !.time = @ \/ nap > 0]
    /\ UNCHANGED <<bgService, role, loop, doze>>

-----------------------------------------------------------------------------
Iterate ==
    \/ \E event \in BOOLEAN, cadence \in Cadences : Wake(event, cadence)
    \/ \E delay \in TickMin..IdleCap, work \in 0..MaxWork : BgTick(delay, work)
    \/ NoBgTick
    \/ \E delay \in 0..IdleCap, work \in 0..MaxWork : Render(delay, work)
    \/ NoRender
    \/ Stretch
    \/ Nap

Next ==
    \/ Iterate
    \/ Exit
    \/ \E r \in Roles : SetRole(r)

Spec == Init /\ [][Next]_vars

\* The loop thread keeps running: guest calls return and naps are bounded.
\* Nothing is owed by the arbiter, and events may never come.
FairSpec == Spec /\ WF_vars(Iterate)

-----------------------------------------------------------------------------
(* Safety.                                                                 *)

\* No busy spin: every iteration takes time, in guest work or in its nap,
\* whatever roles, doze pushes and events came before.  ("it sits in the past
\* and would zero the nap -> 100% busy-spin on every backgrounded process".)
EveryIterationTakesTime == pc = "wake" => did.time

(* Liveness.                                                               *)

Awake == pc # "gone" /\ role = "fg" /\ doze = 0

\* A guest that stays in the foreground, awake, is rendered again and again
\* even if no event ever comes and it asks for the longest delay.
FramesKeepComing == <>[]Awake => []<>(did.render)

\* A background service is pumped for ever, in every role and while dozing.
PumpKeepsRunning == bgService => <>(pc = "gone") \/ []<>(did.pump)

\* A switch to the foreground gets its frame, also in the middle of a doze.
PromotionIsDrawn ==
    role = "fg" /\ loop.last # "fg" ~> did.render \/ role = "bg" \/ pc = "gone"

-----------------------------------------------------------------------------
(* What the comments promise and the code does not keep.                   *)

\* standalone.rs:781-782, "we stretch the per-frame cadence (render AND bg-tick) to
\* that coarse value": a visible surface still renders, coarsely, while dozing.
DozedFramesStillCome == <>[](pc # "gone" /\ role = "fg") => []<>(did.render)
=============================================================================
