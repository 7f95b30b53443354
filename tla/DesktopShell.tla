---------------------------- MODULE DesktopShell ----------------------------
(***************************************************************************)
(* The windowed host (App in lib.rs): one thread that gets the window      *)
(* system's events, draws when a redraw was requested, and sleeps until    *)
(* the earliest deadline it knows.  On a desktop the window stays; on      *)
(* Android's activity it goes when the app is suspended and comes back.    *)
(*                                                                         *)
(* Time passes while the loop sleeps, or has no window to draw in.         *)
(***************************************************************************)
EXTENDS Integers

CONSTANTS
    Platforms,    \* of "desktop" and "android"
    Guests,       \* kinds of guest: whether it exports bg-tick and frame-pacing
    Sizes,        \* window sizes, 0: minimised
    Floor, IdleCap,  \* RENDER_FLOOR_MS, IDLE_CAP_MS
    BgMin, BgDefault, BgMax,  \* the bounds of bg-tick's delay
    Delays,       \* what a guest answers or schedules
    MaxEvents     \* bound: events of the user and of the window system

None == -1          \* no window, no sleep
Never == 99         \* no deadline: every one there is lies nearer

ConstantsOK ==
    /\ Platforms \subseteq {"desktop", "android"}
    /\ Guests \subseteq [bg : BOOLEAN, paced : BOOLEAN]
    /\ Sizes \cup Delays \cup {MaxEvents, Floor, IdleCap, BgMin, BgDefault, BgMax} \subseteq Nat
    /\ 0 < Floor /\ Floor <= IdleCap /\ 0 < BgMin /\ BgMin <= BgDefault /\ BgDefault <= BgMax
    /\ \A d \in Delays \cup {IdleCap, BgMax} : d < Never

VARIABLES
    shell,     \* platform, guest; state: "runs" or "exited"
    window,    \* its size, None: closed
    sizes,     \* the renderer's, the one the guest was told, a Resized to come
    guestIs,   \* "absent", "sound", or "poisoned" by a trap
    life,      \* LifecycleState: current, pending; seen: what the guest got last
    dueIn,     \* time to each deadline: render, bg, video, call
    redraw,    \* a redraw has been requested
    nap,       \* time until the loop wakes, None: it is awake
    happened   \* events so far

vars == <<shell, window, sizes, guestIs, life, dueIn, redraw, nap, happened>>
-----------------------------------------------------------------------------
Lowest(a, b) == IF a < b THEN a ELSE b
Highest(a, b) == IF a > b THEN a ELSE b
Clamp(x, lo, hi) == Lowest(Highest(x, lo), hi)
Awake == shell.state = "runs" /\ window # None
Desktop == shell.platform = "desktop"

Init ==
    /\ shell \in [platform : Platforms, guest : Guests, state : {"runs"}]
    /\ window = None
    /\ sizes = [drawn |-> None, told |-> None, next |-> None]
    /\ guestIs = "absent"
    /\ life = [current |-> "none", pending |-> "none", seen |-> "none"]
    /\ dueIn = [render |-> 0, bg |-> Never, video |-> Never, call |-> Never]
    /\ redraw = FALSE /\ nap = None /\ happened = 0

\* An event of the user or the window system, of which there are MaxEvents.
Event == shell.state = "runs" /\ happened < MaxEvents /\ happened' = happened + 1 /\ nap' = None

(* set_lifecycle: on Android, and only if the state is another one.          *)
SetLifecycle(state) ==
    life' = IF ~Desktop /\ guestIs # "absent" /\ life.current # state
            THEN [life EXCEPT !.current = state,
                              !.seen = IF guestIs = "sound" THEN state ELSE @]
            ELSE life

(* resumed: the first time with a new store, later with a new renderer in it. *)
Resumed(size) ==
    /\ Event /\ window = None /\ (Desktop => guestIs = "absent") /\ size # 0
    /\ window' = size /\ redraw' = TRUE
    /\ IF guestIs = "absent"
       THEN /\ guestIs' = "sound"
            /\ life' = [current |-> "Resumed", pending |-> "Resumed", seen |-> "none"]
            /\ dueIn' = [dueIn EXCEPT !.render = 0, !.bg = IF shell.guest.bg THEN 0 ELSE Never]
            /\ sizes' = [drawn |-> size, told |-> size, next |-> None]
       ELSE /\ SetLifecycle("Resumed") /\ sizes' = [sizes EXCEPT !.drawn = size]
            /\ UNCHANGED <<guestIs, dueIn>>
    /\ UNCHANGED shell

(* suspended: the guest hears of it while the renderer is still valid.        *)
Suspended ==
    /\ Event /\ ~Desktop /\ window # None
    /\ SetLifecycle("Stopped")
    /\ window' = None /\ redraw' = FALSE
    /\ UNCHANGED <<shell, sizes, guestIs, dueIn>>

(* The user brings the window to the front or leaves it.                      *)
Focused(focused) ==
    /\ Event /\ window # None
    /\ SetLifecycle(IF focused THEN "Resumed" ELSE "Paused")
    /\ UNCHANGED <<shell, window, sizes, guestIs, dueIn, redraw>>

CloseRequested ==
    /\ Event /\ window # None
    /\ shell' = [shell EXCEPT !.state = "exited"]
    /\ UNCHANGED <<window, sizes, guestIs, life, dueIn, redraw>>

(* The compositor gives the window another size and may or may not say so.    *)
Resizes(size, said) ==
    /\ Event /\ window # None /\ window' = size
    /\ sizes' = IF said THEN [sizes EXCEPT !.next = size] ELSE sizes
    /\ UNCHANGED <<shell, guestIs, life, dueIn, redraw>>

Resized ==
    /\ Awake /\ sizes.next # None
    /\ sizes' = [drawn |-> sizes.next, next |-> None,
                 told |-> IF guestIs = "sound" THEN sizes.next ELSE sizes.told]
    /\ redraw' = TRUE /\ nap' = None
    /\ UNCHANGED <<shell, window, guestIs, life, dueIn, happened>>

(* What a call into the guest may do: schedule a callback, trap.              *)
Scheduled(calls) == {calls} \cup (IF calls = Never THEN Delays ELSE {})

(* A touch, like a button and the wheel, asks for a frame; a key, like a move of
   the cursor, does not.                                                      *)
Input(kind) ==
    /\ Event /\ window # None
    /\ redraw' = (redraw \/ kind = "touch")
    /\ IF guestIs = "sound"
       THEN /\ guestIs' \in {"sound", "poisoned"}
            /\ \E c \in Scheduled(dueIn.call) : dueIn' = [dueIn EXCEPT !.call = c]
       ELSE UNCHANGED <<guestIs, dueIn>>
    /\ UNCHANGED <<shell, window, sizes, life>>
-----------------------------------------------------------------------------

\* Mutant: only a Resized event changes the size.
MutantReconciled == sizes

(* The desktop looks at the window's size itself, before each frame.          *)
Reconciled ==
    IF Desktop /\ window # 0 /\ window # sizes.drawn
    THEN [sizes EXCEPT !.drawn = window, !.told = IF guestIs = "sound" THEN window ELSE @]
    ELSE sizes

(* The frame's calls: background, callbacks, the frame, a pending lifecycle   *)
(* state once it succeeded, pacing.  A trap before the frame poisons the      *)
(* instance, and the frame's refusal is passed over; a trap in it is fatal.   *)
Outcomes == IF guestIs = "sound" THEN {"ok", "before", "fatal", "after"} ELSE {"refused"}

NextBg(delay) ==
    IF ~shell.guest.bg \/ dueIn.bg > 0 THEN dueIn.bg ELSE Clamp(delay, BgMin, BgMax)

NextRender(delay) == Clamp(IF shell.guest.paced THEN delay ELSE 0, Floor, IdleCap)

\* When the guest presents its canvas, due frames of a video are drained.
NextVideo(drawn) ==
    {dueIn.video} \cup
    (IF drawn /\ (dueIn.video <= 0 \/ dueIn.video = Never) THEN Delays \cup {Never} ELSE {})

NextCalls(refused) ==
    IF dueIn.call > 0 THEN IF refused THEN {dueIn.call} ELSE Scheduled(dueIn.call)
    ELSE IF refused THEN {Never} ELSE {Never} \cup Delays

\* What of it fails falls back to the defaults.
RedrawRequested ==
    /\ Awake /\ redraw
    /\ nap' = None
    /\ redraw' = (Reconciled # sizes)
    /\ sizes' = Reconciled
    /\ \E outcome \in Outcomes :
         /\ guestIs' = IF outcome = "ok" THEN "sound" ELSE "poisoned"
         /\ shell' = [shell EXCEPT !.state = IF outcome = "fatal" THEN "exited" ELSE @]
         /\ life' = IF outcome \in {"ok", "after"} /\ life.pending # "none"
                    THEN [life EXCEPT !.seen = life.pending, !.pending = "none"] ELSE life
         /\ \E delay \in (IF outcome = "ok" THEN Delays ELSE {0}),
              bgDelay \in {BgDefault} \cup (IF outcome = "refused" THEN {} ELSE Delays),
              c \in NextCalls(outcome = "refused"),
              v \in NextVideo(outcome \in {"ok", "after"}) :
                dueIn' = [render |-> NextRender(delay), bg |-> NextBg(bgDelay),
                          call |-> c, video |-> v]
    /\ UNCHANGED <<window, happened>>

Wake == Lowest(dueIn.render, Lowest(dueIn.bg, dueIn.video))

(* about_to_wait: a redraw when a deadline has come, else sleep until it.     *)
AboutToWait ==
    /\ Awake /\ nap = None
    /\ redraw' = (redraw \/ Wake <= 0)
    /\ nap' = Highest(Wake, 0)
    /\ UNCHANGED <<shell, window, sizes, guestIs, life, dueIn, happened>>

WakesUp ==
    /\ Awake /\ nap = 0 /\ ~redraw
    /\ nap' = None
    /\ UNCHANGED <<shell, window, sizes, guestIs, life, dueIn, redraw, happened>>

Later(left) == IF left = Never THEN Never ELSE Highest(left - 1, -(IdleCap + 1))

Tick ==
    /\ shell.state = "runs" /\ ~redraw /\ (window = None \/ nap > 0)
    /\ nap' = IF window = None THEN None ELSE nap - 1
    /\ dueIn' = [d \in DOMAIN dueIn |-> Later(dueIn[d])]
    /\ UNCHANGED <<shell, window, sizes, guestIs, life, redraw, happened>>

Loop == Resized \/ RedrawRequested \/ AboutToWait \/ WakesUp \/ Tick

Next ==
    \/ \E size \in Sizes : Resumed(size) \/ Resizes(size, TRUE) \/ Resizes(size, FALSE)
    \/ Suspended \/ CloseRequested
    \/ \E f \in BOOLEAN : Focused(f)
    \/ \E kind \in {"touch", "key"} : Input(kind)
    \/ Loop

Spec == Init /\ [][Next]_vars
FairSpec == Spec /\ WF_vars(Loop)
-----------------------------------------------------------------------------
(* Types.                                                                     *)
TypeOK ==
    /\ shell \in [platform : Platforms, guest : Guests, state : {"runs", "exited"}]
    /\ window \in Sizes \cup {None} /\ nap \in Int /\ redraw \in BOOLEAN
    /\ sizes \in [{"drawn", "told", "next"} -> Sizes \cup {None}]
    /\ guestIs \in {"absent", "sound", "poisoned"}
    /\ life \in [{"current", "pending", "seen"} -> {"none", "Resumed", "Paused", "Stopped"}]
    /\ dueIn \in [{"render", "bg", "video", "call"} -> Int] /\ happened \in 0..MaxEvents

(* A deadline is kept: as long as there is a window the background engine and *)
(* a scheduled video frame are never overdue without a redraw being under     *)
(* way, and a callback, which is no reason to wake, is late by IdleCap at most.*)
DeadlinesAreKept ==
    Awake /\ ~redraw /\ nap # None =>
        /\ dueIn.bg >= 0 /\ dueIn.video >= 0 /\ dueIn.render >= 0
        /\ dueIn.call >= -IdleCap

(* A frame of a desktop is drawn, and its guest has laid out, at the size the *)
(* window has at that moment, whether or not the compositor announced it.     *)
FrameFitsWindow ==
    [][redraw /\ nap' = None /\ sizes'.next = sizes.next /\ Desktop /\ window' = window
       /\ window # 0 /\ guestIs = "sound" /\ happened' = happened
         => sizes'.drawn = window /\ sizes'.told = window]_vars

(* "No-op if the new state matches what the guest last saw": the state the    *)
(* host compares with is the one the guest saw last.                          *)
HostKnowsWhatGuestSaw ==
    guestIs = "sound" /\ life.pending = "none" => life.seen = life.current

(* "Input/resize events request their own redraw".                            *)
InputIsDrawn == [][Input("key") => redraw']_vars
=============================================================================
