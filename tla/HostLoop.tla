------------------------------ MODULE HostLoop ------------------------------
(***************************************************************************)
(* A host's loop: how the process comes to it, when the standalone loop    *)
(* wakes and renders, what its stages deliver to the guest, and the        *)
(* windowed host's loop.  They share no state: part says which one a       *)
(* behaviour is about, and the others stay as they start.                  *)
(***************************************************************************)
EXTENDS LoopPacing, Sequences

CONSTANTS
    Conns, MaxCallbacks, MaxDelay, MaxLines, MaxInputs, IdleTurns,   \* LoopEvents
    Platforms, Guests, Sizes, Floor, SleepCap,                       \* DesktopShell
    BgMin, BgDefault, BgMax, Delays, MaxEvents,
    Launches, MaxAttempts, MaxValue, MaxBoots                        \* HostStart

VARIABLES
    part,                                                      \* which one runs
    conn, backlog, gate, queue, lines, channel, made, timers,  \* LoopEvents
    revoked, fired, turn, host,
    shell, window, sizes, guestIs, life, dueIn, redraw, nap, happened, \* DesktopShell
    launch, stage, tries, surface, insets, sock, inbox, heard, arbiter \* HostStart

eventVars == <<conn, backlog, gate, queue, lines, channel, made, timers,
               revoked, fired, turn, host>>
shellVars == <<shell, window, sizes, guestIs, life, dueIn, redraw, nap, happened>>
startVars == <<launch, stage, tries, surface, insets, sock, inbox, heard, arbiter>>

Events == INSTANCE LoopEvents WITH IdleCap <- IdleTurns
Shell == INSTANCE DesktopShell WITH IdleCap <- SleepCap
Start == INSTANCE HostStart WITH pc <- stage

ASSUME Constants == Events!ConstantsOK /\ Shell!ConstantsOK /\ Start!ConstantsOK

HostInit ==
    /\ part \in {"pacing", "events", "shell", "start"}
    /\ Init /\ Events!Init /\ Shell!Init /\ Start!Init

OfPacing(A) == part = "pacing" /\ A /\ UNCHANGED <<part, eventVars, shellVars, startVars>>
OfEvents(A) == part = "events" /\ A /\ UNCHANGED <<part, vars, shellVars, startVars>>
OfShell(A) == part = "shell" /\ A /\ UNCHANGED <<part, vars, eventVars, startVars>>
OfStart(A) == part = "start" /\ A /\ UNCHANGED <<part, vars, eventVars, shellVars>>

HostNext ==
    \/ OfPacing(Next)
    \/ OfEvents(Events!Next)
    \/ OfShell(Shell!Next)
    \/ OfStart(Start!Next)

hostVars == <<part, vars, eventVars, shellVars, startVars>>

\* Nothing is assumed of any thread.
HostSpec == HostInit /\ [][HostNext]_hostVars

\* The fairness of the modules' FairSpec; only one part runs in a behaviour.
LoopRuns == OfPacing(Iterate) \/ OfEvents(Events!Iterate) \/ OfStart(Start!Starting)
Listening == OfEvents(Events!Listen)
Closing == OfEvents(Events!HangsUp)

Fair == WF_hostVars(LoopRuns) /\ WF_hostVars(Listening) /\ WF_hostVars(Closing)

-----------------------------------------------------------------------------
(* The properties, under the names they have in their modules; those of      *)
(* LoopPacing are inherited.                                                 *)
BlankPanelIsInert == Events!BlankPanelIsInert
StartsInStep == Start!StartsInStep

\* In the foreground frames are drawn, at once after a promotion, and a service
\* is pumped.
LoopServesTheGuest == FramesKeepComing /\ PumpKeepsRunning /\ PromotionIsDrawn

\* Lines are handled once and in the order they came over their connection, and
\* every callback is pending, cancelled or fired.
NothingIsLost == Events!LinesInOrder /\ Events!CallbacksAccounted

\* Callbacks fire and lines are handled in the end, a trapped host exits, and a
\* launch comes to its loop or its end.
NobodyIsLeftWaiting ==
    /\ Events!DeliveredInTheEnd /\ Events!TrappedHostExits
    /\ part = "start" => Start!StartsOrEnds

\* A window's loop wakes for its earliest deadline, and draws at the size the
\* window has.
WindowIsServed == []Shell!DeadlinesAreKept /\ Shell!FrameFitsWindow
=============================================================================
