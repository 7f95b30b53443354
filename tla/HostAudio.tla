----------------------------- MODULE HostAudio ------------------------------
(***************************************************************************)
(* The audio layer of a host.  A host is built for a desktop or for a      *)
(* phone, a phone's host uses one of two backends, capture and playback of *)
(* a call share no state, nor do the controls with a backend: part says    *)
(* which of them a behaviour is about, and the others stay as they start.  *)
(***************************************************************************)
EXTENDS CallPump

CONSTANTS
    DeskKinds, Ratios, DeskCap, DeskBurst, DeskFrames,               \* DeskAudio
    TrackKinds, TrackCap, TrackBurst, Fifo, Behind, TrackOpens,      \* AAudioTrack
    RingCap, BufCap, Tick, CaptureFrames, CaptureOpens,              \* CallCapture
    MaxIndex, Ringers                                                \* AudioControls

VARIABLES
    part,                                                   \* which one runs
    stream, deskRing, cursor, carry, emitted, deskGuest, tally,   \* DeskAudio
    service, cached, track, lead, events, quiet, unheard, opens,  \* AAudioTrack
    mic, micRing, micBuf, micPump, since, recorded,       \* CallCapture
    server, host, applied, ports, call, ringer, joining     \* AudioControls

deskVars == <<stream, deskRing, cursor, carry, emitted, deskGuest, tally>>
aaudioVars == <<service, cached, track, lead, events, quiet, unheard, opens>>
captureVars == <<mic, micRing, micBuf, micPump, since, recorded>>
controlVars == <<server, host, applied, ports, call, ringer, joining>>

Desk == INSTANCE DeskAudio WITH
    Kinds <- DeskKinds, Cap <- DeskCap, Burst <- DeskBurst, MaxFrames <- DeskFrames,
    ring <- deskRing, written <- emitted, guest <- deskGuest, count <- tally
AAudio == INSTANCE AAudioTrack WITH
    Kinds <- TrackKinds, Cap <- TrackCap, Burst <- TrackBurst, MaxOpens <- TrackOpens
Capture == INSTANCE CallCapture WITH
    MaxFrames <- CaptureFrames, MaxOpens <- CaptureOpens, buf <- micBuf, pump <- micPump
Controls == INSTANCE AudioControls

ASSUME Constants ==
    /\ Desk!ConstantsOK /\ AAudio!ConstantsOK
    /\ Capture!ConstantsOK /\ Controls!ConstantsOK

HostInit ==
    /\ part \in {"pump", "desk", "aaudio", "capture", "controls"}
    /\ Init
    /\ Desk!Init /\ AAudio!Init /\ Capture!Init /\ Controls!Init

\* A step of one part leaves the others alone.
OfPump(A) ==
    part = "pump" /\ A
    /\ UNCHANGED <<part, deskVars, aaudioVars, captureVars, controlVars>>
OfDesk(A) ==
    part = "desk" /\ A
    /\ UNCHANGED <<part, vars, aaudioVars, captureVars, controlVars>>
OfAAudio(A) ==
    part = "aaudio" /\ A
    /\ UNCHANGED <<part, vars, deskVars, captureVars, controlVars>>
OfCapture(A) ==
    part = "capture" /\ A
    /\ UNCHANGED <<part, vars, deskVars, aaudioVars, controlVars>>
OfControls(A) ==
    part = "controls" /\ A
    /\ UNCHANGED <<part, vars, deskVars, aaudioVars, captureVars>>

HostNext ==
    \/ OfPump(Next)
    \/ OfDesk(Desk!Next)
    \/ OfAAudio(AAudio!Next)
    \/ OfCapture(Capture!Next)
    \/ OfControls(Controls!Next)

hostVars == <<part, vars, deskVars, aaudioVars, captureVars, controlVars>>
HostSpec == HostInit /\ [][HostNext]_hostVars

\* The threads of the controls run, as in AudioControls!FairSpec.
FairHostSpec ==
    /\ HostSpec
    /\ WF_hostVars(OfControls(Controls!Joined))
    /\ WF_hostVars(OfControls(Controls!ToneOpens))
    /\ WF_hostVars(OfControls(Controls!BuzzBegins))
    /\ \A k \in Ringers : WF_hostVars(OfControls(Controls!RingEnds(k)))

\* The jitter buffer alone, with the fairness of CallPump!FairSpec.
PumpInit == HostInit /\ part = "pump"
FairPumpSpec ==
    /\ PumpInit /\ [][HostNext]_hostVars
    /\ WF_hostVars(OfPump(GuestRest))
    /\ WF_hostVars(OfPump(Pump))
    /\ WF_hostVars(OfPump(ServerMap))
    /\ WF_hostVars(OfPump(ServerPlay))

-----------------------------------------------------------------------------
(* The properties, under the names they have in their modules; those of    *)
(* CallPump are inherited.                                                 *)
PartsTypeOK ==
    /\ TypeOK
    /\ Desk!TypeOK /\ AAudio!TypeOK /\ Capture!TypeOK /\ Controls!TypeOK

\* On a desktop what is written is played in order, without a gap where the device
\* runs no slower than the guest, and position() never goes back.  Captured at the
\* device's own rate, or for a call, the frames the guest has not read are the
\* newest: a full ring or buffer gives up its oldest.
FramesStayInOrder ==
    /\ []Desk!CursorInFirstFrame /\ Desk!NoFrameSkipped /\ Desk!PositionIsMonotone
    /\ []Desk!CaptureKeepsTheNewest /\ []Capture!CallKeepsTheNewest

\* A stream opens where the device can play its rate, and one that fails to open
\* leaves nothing behind.
StreamsOpenCleanly == Desk!MixFormatOpens /\ AAudio!NoStreamLeaks

\* Only a guest that stalls loses its stream, and what a write took after an
\* underrun is heard.
StreamsSurvive == AAudio!OnlyStallsSuspend /\ AAudio!TakenIsHeard

\* A call is routed to a device that sounds; a ringer that is stopped is silent,
\* and the stop returns.
CallsSoundAndRingersStop ==
    []Controls!CallIsAudible /\ []Controls!StoppedIsSilent /\ Controls!StopReturns

CaptureKeepsTheRate == Desk!CaptureKeepsTheRate
ReportedRouteIsApplied == Controls!ReportedRouteIsApplied
=============================================================================
