------------------------------ MODULE HostVideo ------------------------------
(***************************************************************************)
(* The video layer of a host: playback on a desktop, the camera encoder of *)
(* a desktop's call, and a phone's surfaces, self-view and codec.  They    *)
(* run on different hosts or share no state: part says which of them a     *)
(* behaviour is about, and the others stay as they start.                  *)
(***************************************************************************)
EXTENDS DesktopVideo

CONSTANTS
    MaxPictures, MaxOpens, MaxRequests,                          \* CallVideo
    Slots, Panel, Rects, Turns, Contents, Sensors, Inputs,       \* AndroidVideo
    Outputs, Sizes, MaxTurns, MaxCodecs, MaxEmbedded, MaxHeld

VARIABLES
    part,                                                        \* which one runs
    caller, thread, stop, shot, latest, lastSeq, force, chunk, asked,
    preview, requests, openings,                                 \* CallVideo
    facing, slots, registry, handles, nextSurf, dec, alive, pool, frames,
    enc                                                          \* AndroidVideo

callVars == <<caller, thread, stop, shot, latest, lastSeq, force, chunk, asked,
              preview, requests, openings>>
phoneVars == <<facing, slots, registry, handles, nextSurf, dec, alive, pool, frames, enc>>

Call == INSTANCE CallVideo
Phone == INSTANCE AndroidVideo WITH MaxOpens <- MaxCodecs, MaxSurfaces <- MaxEmbedded

ASSUME Constants ==
    ConstantsOK /\ Call!ConstantsOK /\ Phone!ConstantsOK

HostInit ==
    /\ part \in {"play", "call", "phone"}
    /\ Init /\ Call!Init /\ Phone!Init

\* A step of one part leaves the others alone.
OfPlay(A) == part = "play" /\ A /\ UNCHANGED <<part, callVars, phoneVars>>
OfCall(A) == part = "call" /\ A /\ UNCHANGED <<part, vars, phoneVars>>
OfPhone(A) == part = "phone" /\ A /\ UNCHANGED <<part, vars, callVars>>

HostNext ==
    \/ OfPlay(Next)
    \/ OfCall(Call!Next)
    \/ OfPhone(Phone!Next)

hostVars == <<part, vars, callVars, phoneVars>>

\* Nothing is assumed of any thread.
HostSpec == HostInit /\ [][HostNext]_hostVars

\* The fairness of the modules' FairSpec; only one part runs in a behaviour.
GoesOn ==
    \/ OfPlay(Playback)
    \/ OfCall(Call!CaptureThread)
    \/ OfPhone(Phone!Drain)
Polls ==
    \/ OfCall(Call!DropEnds)
    \/ OfPhone(Phone!EncNext)
Fair == WF_hostVars(GoesOn) /\ WF_hostVars(Polls)

-----------------------------------------------------------------------------
(* The properties, under the names they have in their modules; those of      *)
(* DesktopVideo are inherited.                                               *)

\* A call is sent ever newer pictures, after a keyframe request the keyframe
\* first; its camera is released when nobody holds it.
CallIsServed == Call!ChunksServeTheCall /\ []Call!CameraIsReleased

\* Every output buffer the codec has given out is with the guest.
BuffersAreAccounted == Phone!IndicesAccounted

\* Pictures are where the guest asked and upright, the self-view too.
PicturesAreInPlace == Phone!PlacedWhereAsked /\ Phone!PicturesAreUpright

\* Playback comes to its end, dropping a call's encoder returns, a chunk gets
\* into the codec in the end, and a turn of the device reaches the self-view.
VideoGoesOn ==
    /\ PlaybackGoesOn /\ Call!DropReturns
    /\ Phone!ChunksGetIn /\ Phone!SelfViewFollows
=============================================================================
