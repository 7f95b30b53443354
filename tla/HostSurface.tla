---------------------------- MODULE HostSurface ----------------------------
(***************************************************************************)
(* What hosts show: the geometry of a surface, the roles of the hosts      *)
(* beside each other, and what a guest draws: frames, layers and text.     *)
(* They share no state: part says which one a behaviour is about, and the  *)
(* others stay as they start.                                              *)
(***************************************************************************)
EXTENDS LoopGeometry

CONSTANTS
    Hosts, NoHost, FocusEvery, MaxOrders, Paced,                     \* HostRoles
    Presenters, Sizes, MaxDepth, MaxFrames,                          \* CanvasFrame
    Canvases, Prints, Layers, Marks, MaxCaptures,                    \* CanvasScene
    Families, Bundled, Installed, Readable, Assets, MaxOps, MaxResumes \* TextFonts

VARIABLES
    part,                                                         \* which one runs
    wanted, orders, sigs, role, host, life, layers, focus,        \* HostRoles
    live, buffer, stack, under, frame, clips, shown, frames,      \* CanvasFrame
    canvas, print, layer, guest,                                  \* CanvasScene
    fonts, assets, builder, text, resumes                         \* TextFonts

roleVars == <<wanted, orders, sigs, role, host, life, layers, focus>>
frameVars == <<live, buffer, stack, under, frame, clips, shown, frames>>
sceneVars == <<canvas, print, layer, guest>>
textVars == <<fonts, assets, builder, text, resumes>>

Apps == INSTANCE HostRoles WITH surface <- layers
Picture == INSTANCE CanvasFrame WITH surface <- buffer, guest <- clips, count <- frames
Scene == INSTANCE CanvasScene
Text == INSTANCE TextFonts

ASSUME Constants ==
    Apps!ConstantsOK /\ Picture!ConstantsOK /\ Scene!ConstantsOK /\ Text!ConstantsOK

HostInit ==
    /\ part \in {"geometry", "roles", "frames", "scene", "text"}
    /\ Init /\ Apps!Init /\ Picture!Init /\ Scene!Init /\ Text!Init

OfGeometry(A) ==
    part = "geometry" /\ A /\ UNCHANGED <<part, roleVars, frameVars, sceneVars, textVars>>
OfRoles(A) == part = "roles" /\ A /\ UNCHANGED <<part, vars, frameVars, sceneVars, textVars>>
OfFrames(A) == part = "frames" /\ A /\ UNCHANGED <<part, vars, roleVars, sceneVars, textVars>>
OfScene(A) == part = "scene" /\ A /\ UNCHANGED <<part, vars, roleVars, frameVars, textVars>>
OfText(A) == part = "text" /\ A /\ UNCHANGED <<part, vars, roleVars, frameVars, sceneVars>>

HostNext ==
    \/ OfGeometry(Next)
    \/ OfRoles(Apps!Next)
    \/ OfFrames(Picture!Next)
    \/ OfScene(Scene!Next)
    \/ OfText(Text!Next)

hostVars == <<part, vars, roleVars, frameVars, sceneVars, textVars>>

\* Nothing is assumed of any thread.
HostSpec == HostInit /\ [][HostNext]_hostVars

\* The fairness of LoopGeometry!FairSpec and HostRoles!FairSpec.
Fair ==
    /\ WF_hostVars(OfGeometry(Iterate))
    /\ \A h \in Hosts :
         /\ WF_hostVars(OfRoles(Apps!Iterate(h)))
         /\ \A order \in Apps!Roles : WF_hostVars(OfRoles(Apps!Deliver(h, order)))

-----------------------------------------------------------------------------
(* The properties, under the names they have in their modules; those of    *)
(* LoopGeometry are inherited.                                             *)
GuestIsNotMisled == Apps!GuestIsNotMisled
BuiltAsWritten == Text!BuiltAsWritten

\* Orders settle: in the roles of the hosts, in the focus of the one the arbiter
\* left in the foreground, and in the orientation of the loop.
OrdersSettle == Apps!RolesSettle /\ Apps!FocusSettles /\ FlipsAreApplied

\* Layers are counted as often as pictures hold them, and a scene whose layers
\* and pictures are all dropped is freed.
ScenesAreCounted == Scene!CapturesAccounted /\ Scene!DroppedSceneIsFreed

\* Every frame a tidy guest begins is its own, and every one shown is whole.
FramesAreWhole == Picture!FramesStartClean /\ Picture!ShownIsWhole
=============================================================================
