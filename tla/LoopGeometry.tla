---------------------------- MODULE LoopGeometry ----------------------------
(***************************************************************************)
(* Where a surface is, how large its guest believes it is, and which way   *)
(* up it is drawn: the overlay-height, orientation and geometry blocks of  *)
(* run_cwasm_loop (standalone.rs), with the renderer's logical size        *)
(* (canvas_impl.rs) and the overlay rectangle on SurfaceFlinger            *)
(* (sf_surface.rs).                                                        *)
(*                                                                         *)
(* The arbiter (external) pushes geometry and keyboard-inset lines; the    *)
(* loop handles a batch of them per iteration.  A change of orientation is *)
(* only recorded there and applied at the top of the next iteration.  The  *)
(* guest may ask for another overlay height in any call it gets.           *)
(***************************************************************************)
EXTENDS Integers, FiniteSets

CONSTANTS
    Settings,       \* hosts and what they meet: the OverlayMode, the chrome heights
                    \* pushed as <<top, bottom>>, Keep in it or not, and whether
                    \* sf_set_overlay_geometry may fail
    PanelW, PanelH, \* panel, portrait
    Keep,           \* GEOM_INSET_KEEP, GEOM_ORIENT_KEEP, or no orient yet
    Orients,        \* orientations the arbiter pushes
    Keyboards,      \* keyboard occlusions it pushes
    Heights,        \* overlay heights the guest asks for
    StartBars,      \* chrome heights known before the first push
    StartHeight,    \* overlay height at creation
    MaxBatch        \* bound: inbound events per iteration

Modes == {"None", "Lock", "Top", "BottomBar", "Bottom"}

ASSUME SettingsAssumption ==
    Settings \subseteq [mode : Modes, bars : SUBSET (Nat \X Nat), mayFail : BOOLEAN]
ASSUME OrientAssumption == Orients \subseteq 0..7 /\ Keep \notin 0..7
ASSUME SizeAssumption == {PanelW, PanelH, StartHeight} \union Heights \subseteq Nat \ {0}
ASSUME BarsAssumption == StartBars \in Nat \X Nat
ASSUME KeyboardsAssumption == Keyboards \subseteq Nat /\ MaxBatch \in Nat

VARIABLES
    env,      \* the setting of this host, fixed when it starts
    pc,       \* where the loop is
    batch,    \* inbound events still to handle in this iteration
    pending,  \* PENDING_OVERLAY_HEIGHT, 0: none
    strip,    \* strip_t, the overlay's thickness
    auth,     \* authoritative_orient, Keep: none yet
    chrome,   \* CHROME_SB_PX, CHROME_TB_PX
    rect,     \* the surface's rectangle on the panel
    r,        \* the renderer: buffer size, orientation, insets, keyboard
    told      \* the size in the last on_resize

vars == <<env, pc, batch, pending, strip, auth, chrome, rect, r, told>>

Overlays == {"Top", "BottomBar", "Bottom"}
Mode == env.mode
IsOverlay == Mode \in Overlays

-----------------------------------------------------------------------------
Rect(x, y, w, h) == [x |-> x, y |-> y, w |-> w, h |-> h]

\* recompute_transform: the insets come off the height after the rotation.
Logical(q) ==
    LET lw == IF q.orient >= 4 THEN q.h ELSE q.w
        lh == IF q.orient >= 4 THEN q.w ELSE q.h
        rest == lh - (q.top + q.bottom + q.kb)
    IN  <<lw, IF rest > 1 THEN rest ELSE 1>>

\* The strip an overlay must occupy on the user's edge of the panel.
OverlayRect(mode, orient, t, bars) ==
    LET th  == CASE mode = "Top" -> bars[1] [] mode = "BottomBar" -> bars[2]
                 [] OTHER -> t
        off == IF mode = "Bottom" THEN bars[2] ELSE 0
        userBottom == CASE orient = 3 -> "N" [] orient = 4 -> "W"
                        [] orient = 7 -> "E" [] OTHER -> "S"
        opposite == [N |-> "S", S |-> "N", W |-> "E", E |-> "W"]
        edge == IF mode = "Top" THEN opposite[userBottom] ELSE userBottom
    IN  IF mode \notin Overlays THEN Rect(0, 0, PanelW, PanelH)
        ELSE CASE edge = "S" -> Rect(0, PanelH - off - th, PanelW, th)
               [] edge = "N" -> Rect(0, off, PanelW, th)
               [] edge = "W" -> Rect(off, 0, th, PanelH)
               [] edge = "E" -> Rect(PanelW - off - th, 0, th, PanelH)

\* Creation: bars and the keyboard start at the portrait edge, full width.
StartRect ==
    CASE Mode = "Top" -> Rect(0, 0, PanelW, StartBars[1])
      [] Mode = "BottomBar" -> Rect(0, PanelH - StartBars[2], PanelW, StartBars[2])
      [] Mode = "Bottom" -> Rect(0, PanelH - StartHeight, PanelW, StartHeight)
      [] OTHER -> Rect(0, 0, PanelW, PanelH)

FlipPending == auth # Keep /\ auth # r.orient

TypeOK ==
    /\ env \in Settings
    /\ pc \in {"overlay", "orient", "inbound", "frame"}
    /\ batch \in 0..MaxBatch
    /\ pending \in Heights \union {0}
    /\ strip \in Nat
    /\ auth \in Orients \union {Keep}
    /\ chrome \in Nat \X Nat
    /\ rect \in [x : Int, y : Int, w : Nat, h : Nat]
    /\ r \in [w : Nat, h : Nat, orient : 0..7, top : Nat, bottom : Nat, kb : Nat]
    /\ told \in Nat \X (Nat \ {0})

Init ==
    /\ env \in Settings
    /\ pc = "overlay" /\ batch = 0
    /\ pending = 0
    /\ strip = StartRect.h
    /\ auth = Keep
    /\ chrome = StartBars
    /\ rect = StartRect
    /\ r = [w |-> StartRect.w, h |-> StartRect.h, orient |-> 0, kb |-> 0,
            top |-> IF Mode = "None" THEN StartBars[1] ELSE 0,
            bottom |-> IF Mode = "None" THEN StartBars[2] ELSE 0]
    /\ told = Logical(r)

-----------------------------------------------------------------------------
\* Mutant: the surface moves, the GL buffer stays.
MutantPlaceOnly(q, orient, t, ok) ==
    /\ rect' = IF IsOverlay /\ ok THEN OverlayRect(Mode, orient, t, chrome) ELSE rect
    /\ r' = q

\* set_overlay_geometry, then the GL buffer; neither when the shim refuses.
Place(q, orient, t, ok) ==
    IF IsOverlay /\ ok
    THEN /\ rect' = OverlayRect(Mode, orient, t, chrome)
         /\ r' = [q EXCEPT !.w = rect'.w, !.h = rect'.h]
    ELSE /\ rect' = rect
         /\ r' = q

\* request-overlay-height, from inside a guest call: the last one wins.
RequestHeight(h) ==
    /\ pending' = h
    /\ UNCHANGED <<env, pc, batch, strip, auth, chrome, rect, r, told>>

\* take_pending_overlay_resize: re-anchored at the current orientation.
TakeHeight(ok) ==
    /\ pc = "overlay" /\ pc' = "orient"
    /\ pending' = 0
    /\ IF pending > 0
       THEN /\ strip' = pending
            /\ Place(r, r.orient, pending, ok)
            /\ told' = IF IsOverlay /\ ok THEN Logical(r') ELSE told
       ELSE UNCHANGED <<strip, rect, r, told>>
    /\ UNCHANGED <<env, batch, auth, chrome>>

\* Mutant: the surface is placed for the orientation it had.
MutantFlipOldRect(ok) ==
    /\ pc = "orient" /\ pc' = "inbound"
    /\ IF FlipPending
       THEN /\ Place([r EXCEPT !.orient = auth], r.orient, strip, ok)
            /\ told' = Logical(r')
       ELSE UNCHANGED <<rect, r, told>>
    /\ batch' \in 0..MaxBatch
    /\ UNCHANGED <<env, pending, strip, auth, chrome>>

\* Mutant: a strip whose move is refused leaves the content as it was.
MutantFlipOrNothing(ok) ==
    /\ pc = "orient" /\ pc' = "inbound"
    /\ IF FlipPending /\ (IsOverlay => ok)
       THEN /\ Place([r EXCEPT !.orient = auth], auth, strip, ok)
            /\ told' = Logical(r')
       ELSE UNCHANGED <<rect, r, told>>
    /\ batch' \in 0..MaxBatch
    /\ UNCHANGED <<env, pending, strip, auth, chrome>>

\* The orientation block: the strip flips, the content turns, one resize.
ApplyOrient(ok) ==
    /\ pc = "orient" /\ pc' = "inbound"
    /\ IF FlipPending
       THEN /\ Place([r EXCEPT !.orient = auth], auth, strip, ok)
            /\ told' = Logical(r')
       ELSE UNCHANGED <<rect, r, told>>
    /\ batch' \in 0..MaxBatch
    /\ UNCHANGED <<env, pending, strip, auth, chrome>>

\* keyboard-inset: reserved and told at once.
KeyboardInset(px) ==
    /\ pc = "inbound" /\ batch > 0 /\ batch' = batch - 1
    /\ r' = [r EXCEPT !.kb = px]
    /\ told' = Logical(r')
    /\ UNCHANGED <<env, pc, pending, strip, auth, chrome, rect>>

Kept(bars) == Keep \in {bars[1], bars[2]}

\* cache_chrome_heights: 0 leaves a height unchanged.
Cached(bars) == IF Kept(bars) THEN chrome
                ELSE <<IF bars[1] > 0 THEN bars[1] ELSE chrome[1],
                       IF bars[2] > 0 THEN bars[2] ELSE chrome[2]>>

\* Mutant: the resize is deferred whenever an orientation came along.
MutantDeferAlways(bars, px, orient) ==
    /\ pc = "inbound" /\ batch > 0 /\ batch' = batch - 1
    /\ chrome' = Cached(bars)
    /\ r' = IF Mode = "None" /\ ~Kept(bars)
            THEN [r EXCEPT !.kb = px, !.top = bars[1], !.bottom = bars[2]]
            ELSE [r EXCEPT !.kb = px]
    /\ auth' = IF orient = Keep THEN auth ELSE orient
    /\ told' = IF auth' # Keep THEN told ELSE Logical(r')
    /\ UNCHANGED <<env, pc, pending, strip, rect>>

\* geometry: insets and keyboard now, the orientation in the next iteration,
\* and no resize as long as a flip is due.
Geometry(bars, px, orient) ==
    /\ pc = "inbound" /\ batch > 0 /\ batch' = batch - 1
    /\ chrome' = Cached(bars)
    /\ r' = IF Mode = "None" /\ ~Kept(bars)
            THEN [r EXCEPT !.kb = px, !.top = bars[1], !.bottom = bars[2]]
            ELSE [r EXCEPT !.kb = px]
    /\ auth' = IF orient = Keep THEN auth ELSE orient
    /\ told' = IF auth' # Keep /\ auth' # r.orient THEN told ELSE Logical(r')
    /\ UNCHANGED <<env, pc, pending, strip, rect>>

Drained ==
    /\ pc = "inbound" /\ batch = 0
    /\ pc' = "frame"
    /\ UNCHANGED <<env, batch, pending, strip, auth, chrome, rect, r, told>>

\* The frame, if one is due, and the nap.
Frame ==
    /\ pc = "frame" /\ pc' = "overlay"
    /\ UNCHANGED <<env, batch, pending, strip, auth, chrome, rect, r, told>>

-----------------------------------------------------------------------------
Iterate ==
    \/ \E ok \in {TRUE, ~env.mayFail} : TakeHeight(ok) \/ ApplyOrient(ok)
    \/ \E px \in Keyboards : KeyboardInset(px)
    \/ \E bars \in env.bars, px \in Keyboards,
         orient \in Orients \union {Keep} : Geometry(bars, px, orient)
    \/ Drained
    \/ Frame

Next == Iterate \/ \E h \in Heights : RequestHeight(h)

Spec == Init /\ [][Next]_vars

\* The loop keeps iterating; the guest and the arbiter owe nothing.
FairSpec == Spec /\ WF_vars(Iterate)

-----------------------------------------------------------------------------
(* Safety.                                                                 *)

\* When a frame is rendered and no flip is due, the guest lays out to the size
\* the renderer draws at, whatever order the pushes, the guest's own height
\* requests and refused moves came in.
GuestKnowsItsSize == pc = "frame" /\ ~FlipPending => told = Logical(r)

\* The GL buffer always has the size of the surface it is shown on.
BufferFitsSurface == r.w = rect.w /\ r.h = rect.h

\* While the chrome keeps its heights and SurfaceFlinger refuses nothing, an
\* overlay that was placed once sits where overlay_rect puts a strip of its
\* thickness at the current orientation, through flips that cross the guest's
\* own height requests.
OverlayAnchored ==
    /\ \A bars \in env.bars : Kept(bars) \/ bars = StartBars
    /\ ~env.mayFail
    /\ rect # StartRect
    => rect = OverlayRect(Mode, r.orient, strip, chrome)

(* Liveness.                                                               *)

\* A pushed orientation is applied, also when the shim refuses the move.
FlipsAreApplied == []<>~FlipPending

=============================================================================
