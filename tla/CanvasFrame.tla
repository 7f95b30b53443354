---------------------------- MODULE CanvasFrame ----------------------------
(***************************************************************************)
(* One frame after the other on the window's surface: what                 *)
(* get_current_buffer, the guest's drawing and present do to the one Skia   *)
(* canvas behind CanvasRes::Main (wasi_canvas_002_impl.rs, canvas_impl.rs). *)
(* The canvas keeps its stack of matrices and clips from frame to frame.   *)
(*                                                                         *)
(* A picture is abstracted to two regions, in and out of the clip a guest  *)
(* may set, and to whether each was cleared in the frame under way.        *)
(***************************************************************************)
EXTENDS Naturals, Sequences, SequencesExt

CONSTANTS
    Presenters,  \* of "gl" and "softbuffer"
    Sizes,       \* of the window, 0: not configured
    MaxDepth,    \* bound: saves outstanding
    MaxFrames    \* bound: frames begun

ConstantsOK ==
    /\ Presenters \subseteq {"gl", "softbuffer"}
    /\ Sizes \subseteq Nat /\ {MaxDepth, MaxFrames} \subseteq Nat

VARIABLES
    live,     \* the window's size, which the compositor changes at any time
    surface,  \* the renderer's: presenter, size, what each region holds
    stack,    \* the canvas's saved states, the current one last
    under,    \* a behind-ui video is visible
    frame,    \* "none", or "open" between get_current_buffer and present
    guest,    \* the clips the guest believes set, and whether it left none
    shown,    \* what the window shows
    count     \* frames begun

vars == <<live, surface, stack, under, frame, guest, shown, count>>
-----------------------------------------------------------------------------
Regions == {"in", "out"}

\* A canvas state; the state of a new canvas; a surface nothing was drawn on.
Fresh == [m |-> "identity", clip |-> Regions]
Blank == [g \in Regions |-> "blank"]
Top == Last(stack)
SetTop(state) == Front(stack) \o <<state>>

\* Nothing is presented yet.
Dark == [size |-> 0, is |-> Blank, tidy |-> TRUE, under |-> FALSE]

Init ==
    /\ live \in Sizes \ {0}
    /\ surface \in [by : Presenters, size : {live}, is : {Blank}]
    /\ stack = <<Fresh>>
    /\ under = FALSE /\ frame = "none" /\ count = 0
    /\ guest = [clips |-> <<Regions>>, tidy |-> TRUE]
    /\ shown = Dark

\* A colour over the regions the clip leaves.
Over(is, colour) == [g \in Regions |-> IF g \in Top.clip THEN colour ELSE is[g]]

\* What is left of an earlier frame when another begins.
Aged == [g \in Regions |-> IF surface.is[g] = "blank" THEN "blank" ELSE "old"]

\* The guest has undone its saves and clips.
LeftTidy == guest.tidy /\ guest.clips = <<Regions>>

\* Mutant: the matrix of the frame before stays.
MutantBegin ==
    /\ frame = "none" /\ count < MaxFrames
    /\ frame' = "open" /\ count' = count + 1
    /\ surface' = [surface EXCEPT !.is = Over(Aged, IF under THEN "clear" ELSE "black")]
    /\ stack' = SetTop([Top EXCEPT !.m = IF @ = "identity" THEN "base" ELSE "moved"])
    /\ guest' = [guest EXCEPT !.tidy = LeftTidy]
    /\ UNCHANGED <<live, under, shown>>

(* get_current_buffer: the current state's matrix is replaced by the base;   *)
(* the clear keeps to its clip, and is transparent if a video lies under.    *)
Begin ==
    /\ frame = "none" /\ count < MaxFrames
    /\ frame' = "open" /\ count' = count + 1
    /\ surface' = [surface EXCEPT !.is = Over(Aged, IF under THEN "clear" ELSE "black")]
    /\ stack' = SetTop([Top EXCEPT !.m = "base"])
    /\ guest' = [guest EXCEPT !.tidy = LeftTidy]
    /\ UNCHANGED <<live, under, shown>>

Drawing == frame = "open" /\ UNCHANGED <<live, under, frame, shown, count>>

\* save and save_layer.
Save ==
    /\ Drawing /\ Len(stack) < MaxDepth /\ Len(guest.clips) < MaxDepth
    /\ stack' = Append(stack, Top)
    /\ guest' = [guest EXCEPT !.clips = Append(@, Last(@))]
    /\ UNCHANGED surface

\* restore, of which the last has nothing to undo.
Restore ==
    /\ Drawing
    /\ stack' = IF Len(stack) = 1 THEN stack ELSE Front(stack)
    /\ guest' = [guest EXCEPT !.clips = IF Len(@) = 1 THEN @ ELSE Front(@)]
    /\ UNCHANGED surface

\* translate, scale, rotate and concat.
Move ==
    /\ Drawing
    /\ stack' = SetTop([Top EXCEPT !.m = "moved"])
    /\ UNCHANGED <<surface, guest>>

\* clip_rect, clip_rounded_rect and clip_path, to the region within.
Clip ==
    /\ Drawing
    /\ stack' = SetTop([Top EXCEPT !.clip = @ \intersect {"in"}])
    /\ guest' = [guest EXCEPT !.clips = Front(@) \o <<Last(@) \intersect {"in"}>>]
    /\ UNCHANGED surface

\* clear, with an opaque colour.
Clear ==
    /\ Drawing
    /\ surface' = [surface EXCEPT !.is = Over(@, "black")]
    /\ UNCHANGED <<stack, guest>>

\* The state the compositor draws a video in, saved over the guest's.
VideoState(s) == Append(s, [Last(s) EXCEPT !.m = "identity"])

(* composite_video_surfaces: save, reset_matrix, draw, restore.              *)
Composite(s) == IF under THEN Front(VideoState(s)) ELSE s

\* resize: another surface, with a canvas of its own; one of no size fails.
Resized(size) ==
    /\ surface' = [surface EXCEPT !.size = size, !.is = IF size = 0 THEN @ ELSE Blank]
    /\ stack' = IF size = 0 THEN Composite(stack) ELSE <<Fresh>>

\* present_softbuffer: the buffer has the window's size; GL does not ask.
Fits == surface.by = "gl" \/ live = surface.size

(* present: a softbuffer of another size is replaced, not shown.             *)
Present ==
    /\ frame = "open" /\ frame' = "none"
    /\ guest' = [guest EXCEPT !.tidy = LeftTidy]
    /\ IF surface.by = "softbuffer" /\ live = 0
       THEN stack' = Composite(stack) /\ UNCHANGED <<surface, shown>>
       ELSE IF Fits
            THEN /\ shown' = [size |-> surface.size, is |-> surface.is,
                              tidy |-> LeftTidy, under |-> under]
                 /\ stack' = Composite(stack)
                 /\ UNCHANGED surface
            ELSE Resized(live) /\ UNCHANGED shown
    /\ UNCHANGED <<live, under, count>>

\* RedrawRequested, before the guest is asked for a frame.
Reconcile ==
    /\ frame = "none" /\ live # 0 /\ live # surface.size
    /\ Resized(live)
    /\ guest' = [guest EXCEPT !.tidy = LeftTidy]
    /\ UNCHANGED <<live, under, frame, shown, count>>

-----------------------------------------------------------------------------
\* The compositor resizes the window; a video appears under it or goes.
WindowChanges ==
    /\ \E size \in Sizes : live' = size
    /\ UNCHANGED <<surface, stack, under, frame, guest, shown, count>>
VideoChanges ==
    /\ under' = ~under
    /\ UNCHANGED <<live, surface, stack, frame, guest, shown, count>>

Next ==
    \/ Begin \/ Save \/ Restore \/ Move \/ Clip \/ Clear \/ Present \/ Reconcile
    \/ WindowChanges \/ VideoChanges

Spec == Init /\ [][Next]_vars
-----------------------------------------------------------------------------
\* The surface, the canvas and the guest's idea of it have their types.
TypeOK ==
    /\ {live, surface.size, shown.size} \subseteq Sizes /\ surface.by \in Presenters
    /\ stack # <<>> /\ Len(stack) <= MaxDepth
    /\ \A i \in DOMAIN stack : stack[i] \in [m : {"identity", "base", "moved"}, clip : SUBSET Regions]
    /\ frame \in {"none", "open"} /\ count \in 0..MaxFrames

\* A guest that undoes its saves and clips before it presents finds every
\* frame cleared all over, drawn through the base matrix, and no state of
\* another's on the stack, whatever the host drew or replaced in between.
FramesStartClean ==
    [][count' > count /\ guest'.tidy
         => /\ \A g \in Regions : surface'.is[g] \in {"black", "clear"}
            /\ Len(stack') = 1 /\ Last(stack').m = "base"]_vars

\* What a window shows holds nothing of an earlier frame, and on the CPU path
\* it had the window's size when it was shown.
ShownIsWhole ==
    [][shown' # shown
         => /\ shown'.tidy => \A g \in Regions : shown'.is[g] \in {"black", "clear"}
            /\ surface.by = "softbuffer" => shown'.size = live]_vars

=============================================================================
