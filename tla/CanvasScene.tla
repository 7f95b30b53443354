---------------------------- MODULE CanvasScene ----------------------------
(***************************************************************************)
(* What a guest keeps in the host's resource table to draw with            *)
(* (wasi_canvas_002_impl.rs, WasiDrawable in canvas_impl.rs and            *)
(* wasi_drawable.cpp): canvases that record or hold pixels, immutable       *)
(* prints (pictures, images, shaders), and layers, whose content is        *)
(* replaced under the recordings that captured them.                       *)
(*                                                                         *)
(* A layer's WasiDrawable is counted: one for the guest's handle, one for  *)
(* every capture in a recording or in another layer's content.             *)
(***************************************************************************)
EXTENDS Naturals, FiniteSets, Functions

CONSTANTS
    Canvases, Prints, Layers,  \* table slots for each kind of resource
    Marks,       \* what a draw call leaves on a canvas
    MaxCaptures  \* bound: captures of layers in one recording

ConstantsOK == IsFiniteSet(Layers) /\ IsFiniteSet(Canvases) /\ MaxCaptures \in Nat

VARIABLES
    canvas,  \* per slot: kind, marks and captured layers
    print,   \* per slot: free, or made: the marks frozen in a picture, image or shader
    layer,   \* per slot: handle, count, content; its live matrix, clip, alpha
    guest    \* "runs", "trapped", or "overflowed": the host died drawing

vars == <<canvas, print, layer, guest>>
-----------------------------------------------------------------------------
NoCaptures == [l \in Layers |-> 0]
Empty == [marks |-> {}, caps |-> NoCaptures]
FreeCanvas == [kind |-> "free", has |-> Empty]
FreePrint == [kind |-> "free", marks |-> {}]
FreeLayer == [handle |-> FALSE, refs |-> 0, has |-> Empty, skin |-> "plain"]

Init ==
    /\ canvas = [c \in Canvases |-> FreeCanvas]
    /\ print = [p \in Prints |-> FreePrint]
    /\ layer = [l \in Layers |-> FreeLayer]
    /\ guest = "runs"

Runs == guest = "runs" /\ UNCHANGED guest

\* A host error traps the guest, which is not called again.
Trap == guest' = "trapped"

\* The layers a content replays, at any depth.
Children(ls) == {l \in Layers : \E k \in ls : layer[k].has.caps[l] > 0}
Captured(has) == {l \in Layers : has.caps[l] > 0}
Reached(has) ==
    LET At[n \in 0..Cardinality(Layers)] ==
            IF n = 0 THEN Captured(has) ELSE At[n - 1] \union Children(At[n - 1])
    IN  At[Cardinality(Layers)]

\* WasiDrawable::onDraw, through the layers within: what is seen now.
Seen(has) == has.marks \union UNION {layer[l].has.marks : l \in Reached(has)}

\* A layer within captures itself, through others or not: onDraw never returns.
Endless(has) == \E l \in Reached(has) : l \in Reached(layer[l].has)

\* The native stack is used up: host and guest end as they are.
Overflow == guest' = "overflowed"

\* SkDrawable::unref of every layer in caps, and of what the freed ones hold.
Unref(ls, caps) ==
    LET Less(f) == [l \in Layers |-> [f.at[l] EXCEPT !.refs = @ - f.due[l]]]
        Gone(f) == {l \in Layers : f.due[l] > 0 /\ Less(f)[l].refs = 0}
        Step(f) == [at  |-> [l \in Layers |-> IF l \in Gone(f) THEN FreeLayer ELSE Less(f)[l]],
                    due |-> [l \in Layers |->
                        SumFunctionOnSet([k \in Layers |-> f.at[k].has.caps[l]], Gone(f))]]
        At[n \in 0..Cardinality(Layers)] ==
            IF n = 0 THEN Step([at |-> ls, due |-> caps]) ELSE Step(At[n - 1])
    IN  At[Cardinality(Layers)].at

One(l) == [NoCaptures EXCEPT ![l] = 1]
-----------------------------------------------------------------------------
\* start_recording and new_offscreen; get_current_buffer's is of kind "main".
NewCanvas(c, kind) ==
    /\ Runs /\ canvas[c].kind = "free"
    /\ canvas' = [canvas EXCEPT ![c].kind = kind]
    /\ UNCHANGED <<print, layer>>

\* with_canvas: every draw call that leaves a mark; a print leaves its own.
Draw(c, marks) ==
    /\ Runs /\ canvas[c].kind # "free"
    /\ canvas' = [canvas EXCEPT ![c].has.marks = @ \union marks]
    /\ UNCHANGED <<print, layer>>

DrawPrint(c, p) == print[p].kind # "free" /\ Draw(c, print[p].marks)

(* draw_layer: a recording captures the drawable, pixels show it as it is.   *)
DrawLayer(c, l) ==
    /\ guest = "runs" /\ canvas[c].kind # "free" /\ layer[l].handle
    /\ \/ /\ canvas[c].kind = "recording" /\ SumFunction(canvas[c].has.caps) < MaxCaptures
          /\ canvas' = [canvas EXCEPT ![c].has.caps[l] = @ + 1]
          /\ layer' = [layer EXCEPT ![l].refs = @ + 1]
          /\ UNCHANGED guest
       \/ /\ canvas[c].kind # "recording" /\ ~Endless(layer[l].has)
          /\ canvas' = [canvas EXCEPT ![c].has.marks = @ \union Seen(layer[l].has)]
          /\ UNCHANGED <<layer, guest>>
       \/ /\ canvas[c].kind # "recording" /\ Endless(layer[l].has)
          /\ Overflow /\ UNCHANGED <<canvas, layer>>
    /\ UNCHANGED print

\* HostLayer::new.
NewLayer(l) ==
    /\ Runs /\ layer[l].refs = 0
    /\ layer' = [layer EXCEPT ![l] = [FreeLayer EXCEPT !.handle = TRUE, !.refs = 1]]
    /\ UNCHANGED <<canvas, print>>

(* setInner: the new content, with the captures it has counted, for the old. *)
Swapped(l, has) == Unref([layer EXCEPT ![l].has = has], layer[l].has.caps)

(* set_content: the recording leaves the table first; another canvas traps.  *)
(* Nothing asks whether the recording captured this layer itself.            *)
SetContent(l, c) ==
    /\ guest = "runs" /\ canvas[c].kind # "free" /\ layer[l].handle
    /\ canvas' = [canvas EXCEPT ![c] = FreeCanvas]
    /\ IF canvas[c].kind = "recording"
       THEN layer' = Swapped(l, canvas[c].has) /\ UNCHANGED guest
       ELSE UNCHANGED layer /\ Trap
    /\ UNCHANGED print

\* set_bounds, set_transform, set_alpha, the clips, set_shadow_elevation.
SetSkin(l, skin) ==
    /\ Runs /\ layer[l].handle
    /\ layer' = [layer EXCEPT ![l].skin = skin]
    /\ UNCHANGED <<canvas, print>>

(* finish_recording: the picture freezes the layers captured, and drops them. *)
FinishRecording(c, p) ==
    /\ guest = "runs" /\ canvas[c].kind # "free" /\ print[p].kind = "free"
    /\ \/ /\ canvas[c].kind = "recording" /\ ~Endless(canvas[c].has)
          /\ canvas' = [canvas EXCEPT ![c] = FreeCanvas]
          /\ print' = [print EXCEPT ![p] = [kind |-> "made", marks |-> Seen(canvas[c].has)]]
          /\ layer' = Unref(layer, canvas[c].has.caps)
          /\ UNCHANGED guest
       \/ /\ canvas[c].kind = "recording" /\ Endless(canvas[c].has)
          /\ Overflow /\ UNCHANGED <<canvas, print, layer>>
       \/ /\ canvas[c].kind # "recording" /\ Trap
          /\ canvas' = [canvas EXCEPT ![c] = FreeCanvas]
          /\ UNCHANGED <<print, layer>>

\* snapshot: of pixels the guest owns, else an error it is told.
Snapshot(c, p) ==
    /\ Runs /\ canvas[c].kind # "free" /\ print[p].kind = "free"
    /\ print' = IF canvas[c].kind = "offscreen"
                THEN [print EXCEPT ![p] = [kind |-> "made", marks |-> canvas[c].has.marks]]
                ELSE print
    /\ UNCHANGED <<canvas, layer>>

\* decode_image, image_from_rgba8: an image, or an error the guest is told.
Decode(p, marks) ==
    /\ Runs /\ print[p].kind = "free"
    /\ print' \in {print, [print EXCEPT ![p] = [kind |-> "made", marks |-> marks]]}
    /\ UNCHANGED <<canvas, layer>>

\* The gradients, shader_blend and image_pattern: a print of a print's.  A
\* gradient skia refuses traps the guest.
Shader(p, marks) ==
    /\ guest = "runs" /\ print[p].kind = "free"
    /\ \/ /\ print' = [print EXCEPT ![p] = [kind |-> "made", marks |-> marks]]
          /\ UNCHANGED guest
       \/ Trap /\ UNCHANGED print
    /\ UNCHANGED <<canvas, layer>>

DropCanvas(c) ==
    /\ Runs /\ canvas[c].kind # "free"
    /\ canvas' = [canvas EXCEPT ![c] = FreeCanvas]
    /\ layer' = Unref(layer, canvas[c].has.caps)
    /\ UNCHANGED print

DropPrint(p) ==
    /\ Runs /\ print[p].kind # "free"
    /\ print' = [print EXCEPT ![p] = FreePrint]
    /\ UNCHANGED <<canvas, layer>>

\* Mutant: the drawable is freed with its handle.
MutantDropLayer(l) ==
    /\ Runs /\ layer[l].handle
    /\ layer' = [layer EXCEPT ![l] = FreeLayer]
    /\ UNCHANGED <<canvas, print>>

(* drop of a layer: WasiDrawable::drop gives the handle's count back.        *)
DropLayer(l) ==
    /\ Runs /\ layer[l].handle
    /\ layer' = Unref([layer EXCEPT ![l].handle = FALSE], One(l))
    /\ UNCHANGED <<canvas, print>>

-----------------------------------------------------------------------------
OnCanvas(c) ==
    \/ \E kind \in {"recording", "offscreen"} : NewCanvas(c, kind)
    \/ \E m \in Marks : Draw(c, {m})
    \/ \E p \in Prints : DrawPrint(c, p) \/ FinishRecording(c, p) \/ Snapshot(c, p)
    \/ \E l \in Layers : DrawLayer(c, l) \/ SetContent(l, c)
    \/ DropCanvas(c)

OnPrint(p) ==
    \/ \E m \in Marks : Decode(p, {m}) \/ Shader(p, {m})
    \/ DropPrint(p)

OnLayer(l) ==
    \/ NewLayer(l) \/ DropLayer(l)
    \/ \E skin \in {"plain", "moved"} : SetSkin(l, skin)

Next ==
    \/ \E c \in Canvases : OnCanvas(c)
    \/ \E p \in Prints : OnPrint(p)
    \/ \E l \in Layers : OnLayer(l)

Spec == Init /\ [][Next]_vars
-----------------------------------------------------------------------------
\* Slots hold what their kind allows.
TypeOK ==
    LET Contents == [marks : SUBSET Marks, caps : [Layers -> Nat]] IN
    /\ canvas \in [Canvases -> [kind : {"free", "recording", "offscreen"}, has : Contents]]
    /\ print \in [Prints -> [kind : {"free", "made"}, marks : SUBSET Marks]]
    /\ layer \in [Layers -> [handle : BOOLEAN, refs : Nat, has : Contents,
                             skin : {"plain", "moved"}]]

\* Every count is the number of those that hold the layer: the handle, the
\* recordings and the contents.  So a capture outlives the guest's handle, as
\* the contract states, and nothing else does.
CapturesAccounted ==
    \A l \in Layers :
        layer[l].refs = (IF layer[l].handle THEN 1 ELSE 0)
                        + SumFunction([c \in Canvases |-> canvas[c].has.caps[l]])
                        + SumFunction([k \in Layers |-> layer[k].has.caps[l]])

\* A guest that has dropped its layers and canvases has freed every drawable,
\* however they were nested, but for those a loop holds up: a layer whose own
\* content captures it holds itself, and all that it replays, for ever.
DroppedSceneIsFreed ==
    (\A c \in Canvases : canvas[c].kind = "free") /\ (\A l \in Layers : ~layer[l].handle)
        => \A l \in Layers : layer[l] # FreeLayer =>
             \E k \in Layers : {k, l} \subseteq Reached(layer[k].has)

=============================================================================
