---------------------------- MODULE AndroidVideo ----------------------------
(***************************************************************************)
(* Video on a phone (video.rs, with the media slots of sf_surface.cpp):    *)
(* the MediaCodec decoder and the output buffers the guest holds by index, *)
(* the embedder's surfaces, the self-view of the camera encoder and the    *)
(* way their places follow the device's rotation.  Everything but the      *)
(* codec runs on the host's one thread.                                    *)
(*                                                                         *)
(* A chunk or a frame has no content; a place on the panel is a rectangle  *)
(* and an angle.  The camera's own pipeline is left out: an encoder that   *)
(* fails at any stage of its opening is dropped and leaves nothing.        *)
(***************************************************************************)
EXTENDS Integers, Sequences, FiniteSets

CONSTANTS
  Slots,        \* the shim's media slots
  Panel,        \* <<width, height>> of the panel in its natural position
  Rects,        \* the rectangles a guest asks for, in its own coordinates
  Turns,        \* the rotations the device takes, in degrees clockwise
  Contents,     \* the rotations a peer's video may ask for (its CVO)
  Sensors,      \* [orientation, front]: the cameras a call may use
  Inputs,       \* the codec's input buffers
  Outputs,      \* the codec's output buffer indices
  Sizes,        \* chunks that "fit" an input buffer, or are too "large"
  MaxTurns, MaxOpens, MaxSurfaces, \* bounds
  MaxHeld       \* bound: how many frames with one index the guest holds

VARIABLES
  facing,    \* DEVICE_ROTATION_DEG and GEOM_GEN: [deg, gen]
  slots,     \* the shim: what is on each slot, and where
  registry,  \* VSURFACES
  handles,   \* the video-surface resources the guest holds; 0 is one that failed
  nextSurf,  \* VSURF_NEXT
  dec,       \* VideoDecoder
  alive,     \* the decoders whose codec_alive is set
  pool,      \* the codec's buffers
  frames,    \* TakenFrame: those the guest holds
  enc        \* VideoEncoder: its self-view

vars == <<facing, slots, registry, handles, nextSurf, dec, alive, pool, frames, enc>>

surfaceVars == <<registry, handles, nextSurf>>
codecVars == <<dec, alive, pool, frames>>

Rect == [x : Int, y : Int, w : Nat, h : Nat]

ConstantsOK ==
  /\ Slots \subseteq Nat \ {0} /\ Panel \in Nat \X Nat
  /\ Rects \subseteq Rect /\ Turns \cup Contents \subseteq {0, 90, 180, 270}
  /\ Sensors \subseteq [orientation : {0, 90, 180, 270}, front : BOOLEAN]
  /\ Inputs \in Nat /\ Outputs \subseteq Nat /\ Sizes \subseteq {"fits", "large"}
  /\ {MaxTurns, MaxOpens, MaxSurfaces, MaxHeld} \subseteq Nat

NoRect == [x |-> 0, y |-> 0, w |-> 0, h |-> 0]

\* A slot: for whom it was created (0 when free, Preview for the self-view),
\* its place, the generation of that place and of the last picture on it.
Preview == MaxSurfaces + 1
Free == [for |-> 0, rect |-> NoRect, deg |-> 0, at |-> 0, picture |-> 0]

\* The last two tell what has happened: the guest kept a frame when the codec
\* took its buffers back, a decoder with a slot was dropped.
NoDecoder == [open |-> FALSE, born |-> 0, started |-> FALSE, slot |-> 0,
              attached |-> -1, ended |-> FALSE, kept |-> FALSE, torn |-> FALSE]
NoEncoder == [open |-> FALSE, slot |-> 0, rect |-> NoRect, gen |-> 0,
              sensor |-> [orientation |-> 0, front |-> FALSE]]

\* AMediaCodec after start or flush: every buffer is the codec's own.
Fresh == [inputs |-> Inputs, queue |-> <<>>, out |-> [i \in Outputs |-> "free"]]

Init ==
  /\ facing = [deg |-> 0, gen |-> 0]
  /\ slots = [s \in Slots |-> Free]
  /\ registry = <<>> /\ handles = {} /\ nextSurf = 1
  /\ dec = NoDecoder /\ alive = {} /\ pool = Fresh /\ frames = {}
  /\ enc = NoEncoder

(***************************************************************************)
(* Places                                                                  *)
(***************************************************************************)

\* Mutant: the two quarter turns are swapped.
MutantMapRectToPanel(r, dev) ==
  LET pw == Panel[1]  ph == Panel[2] IN
  CASE dev = 90 -> [x |-> r.y, y |-> ph - (r.x + r.w), w |-> r.h, h |-> r.w]
    [] dev = 180 -> [x |-> pw - (r.x + r.w), y |-> ph - (r.y + r.h), w |-> r.w, h |-> r.h]
    [] dev = 270 -> [x |-> pw - (r.y + r.h), y |-> r.x, w |-> r.h, h |-> r.w]
    [] dev = 0 -> r

\* A rectangle of the guest's turned coordinates in those of the panel.
MapRectToPanel(r, dev) ==
  LET pw == Panel[1]  ph == Panel[2] IN
  CASE dev = 90 -> [x |-> pw - (r.y + r.h), y |-> r.x, w |-> r.h, h |-> r.w]
    [] dev = 180 -> [x |-> pw - (r.x + r.w), y |-> ph - (r.y + r.h), w |-> r.w, h |-> r.h]
    [] dev = 270 -> [x |-> r.y, y |-> ph - (r.x + r.w), w |-> r.h, h |-> r.w]
    [] dev = 0 -> r

\* sf_media_set_geometry: refused on a free slot and for an empty rectangle.
Placed(s, r, deg) ==
  IF s = 0 \/ slots[s].for = 0 \/ r.w <= 0 \/ r.h <= 0 THEN slots
  ELSE [slots EXCEPT ![s].rect = MapRectToPanel(r, facing.deg),
                     ![s].deg = (deg + facing.deg) % 360,
                     ![s].at = facing.gen]

\* sf_media_create: the first free slot, if there is one.
FreeSlot == {s \in Slots : slots[s].for = 0 /\ \A t \in Slots : t < s => slots[t].for # 0}

Destroyed(s) == IF s = 0 THEN slots ELSE [slots EXCEPT ![s] = Free]

\* The panel upright of a camera: a front camera is mirrored.
Upright(sensor) ==
  IF sensor.front THEN (360 - sensor.orientation) % 360 ELSE sensor.orientation

\* set_device_orientation_code, from the loop's geometry line.
Turn(deg) ==
  /\ deg # facing.deg /\ facing.gen < MaxTurns
  /\ facing' = [deg |-> deg, gen |-> facing.gen + 1]
  /\ UNCHANGED <<slots, surfaceVars, codecVars, enc>>

(***************************************************************************)
(* The embedder's surfaces                                                 *)
(***************************************************************************)

\* open: without a free slot the guest gets a surface all the same, with an id
\* that no later call will find.
OpenSurface(r, cvo) ==
  /\ nextSurf <= MaxSurfaces
  /\ IF FreeSlot = {}
       THEN handles' = handles \cup {0} /\ UNCHANGED <<slots, registry, nextSurf>>
       ELSE \E s \in FreeSlot :
              /\ slots' = [slots EXCEPT
                   ![s] = [for |-> nextSurf, rect |-> MapRectToPanel(r, facing.deg),
                           deg |-> (cvo + facing.deg) % 360,
                           at |-> facing.gen, picture |-> 0]]
              /\ registry' = [i \in DOMAIN registry \cup {nextSurf} |->
                   IF i = nextSurf
                     THEN [slot |-> s, rect |-> r, cvo |-> cvo, gen |-> facing.gen]
                     ELSE registry[i]]
              /\ handles' = handles \cup {nextSurf}
              /\ nextSurf' = nextSurf + 1
  /\ UNCHANGED <<facing, codecVars, enc>>

\* set-rect, set-rotation: the new value and the place that follows from it.
Move(id, r, cvo) ==
  /\ id \in handles \cap DOMAIN registry
  /\ \/ r # registry[id].rect /\ cvo = registry[id].cvo
     \/ r = registry[id].rect /\ cvo # registry[id].cvo
  /\ registry' = [registry EXCEPT ![id].rect = r, ![id].cvo = cvo, ![id].gen = facing.gen]
  /\ slots' = Placed(registry[id].slot, r, cvo)
  /\ UNCHANGED <<facing, handles, nextSurf, codecVars, enc>>

DropSurface(id) ==
  /\ id \in handles
  /\ handles' = handles \ {id}
  /\ IF id \in DOMAIN registry
       THEN /\ slots' = Destroyed(registry[id].slot)
            /\ registry' = [i \in DOMAIN registry \ {id} |-> registry[i]]
       ELSE UNCHANGED <<slots, registry>>
  /\ UNCHANGED <<facing, nextSurf, codecVars, enc>>

(***************************************************************************)
(* The decoder                                                             *)
(***************************************************************************)

Open ==
  /\ ~dec.open /\ dec.born < MaxOpens
  /\ dec' = [NoDecoder EXCEPT !.open = TRUE, !.started = TRUE, !.born = dec.born + 1,
                              !.torn = dec.torn]
  /\ alive' = alive \cup {dec.born + 1}
  /\ pool' = Fresh
  /\ UNCHANGED <<facing, slots, surfaceVars, frames, enc>>

\* The frames of the open decoder; those left when it has taken its buffers back.
Mine == {f \in frames : f.dec = dec.born}
Outdated == {IF f \in Mine THEN [f EXCEPT !.stale = TRUE] ELSE f : f \in frames}

\* The codec takes every buffer back, whatever the guest holds.
TakesBack ==
  /\ pool' = Fresh
  /\ frames' = Outdated

\* attach: stop, configure with the window, start.  On an unknown surface, and
\* when the codec refuses, the guest is told nothing.
Attach(id) ==
  /\ dec.open /\ id \in handles
  /\ LET bound == [dec EXCEPT !.attached = id]
         restarted == [bound EXCEPT !.ended = FALSE, !.kept = dec.kept \/ Mine # {}]
     IN \/ /\ id \notin DOMAIN registry
           /\ dec' = bound /\ UNCHANGED <<pool, frames>>
        \/ /\ id \in DOMAIN registry
           /\ dec' \in {[restarted EXCEPT !.slot = registry[id].slot, !.started = TRUE],
                        [restarted EXCEPT !.started = FALSE]}
           /\ TakesBack
  /\ UNCHANGED <<facing, slots, surfaceVars, alive, enc>>

\* submit: without a free input buffer the chunk stays with the guest.  A
\* chunk too large for the buffer that was taken for it is refused, and the
\* buffer is not given back.  The decoder's own rectangle is empty, so its
\* geometry places nothing.
Submit(size) ==
  /\ dec.open /\ dec.started /\ ~dec.ended /\ pool.inputs > 0
  /\ pool' = [pool EXCEPT !.inputs = @ - 1,
                          !.queue = IF size = "fits" THEN Append(@, "frame") ELSE @]
  /\ UNCHANGED <<facing, slots, surfaceVars, dec, alive, frames, enc>>

Finish ==
  /\ dec.open /\ dec.started /\ ~dec.ended /\ pool.inputs > 0
  /\ pool' = [pool EXCEPT !.inputs = @ - 1, !.queue = Append(@, "eos")]
  /\ dec' = [dec EXCEPT !.ended = TRUE]
  /\ UNCHANGED <<facing, slots, surfaceVars, alive, frames, enc>>

\* MediaCodec decodes a chunk into a free output buffer.
Decode ==
  /\ pool.queue # <<>>
  /\ \E i \in Outputs :
       /\ pool.out[i] = "free"
       /\ pool' = [inputs |-> pool.inputs + 1, queue |-> Tail(pool.queue),
                   out |-> [pool.out EXCEPT ![i] = Head(pool.queue)]]
  /\ UNCHANGED <<facing, slots, surfaceVars, dec, alive, frames, enc>>

Recycled == "free"

\* The first number no frame of the open decoder with this index has.
Unused(i) ==
  {n \in 1 .. MaxHeld : /\ \A f \in Mine : f.idx = i => f.nth # n
                        /\ \A m \in 1 .. n - 1 : \E f \in Mine : f.idx = i /\ f.nth = m}

\* take_next_decoded: the guest holds the index; an end of stream is recycled.
Take ==
  /\ dec.open
  /\ \E i \in Outputs :
       \/ /\ pool.out[i] = "frame"
          /\ pool' = [pool EXCEPT !.out[i] = "client"]
          /\ \E n \in Unused(i) :
               frames' = frames \cup
                 {[dec |-> dec.born, idx |-> i, nth |-> n, stale |-> FALSE]}
       \/ /\ pool.out[i] = "eos"
          /\ pool' = [pool EXCEPT !.out[i] = Recycled]
          /\ UNCHANGED frames
  /\ UNCHANGED <<facing, slots, surfaceVars, dec, alive, enc>>

\* releaseOutputBuffer has an effect on a buffer that is with the client, and
\* asks no more of its index.
Releases(f) == f.dec \in alive /\ pool.out[f.idx] = "client"

\* Dropped or presented, a frame gives its buffer back while its codec lives.
Release(f) ==
  /\ frames' = frames \ {f}
  /\ pool' = IF Releases(f) THEN [pool EXCEPT !.out[f.idx] = "free"] ELSE pool

\* video_surface_reapply_if_rotated: the place of a surface that the device has
\* turned under.
Reapplied(id) ==
  IF id \in DOMAIN registry /\ registry[id].gen # facing.gen
    THEN Placed(registry[id].slot, registry[id].rect, registry[id].cvo)
    ELSE slots

\* present: first the surface's place, then the picture - which goes to the
\* window its decoder was configured with.  The guest presents on the surface
\* it attached the decoder to.
Present(f, id) ==
  /\ f \in frames /\ id \in handles
  /\ dec.attached # -1 => id = dec.attached
  /\ LET drawn == Releases(f) /\ dec.slot # 0 /\ dec.attached # 0
                  /\ slots[dec.slot].for = dec.attached
     IN slots' = IF drawn THEN [Reapplied(id) EXCEPT ![dec.slot].picture = facing.gen]
                 ELSE Reapplied(id)
  /\ registry' = IF id \in DOMAIN registry
                   THEN [registry EXCEPT ![id].gen = facing.gen] ELSE registry
  /\ Release(f)
  /\ UNCHANGED <<facing, handles, nextSurf, dec, alive, enc>>

Discard(f) ==
  /\ f \in frames
  /\ Release(f)
  /\ UNCHANGED <<facing, slots, surfaceVars, dec, alive, enc>>

\* reset: AMediaCodec_flush.  Held frames "become invalid afterwards", but
\* nothing tells them so.
Reset ==
  /\ dec.open /\ dec.started /\ pool # Fresh
  /\ dec' = [dec EXCEPT !.ended = FALSE, !.kept = @ \/ Mine # {}]
  /\ TakesBack
  /\ UNCHANGED <<facing, slots, surfaceVars, alive, enc>>

\* Mutant: the flag the frames share is left set.
MutantKilled == alive

Killed == alive \ {dec.born}

\* The decoder is dropped: codec_alive first, then the codec, then the slot it
\* renders to, which is the attached surface's own.
Close ==
  /\ dec.open
  /\ alive' = Killed
  /\ pool' = Fresh
  /\ dec' = [NoDecoder EXCEPT !.born = dec.born, !.torn = dec.torn \/ dec.slot # 0]
  /\ slots' = Destroyed(dec.slot)
  /\ UNCHANGED <<facing, surfaceVars, frames, enc>>

(***************************************************************************)
(* The camera encoder's self-view                                          *)
(***************************************************************************)

\* Without a free slot the call goes on without its self-view.
EncOpen(r, sensor) ==
  /\ ~enc.open /\ \A s \in Slots : slots[s].for # Preview
  /\ IF FreeSlot = {}
       THEN enc' = [NoEncoder EXCEPT !.open = TRUE] /\ UNCHANGED slots
       ELSE \E s \in FreeSlot :
              /\ enc' = [open |-> TRUE, slot |-> s, rect |-> r, gen |-> facing.gen,
                         sensor |-> sensor]
              /\ slots' = [slots EXCEPT
                   ![s] = [for |-> Preview, rect |-> MapRectToPanel(r, facing.deg),
                           deg |-> (Upright(sensor) + facing.deg) % 360,
                           at |-> facing.gen, picture |-> 0]]
  /\ UNCHANGED <<facing, surfaceVars, codecVars>>

Turned == enc.slot # 0 /\ enc.gen # facing.gen

\* next-chunk, which the guest polls, applies the place of a turned device.
EncNext ==
  /\ enc.open /\ Turned
  /\ enc' = [enc EXCEPT !.gen = facing.gen]
  /\ slots' = Placed(enc.slot, enc.rect, Upright(enc.sensor))
  /\ UNCHANGED <<facing, surfaceVars, codecVars>>

EncMove(r) ==
  /\ enc.open /\ enc.slot # 0 /\ r # enc.rect
  /\ enc' = [enc EXCEPT !.rect = r, !.gen = facing.gen]
  /\ slots' = Placed(enc.slot, r, Upright(enc.sensor))
  /\ UNCHANGED <<facing, surfaceVars, codecVars>>

EncClose ==
  /\ enc.open
  /\ enc' = NoEncoder
  /\ slots' = Destroyed(enc.slot)
  /\ UNCHANGED <<facing, surfaceVars, codecVars>>

-----------------------------------------------------------------------------
\* What drains the codec: its own work, and a guest that pulls what is decoded
\* and gives it back.
Drain ==
  \/ Decode \/ Take
  \/ \E f \in frames : Discard(f) \/ \E id \in handles : Present(f, id)

Next ==
  \/ \E deg \in Turns : Turn(deg)
  \/ \E r \in Rects, cvo \in Contents : OpenSurface(r, cvo)
  \/ \E id \in handles, r \in Rects, cvo \in Contents : Move(id, r, cvo)
  \/ \E id \in handles : DropSurface(id) \/ Attach(id)
  \/ Open \/ (\E size \in Sizes : Submit(size)) \/ Finish \/ Reset \/ Close
  \/ Drain
  \/ \E r \in Rects, sensor \in Sensors : EncOpen(r, sensor)
  \/ EncNext \/ (\E r \in Rects : EncMove(r)) \/ EncClose

Spec == Init /\ [][Next]_vars
FairSpec == Spec /\ WF_vars(Drain) /\ WF_vars(EncNext)

(***************************************************************************)
(* Properties                                                              *)
(***************************************************************************)

\* Every variable stays in its type.
TypeOK ==
  /\ facing \in [deg : {0, 90, 180, 270}, gen : 0 .. MaxTurns]
  /\ \A s \in Slots : slots[s].for \in 0 .. Preview /\ slots[s].rect \in Rect
  /\ DOMAIN registry \subseteq 1 .. MaxSurfaces
  /\ handles \subseteq 0 .. MaxSurfaces
  /\ pool.inputs \in 0 .. Inputs
  /\ \A i \in Outputs : pool.out[i] \in {"free", "frame", "eos", "client"}
  /\ frames \subseteq [dec : 1 .. MaxOpens, idx : Outputs, nth : 1 .. MaxHeld, stale : BOOLEAN]

\* No output buffer is lost: what the codec has given out, some frame the guest
\* has taken since can give back - whatever frames it still holds of a decoder
\* that is gone, or of before a reset.  And unless it kept one across a reset,
\* no frame can give back a buffer that is not its own: the buffers out are
\* exactly those its frames name.
IndicesAccounted ==
  LET out == {i \in Outputs : pool.out[i] = "client"}
      held == {f.idx : f \in {g \in frames : dec.open /\ g.dec = dec.born /\ ~g.stale}}
  IN out \subseteq held /\ (~dec.kept => out = held)

\* Back-pressure ends: a guest that was told queue-full gets its chunk in once
\* it has pulled what was decoded.
ChunksGetIn ==
  (dec.open /\ pool.inputs = 0) ~> (~dec.open \/ pool.inputs > 0)

\* Looking at the turned panel, a guest sees its surface where it asked for it:
\* cell (u, v) of its screen is the panel's cell that the turn takes there.
Cells(r) == (r.x .. r.x + r.w - 1) \X (r.y .. r.y + r.h - 1)
Seen(p, deg) ==   \* the panel turned clockwise shows its cell p there
  LET quarter[n \in 0 .. 3] ==   \* <<cell, width, height>> after n quarters
        IF n = 0 THEN <<p, Panel[1], Panel[2]>>
        ELSE LET q == quarter[n - 1]
             IN <<<<q[1][2], q[2] - 1 - q[1][1]>>, q[3], q[2]>>
  IN quarter[deg \div 90][1]
SeenAs(s, r, content) ==
  /\ {Seen(p, facing.deg) : p \in Cells(slots[s].rect)} = Cells(r)
  /\ (slots[s].deg - facing.deg) % 360 = content

\* Who has a slot to himself, and has it still.
Keeps(id) ==
  /\ slots[registry[id].slot].for = id /\ enc.slot # registry[id].slot
  /\ \A other \in DOMAIN registry \ {id} : registry[other].slot # registry[id].slot
KeepsView ==
  /\ slots[enc.slot].for = Preview
  /\ \A other \in DOMAIN registry : registry[other].slot # enc.slot

\* Until a decoder that had a slot is dropped, every surface and the self-view;
\* from then on, whoever still has his slot to himself.
PlacedWhereAsked ==
  /\ \A id \in DOMAIN registry :
       registry[id].gen = facing.gen /\ (dec.torn => Keeps(id))
         => SeenAs(registry[id].slot, registry[id].rect, registry[id].cvo)
  /\ enc.slot # 0 /\ enc.gen = facing.gen /\ (dec.torn => KeepsView)
       => SeenAs(enc.slot, enc.rect, Upright(enc.sensor))

\* No picture is on a surface from after a turn that its place is from before.
PicturesAreUpright == \A s \in Slots : slots[s].picture <= slots[s].at

\* A turn of the device reaches the self-view while the call polls for chunks.
SelfViewFollows ==
  (enc.slot # 0 /\ enc.gen # facing.gen)
    ~> (enc.slot = 0 \/ enc.gen = facing.gen)

\* "Input pool full because output is not draining fast enough": when no input
\* buffer is free, the codec holds chunks.  It need not: every chunk that is
\* too large has kept a buffer, and in the end submit can only say queue-full.
QueueFullIsBackPressure ==
  dec.open /\ pool.inputs = 0 => pool.queue # <<>>

\* "This registry lets the embedder create/place/destroy a slot independently
\* of a codec decoder": a registered surface has its own slot.  A decoder that
\* is dropped takes the slot of the surface it drew on with it.
SurfacesKeepTheirSlots ==
  \A id \in DOMAIN registry : slots[registry[id].slot].for = id
=============================================================================
