---------------------------- MODULE DesktopVideo ----------------------------
(***************************************************************************)
(* Video playback on a desktop: the codec crate's backend selection and    *)
(* GStreamer/libvpx decoders (crates/wandr-video), the decoder the host    *)
(* keeps around them (video_desktop.rs: the reorder buffer, the frames in  *)
(* flight and their cap, the scheduled presentations) and the embedder's   *)
(* surface (video_host_impl.rs).  The guest is a player: it feeds chunks   *)
(* until it is told to stop, keeps a cushion of decoded frames above the   *)
(* stream's reorder depth, and presents each frame at its time.            *)
(*                                                                         *)
(* A frame is the record of its timestamp and of the seek generation it    *)
(* was decoded in; pixels, colour and textures are left out.  The host and *)
(* the guest run on one thread; GStreamer's streaming thread is the only   *)
(* other actor.                                                            *)
(***************************************************************************)
EXTENDS Naturals, Sequences, FiniteSets, SequencesExt

CONSTANTS
  Stream,      \* the timestamps of the stream's chunks, in decode order
  Reorder,     \* how many chunks the codec may hold back before it emits
  Cushion,     \* how many frames the player holds before it presents one
  Budget,      \* the frames MAX_IN_FLIGHT_BYTES pays for at this resolution
  Floor,       \* MIN_IN_FLIGHT_FRAMES
  Unreadable,  \* timestamps of frames that can be neither imported nor read out
  Worlds,      \* [policy, usable]: the operator's environment, the machine
  MaxGen,      \* bound: seeks and reopenings of a run
  MaxSurfaces  \* bound: surface ids a run hands out

VARIABLES
  policy,     \* [noHardware, requireHardware: BOOLEAN, pin: a family or "any"]
  usable,     \* the backends that open for this codec on this machine
  tenBit,     \* the stream is coded in more than eight bits
  decoder,    \* VideoDecoder: what the guest's handle names
  codec,      \* the GstDecoder or LibvpxDecoder inside it
  player,     \* the guest: next chunk, end of stream, frames held, media time
  pending,    \* decoded frames in presentation order
  scheduled,  \* SCHEDULED: frames with a deadline ahead, in deadline order
  surfaces,   \* SURFACES: the content of every registered surface
  handle,     \* the embedder's VideoSurfaceState, 0 when it holds none
  nextId      \* SURFACE_NEXT

vars == <<policy, usable, tenBit, decoder, codec, player, pending, scheduled,
          surfaces, handle, nextId>>

env == <<policy, usable, tenBit>>
screen == <<surfaces, handle, nextId>>

Backends == {"gstreamer-hw", "gstreamer-sw", "libvpx"}
Accels == {"no-preference", "prefer-hardware", "prefer-software", "require-hardware"}
Hints == {"prefer-hardware", "prefer-software"}

ConstantsOK ==
  /\ Stream \in Seq(Nat) /\ Len(Stream) > 0
  /\ \A i, j \in DOMAIN Stream : Stream[i] = Stream[j] => i = j  \* they tell frames apart
  /\ {Reorder, Cushion, Budget, Floor, MaxGen, MaxSurfaces} \subseteq Nat
  /\ Cushion > Reorder /\ Floor >= Cushion
  /\ Worlds \subseteq
       [policy : [noHardware : BOOLEAN, requireHardware : BOOLEAN,
                  pin : {"any", "gstreamer", "libvpx"}],
        usable : SUBSET Backends]

(***************************************************************************)
(* Backend selection: lib.rs Registry and video_desktop.rs open_impl.      *)
(***************************************************************************)

Hardware(b) == b = "gstreamer-hw"

Priority(b) == CASE b = "gstreamer-hw" -> 15
                 [] b = "gstreamer-sw" -> 95
                 [] b = "libvpx" -> 100

Family(pin) ==
  CASE pin = "any" -> Backends
    [] pin = "gstreamer" -> {"gstreamer-hw", "gstreamer-sw"}
    [] pin = "libvpx" -> {"libvpx"}

Candidates(prefs) ==
  {b \in usable \cap Family(prefs.pin) :
     /\ prefs.noHardware => ~Hardware(b)
     /\ prefs.requireHardware => Hardware(b)}

\* Registry::open_decoder_named: the first candidate that opens, or none.
OpenNamed(prefs) ==
  LET able == Candidates(prefs)
  IN {b \in able : \A c \in able : Priority(b) <= Priority(c)}

\* Mutant: the guest's preference takes the place of the operator's.
MutantPrefer(accel) ==
  [policy EXCEPT !.noHardware = accel = "prefer-software",
                 !.requireHardware = accel = "require-hardware"]

\* The guest's preference, applied under the operator's.
Prefer(accel) ==
  [policy EXCEPT !.noHardware = @ \/ accel = "prefer-software",
                 !.requireHardware = @ \/ accel = "require-hardware"]

\* A hint that cannot be met is retried with the operator's policy alone.
Serves(accel) ==
  IF OpenNamed(Prefer(accel)) = {} /\ accel \in Hints
    THEN OpenNamed(policy) ELSE OpenNamed(Prefer(accel))

(***************************************************************************)
(* State                                                                   *)
(***************************************************************************)

Closed == [open |-> FALSE, backend |-> "libvpx", surface |-> 0, cap |-> 0,
           inFlight |-> 0, since |-> 0]

Idle == [lane |-> "libvpx", probed |-> FALSE, held |-> <<>>, samples |-> <<>>,
         eos |-> FALSE]

Stopped == [next |-> 1, finished |-> FALSE, frames |-> {}, pos |-> 0, gen |-> 0]

Init ==
  /\ \E w \in Worlds : policy = w.policy /\ usable = w.usable
  /\ tenBit \in (IF "libvpx" \in usable THEN {FALSE} ELSE BOOLEAN)
  /\ decoder = Closed /\ codec = Idle /\ player = Stopped
  /\ pending = <<>> /\ scheduled = <<>>
  /\ surfaces = <<>> /\ handle = 0 /\ nextId = 1

Frame(pts) == [gen |-> player.gen, pts |-> pts]
NoFrame == [gen |-> 0, pts |-> 0, none |-> TRUE]

\* Frames whose memory the open decoder answers for.
Owned(f) == decoder.open /\ f.gen >= decoder.since

(***************************************************************************)
(* The codec                                                               *)
(***************************************************************************)

\* A hardware pipeline's output lane is eight-bit: a deeper stream never
\* negotiates and nothing comes out.
Frozen == codec.lane = "gstreamer-hw" /\ tenBit

\* The frames `next_frame` could hand over now: libvpx decodes inside
\* `decode`, GStreamer's callback queues samples as they are produced.
StreamingThread ==
  /\ decoder.open /\ codec.lane # "libvpx" /\ ~Frozen
  /\ Len(codec.held) > (IF codec.eos THEN 0 ELSE Reorder)
  /\ codec' = [codec EXCEPT !.held = Tail(@), !.samples = Append(@, Head(codec.held))]
  /\ UNCHANGED <<env, decoder, player, pending, scheduled, screen>>

\* GstDecoder::decode on its first chunk: a deep stream on a hardware lane is
\* rebuilt on the software lane.  The check is spent even when that fails.
Probed ==
  IF codec.probed \/ ~Frozen THEN [codec EXCEPT !.probed = TRUE]
  ELSE [codec EXCEPT !.probed = TRUE,
                     !.lane = IF "gstreamer-sw" \in usable THEN "gstreamer-sw" ELSE @]

Declined == ~codec.probed /\ Frozen /\ "gstreamer-sw" \notin usable

\* Pushing a chunk: after an end of stream it is swallowed.
Fed(c, f) ==
  IF c.lane = "libvpx" THEN [c EXCEPT !.samples = Append(@, f)]
  ELSE IF c.eos THEN c ELSE [c EXCEPT !.held = Append(@, f)]

(***************************************************************************)
(* The host's decoder                                                      *)
(***************************************************************************)

\* partition_point: how many of the sequence's first elements satisfy the test
\* that those in `which` do.
PartitionPoint(which) == Cardinality(which)

InOrder(f, queue) ==
  InsertAt(queue, PartitionPoint({i \in DOMAIN queue : queue[i].pts <= f.pts}) + 1, f)

\* The reorder buffer with the frames of `samples` that can be used.
Queued(queue, samples) ==
  LET q[n \in 0 .. Len(samples)] ==
        IF n = 0 THEN queue
        ELSE IF samples[n].pts \in Unreadable THEN q[n - 1]
        ELSE InOrder(samples[n], q[n - 1])
  IN q[Len(samples)]

Max2(a, b) == IF a > b THEN a ELSE b

\* Mutant: the budget alone, however few frames it pays for.
MutantCapOf(came) == IF decoder.cap = 0 /\ came > 0 THEN Budget ELSE decoder.cap

\* The cap, once the first frame has told the size.
CapOf(came) == IF decoder.cap = 0 /\ came > 0 THEN Max2(Budget, Floor) ELSE decoder.cap

\* The decoder with `came` more frames.
Counting(came) == [decoder EXCEPT !.cap = CapOf(came), !.inFlight = @ + came]

\* queue_decoded: every sample of codec `c` into the reorder buffer.
QueueDecoded(c) ==
  /\ pending' = Queued(pending, c.samples)
  /\ decoder' = Counting(Len(Queued(pending, c.samples)) - Len(pending))
  /\ codec' = [c EXCEPT !.samples = <<>>]

\* The guest opens a decoder; at most one is open at a time.
Open(accel) ==
  /\ ~decoder.open
  /\ \E b \in Serves(accel) :
       /\ decoder' = [Closed EXCEPT !.open = TRUE, !.backend = b, !.since = player.gen]
       /\ codec' = [Idle EXCEPT !.lane = b]
  /\ UNCHANGED <<env, player, pending, scheduled, screen>>

Full == decoder.cap # 0 /\ decoder.inFlight >= decoder.cap

\* submit: refused when full, before anything is decoded.
Submit ==
  /\ decoder.open /\ ~player.finished /\ player.next <= Len(Stream) /\ ~Full
  /\ IF Declined
       THEN /\ codec' = Probed
            /\ player' = [player EXCEPT !.next = @ + 1]  \* the player skips the chunk
            /\ UNCHANGED <<decoder, pending>>
       ELSE /\ QueueDecoded(Fed(Probed, Frame(Stream[player.next])))
            /\ player' = [player EXCEPT !.next = @ + 1]
  /\ UNCHANGED <<env, scheduled, screen>>

\* flush: the call waits for the pipeline to drain, at most five seconds.
Finish ==
  /\ decoder.open /\ ~player.finished /\ player.next > Len(Stream)
  /\ player' = [player EXCEPT !.finished = TRUE]
  /\ \E late \in BOOLEAN :
       LET drained == IF late \/ Frozen THEN codec
                      ELSE [codec EXCEPT !.held = <<>>, !.samples = @ \o codec.held]
       IN QueueDecoded([drained EXCEPT !.eos = TRUE])
  /\ UNCHANGED <<env, scheduled, screen>>

\* Mutant: the cleared frames stay on the books.
MutantReset == [decoder EXCEPT !.inFlight = @]

Reset == [decoder EXCEPT !.inFlight = @ - Len(pending)]

\* A seek to the start: the codec and the reorder buffer are emptied; frames
\* the guest holds and frames already scheduled are not touched.
Seek ==
  /\ decoder.open /\ player.gen < MaxGen
  /\ codec' = [codec EXCEPT !.held = <<>>, !.samples = <<>>, !.eos = FALSE]
  /\ decoder' = Reset
  /\ pending' = <<>>
  /\ player' = [player EXCEPT !.next = 1, !.finished = FALSE, !.pos = 0, !.gen = @ + 1]
  /\ UNCHANGED <<env, scheduled, screen>>

\* next-decoded: drain the codec and hand over the first frame, if any.
Take ==
  /\ decoder.open
  /\ LET queue == Queued(pending, codec.samples)
     IN /\ decoder' = Counting(Len(queue) - Len(pending))
        /\ codec' = [codec EXCEPT !.samples = <<>>]
        /\ IF queue = <<>> THEN UNCHANGED <<pending, player>>
           ELSE /\ pending' = Tail(queue)
                /\ player' = [player EXCEPT !.frames = @ \cup {Head(queue)}]
  /\ UNCHANGED <<env, scheduled, screen>>

\* The decoder is dropped: the reorder buffer goes, and with it the surface
\* the decoder is bound to, whoever owns that surface.
Close ==
  /\ decoder.open /\ player.gen < MaxGen
  /\ decoder' = Closed
  /\ pending' = <<>> /\ codec' = Idle
  /\ player' = [player EXCEPT !.next = 1, !.finished = FALSE, !.pos = 0, !.gen = @ + 1]
  /\ surfaces' = [s \in DOMAIN surfaces \ {decoder.surface} |-> surfaces[s]]
  /\ UNCHANGED <<env, scheduled, handle, nextId>>

(***************************************************************************)
(* Surfaces and presentation                                               *)
(***************************************************************************)

\* alloc_surface: a fresh id, never used again.
OpenSurface ==
  /\ handle = 0 /\ nextId <= MaxSurfaces
  /\ surfaces' = [s \in DOMAIN surfaces \cup {nextId} |->
                    IF s = nextId THEN NoFrame ELSE surfaces[s]]
  /\ handle' = nextId /\ nextId' = nextId + 1
  /\ UNCHANGED <<env, decoder, codec, player, pending, scheduled>>

DropSurface ==
  /\ handle # 0
  /\ surfaces' = [s \in DOMAIN surfaces \ {handle} |-> surfaces[s]]
  /\ handle' = 0
  /\ UNCHANGED <<env, decoder, codec, player, pending, scheduled, nextId>>

Attach ==
  /\ decoder.open /\ handle # 0
  /\ decoder' = [decoder EXCEPT !.surface = handle]
  /\ UNCHANGED <<env, codec, player, pending, scheduled, screen>>

\* surface_set_content: nothing happens on an id that is not registered.
Paint(s, f) ==
  surfaces' = IF s \in DOMAIN surfaces THEN [surfaces EXCEPT ![s] = f] ELSE surfaces

\* Releasing a frame takes it off the books of the decoder that made it.
Releasing(frames) ==
  decoder' = [decoder EXCEPT !.inFlight = @ - Cardinality({f \in frames : Owned(f)})]

\* Where the media clock puts a frame: how far ahead its deadline is.
Ahead(f) == IF f.pts > player.pos THEN f.pts - player.pos ELSE 0

\* present: due now, it is painted at once; ahead, it is scheduled.
Present ==
  /\ handle # 0
  /\ \/ Cardinality(player.frames) >= Cushion
     \/ player.finished /\ codec.held \o codec.samples \o pending = <<>>
  /\ \E f \in player.frames :
       /\ f.gen = player.gen
       /\ \A g \in player.frames : g.gen = player.gen => f.pts <= g.pts
       /\ player' = [player EXCEPT !.frames = @ \ {f}]
       /\ IF Ahead(f) = 0
            THEN /\ Paint(handle, f)
                 /\ Releasing({f})
                 /\ UNCHANGED scheduled
            ELSE /\ scheduled' =
                      LET sooner == {i \in DOMAIN scheduled : scheduled[i].due <= Ahead(f)}
                      IN InsertAt(scheduled, PartitionPoint(sooner) + 1,
                                  [due |-> Ahead(f), surface |-> handle, frame |-> f])
                 /\ UNCHANGED <<surfaces, decoder>>
  /\ UNCHANGED <<env, codec, pending, handle, nextId>>

\* The player drops a frame of before a seek.
Discard ==
  \E f \in player.frames :
    /\ f.gen # player.gen
    /\ player' = [player EXCEPT !.frames = @ \ {f}]
    /\ Releasing({f})
    /\ UNCHANGED <<env, codec, pending, scheduled, screen>>

DueCount == PartitionPoint({i \in DOMAIN scheduled : scheduled[i].due = 0})
Due == SubSeq(scheduled, 1, DueCount)

\* drain_scheduled, run by the host's frame: of the due frames of a surface
\* the last is painted, the others are released unseen.
Composite ==
  /\ DueCount > 0
  /\ scheduled' = SubSeq(scheduled, DueCount + 1, Len(scheduled))
  /\ surfaces' = [s \in DOMAIN surfaces |->
                    LET mine == {i \in DOMAIN Due : Due[i].surface = s}
                    IN IF mine = {} THEN surfaces[s]
                       ELSE Due[CHOOSE i \in mine : \A j \in mine : j <= i].frame]
  /\ Releasing({Due[i].frame : i \in DOMAIN Due})
  /\ UNCHANGED <<env, codec, player, pending, handle, nextId>>

LastPts == CHOOSE p \in ToSet(Stream) : \A q \in ToSet(Stream) : q <= p

\* Time passes: the media clock of the player and the host's are one.
Tick ==
  /\ player.pos < LastPts
  /\ player' = [player EXCEPT !.pos = @ + 1]
  /\ scheduled' = [i \in DOMAIN scheduled |->
                     [scheduled[i] EXCEPT !.due = IF @ = 0 THEN 0 ELSE @ - 1]]
  /\ UNCHANGED <<env, decoder, codec, pending, screen>>

Playback == \/ StreamingThread \/ Submit \/ Finish \/ Take \/ OpenSurface
            \/ Present \/ Discard \/ Composite \/ Tick

Next == \/ Playback \/ (\E accel \in Accels : Open(accel)) \/ Seek \/ Close
        \/ DropSurface \/ Attach

Spec == Init /\ [][Next]_vars
\* The player, the codec, the host's frames and time go on; what the guest is
\* free not to do (seek, close, attach) is not fair.
FairSpec == Spec /\ WF_vars(Playback)

(***************************************************************************)
(* Properties                                                              *)
(***************************************************************************)

Frames == [gen : 0 .. MaxGen, pts : Nat]

\* Every variable stays in its type.
TypeOK ==
  /\ decoder \in [open : BOOLEAN, backend : Backends, surface : Nat,
                  cap : Nat, inFlight : Nat, since : 0 .. MaxGen]
  /\ codec \in [lane : Backends, probed : BOOLEAN, held : Seq(Frames),
                samples : Seq(Frames), eos : BOOLEAN]
  /\ player.frames \subseteq Frames /\ pending \in Seq(Frames)
  /\ scheduled \in Seq([due : Nat, surface : Nat, frame : Frames])
  /\ \A s \in DOMAIN surfaces : s < nextId /\ surfaces[s] \in Frames \cup {NoFrame}

\* The in-flight count is exact: it is the number of the decoder's frames in
\* the reorder buffer, in the guest's hands and among the scheduled ones,
\* through seeks, drops and frames that outlive their surface or decoder.  A
\* leak here ends playback in a queue that stays full.
InFlightIsExact ==
  decoder.open =>
    decoder.inFlight =
      Len(pending) + Cardinality({f \in player.frames : Owned(f)})
      + Cardinality({i \in DOMAIN scheduled : Owned(scheduled[i].frame)})

\* On the lane that decodes inside the call, back-pressure keeps the decoded
\* frames within the cap.
SoftwareStaysInBudget ==
  decoder.open /\ codec.lane = "libvpx" /\ decoder.cap # 0
    => decoder.inFlight <= decoder.cap

\* The frames in flight are those the decoder has, and a software decoder never
\* has more of them than its budget.
InFlightCounted == InFlightIsExact /\ SoftwareStaysInBudget

\* A deep stream that has been moved to the software lane.
Rebuilt == tenBit /\ codec.probed /\ codec.lane = "gstreamer-sw"

\* Whatever the guest prefers and however often it reopens, what decodes is
\* within the operator's policy, a deep stream's move to software excepted; and
\* no chunk is left with a lane that will show nothing of it while there is a
\* software lane to move to.
AccelerationIsHonoured ==
  /\ decoder.open => codec.lane \in Candidates(policy) \/ Rebuilt
  /\ Frozen /\ codec.held # <<>> => "gstreamer-sw" \notin usable

\* Playback comes to its end: fed by back-pressure alone, with the cushion its
\* reorder depth asks for, the player neither starves nor waits for a slot
\* that only its own waiting keeps taken.
PlaybackGoesOn ==
  (decoder.open /\ ~Frozen) ~>
    \/ ~decoder.open \/ Frozen
    \/ handle = 0 /\ nextId > MaxSurfaces
    \/ player.finished /\ decoder.inFlight = 0

\* "only the newest is painted - showing the older ones would be showing the
\* past": the picture on a surface never goes back within one generation.  It
\* does: a late frame is painted at once, over it the composite drains an
\* older one whose deadline had also passed.
ShownNeverGoesBack ==
  [][\A s \in DOMAIN surfaces \cap DOMAIN surfaces' :
       (surfaces[s] # NoFrame /\ surfaces[s].gen = surfaces'[s].gen)
         => surfaces[s].pts <= surfaces'[s].pts]_vars

\* require_hardware: "Refuse to fall back to software - surface the HW error
\* instead of silently degrading."  A deep stream is moved to software whatever
\* is required.
RequiredIsDelivered ==
  decoder.open /\ policy.requireHardware => Hardware(codec.lane)

\* What `implementation` reports is what decodes.
ImplementationIsTrue == decoder.open => Hardware(decoder.backend) = Hardware(codec.lane)

\* "Total decoded-frame memory one decoder may have outstanding".
MemoryIsBounded == decoder.cap # 0 => decoder.inFlight <= decoder.cap

\* An embedder's surface is registered for as long as the embedder holds it.
EmbedderSurfaceLives == handle # 0 => handle \in DOMAIN surfaces

\* A seek discards queued work: nothing of before it appears after it.
SeekDiscards ==
  [][\A s \in DOMAIN surfaces \cap DOMAIN surfaces' :
       surfaces'[s] # surfaces[s] => surfaces'[s].gen = player.gen]_vars

=============================================================================
