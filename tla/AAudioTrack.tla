---------------------------- MODULE AAudioTrack -----------------------------
(***************************************************************************)
(* The AAudioService backend of audio_impl.rs (mod binder_path): one track *)
(* as the guest's thread, the mixer and a dying audioserver see it.  The   *)
(* silence pump of --probe-call-stall is no part of it: create_track       *)
(* leaves it out on purpose, so no track the guest opens has one.          *)
(*                                                                         *)
(* Host and service share a data ring with two counters and a queue of     *)
(* service events the host has to drain.  Only the distance of the         *)
(* counters matters: lead is write minus read for an output, and the       *)
(* frames waiting for a capture.  Every operation of the host runs under   *)
(* the lock of the track map, so it is one step.  Time is the mixer's:     *)
(* one burst after the other.                                              *)
(***************************************************************************)
EXTENDS Integers

CONSTANTS
    Kinds,    \* streams opened: "output", "capture"
    Cap,      \* frames in the ring (bufferCapacity)
    Burst,    \* frames the mixer moves at once
    Fifo,     \* events the service's queue takes (QUEUE_UP_CAPACITY_COMMANDS)
    Behind,   \* bound: how far the mixer's counter may run past the host's
    MaxOpens  \* bound: streams opened

ConstantsOK ==
    /\ Kinds \subseteq {"output", "capture"}
    /\ {Cap, Burst, Fifo} \subseteq Nat \ {0}
    /\ {Behind, MaxOpens} \subseteq Nat

VARIABLES
    service,  \* audioserver: runs, whether our stream is open and playing there
    cached,  \* the handle of media.aaudio: "none", "live", "stale"
    track,   \* the entry of the track map
    lead,    \* the counters of the data ring
    events,  \* service events not drained; more than Fifo: suspended
    quiet,   \* bursts since the guest's last write or read, at most Fifo + 1
    unheard, \* frames write_pcm_f32 said it took that were not played yet
    opens

vars == <<service, cached, track, lead, events, quiet, unheard, opens>>
-----------------------------------------------------------------------------
Least(a, b) == IF a < b THEN a ELSE b
Most(a, b)  == IF a < b THEN b ELSE a
Suspended == events > Fifo
Live(kinds) == track.open /\ track.kind \in kinds

Init ==
    /\ service = [up |-> TRUE, stream |-> FALSE, playing |-> FALSE]
    /\ cached = "none"
    /\ track = [open |-> FALSE, kind |-> "output"]
    /\ lead = 0 /\ events = 0 /\ quiet = 0 /\ unheard = 0 /\ opens = 0

(* service(): the cached handle if it answers a ping, else a new look-up      *)
(* with registerClient; nothing while audioserver is down.                   *)
Service == cached' = IF service.up THEN "live" ELSE "none"

(* What open_pcm_stream does after openStream, in its order; each can fail.   *)
Stages == {"getStreamDescription", "mmap", "queue", "resolve"}

\* Mutant: one error path returns without closeStream.
MutantAbort(stage) == [service EXCEPT !.stream = stage = "queue"]

(* Every error after openStream closes the stream on its way out.             *)
Abort(stage) == [service EXCEPT !.stream = FALSE]

(* create_track, create_capture through open_pcm_stream.                      *)
Open(kind) ==
    /\ ~track.open /\ opens < MaxOpens
    /\ opens' = opens + 1
    /\ Service
    /\ \/ /\ service.up
          /\ service' = [service EXCEPT !.stream = TRUE, !.playing = FALSE]
          /\ track' = [open |-> TRUE, kind |-> kind]
          /\ lead' = 0 /\ events' = 0 /\ quiet' = 0 /\ unheard' = 0
       \/ /\ service.up
          /\ \E stage \in Stages : service' = Abort(stage)
          /\ UNCHANGED <<track, lead, events, quiet, unheard>>
       \/ UNCHANGED <<service, track, lead, events, quiet, unheard>>  \* openStream refuses

\* Frames in flight and room for more: past an underrun the ring is empty.
InFlight == Most(lead, 0)
Taken(n) == Least(n, Cap - InFlight)

\* Mutant: the room is right after an underrun, but the host's counter is not
\* taken to the mixer's first.
MutantRingWrite(n) == lead + Taken(n)

(* ring_write: past an underrun the host's counter jumps to the mixer's; what *)
(* fits is written, the rest refused.                                        *)
RingWrite(n) == InFlight + Taken(n)

(* write_pcm_f32: drain the events, write, tell the guest how much it took.   *)
Write ==
    /\ Live({"output"})
    /\ \E n \in 1..(Cap + 1) : lead' = RingWrite(n) /\ unheard' = unheard + Taken(n)
    /\ events' = IF Suspended THEN events ELSE 0
    /\ quiet' = 0
    /\ UNCHANGED <<service, cached, track, opens>>

(* read_pcm_f32: the mirror for a capture.                                    *)
Read ==
    /\ Live({"capture"})
    /\ \E n \in 1..(Cap + 1) : lead' = lead - Least(n, lead)
    /\ events' = IF Suspended THEN events ELSE 0
    /\ quiet' = 0
    /\ UNCHANGED <<service, cached, track, unheard, opens>>

(* start and pause: the handle under the lock, the binder call without it.    *)
SetPlaying(on) ==
    /\ track.open
    /\ Service
    /\ service' = [service EXCEPT !.playing = IF service.stream THEN on ELSE @]
    /\ UNCHANGED <<track, lead, events, quiet, unheard, opens>>

Start == SetPlaying(TRUE)
Pause == SetPlaying(FALSE)

(* close: out of the map, then closeStream if the service is there.           *)
Close ==
    /\ track.open
    /\ track' = [track EXCEPT !.open = FALSE]
    /\ Service
    /\ service' = [service EXCEPT !.stream = FALSE, !.playing = FALSE]
    /\ UNCHANGED <<lead, events, quiet, unheard, opens>>

(* The mixer's burst.  An output's counter advances whether it was fed or     *)
(* not; an underrun queues an event, unthrottled, and a full queue suspends   *)
(* the stream for good.  A capture is filled as far as there is room.         *)
Mix ==
    /\ track.open /\ service.stream /\ service.playing /\ ~Suspended
    /\ IF track.kind = "capture"
       THEN lead' = Least(lead + Burst, Cap) /\ UNCHANGED <<events, unheard>>
       ELSE /\ lead' = Most(lead - Burst, -Behind)
            /\ events' = IF lead < Burst THEN events + 1 ELSE events
            /\ unheard' = unheard - Least(InFlight, Burst)
    /\ quiet' = Least(quiet + 1, Fifo + 1)
    /\ UNCHANGED <<service, cached, track, opens>>

(* audioserver dies with every stream; init starts it again.                  *)
ServerDies ==
    /\ service.up
    /\ service' = [up |-> FALSE, stream |-> FALSE, playing |-> FALSE]
    /\ cached' = IF cached = "live" THEN "stale" ELSE cached
    /\ UNCHANGED <<track, lead, events, quiet, unheard, opens>>

ServerComes ==
    /\ ~service.up
    /\ service' = [service EXCEPT !.up = TRUE]
    /\ UNCHANGED <<cached, track, lead, events, quiet, unheard, opens>>

Next ==
    \/ \E kind \in Kinds : Open(kind)
    \/ Write \/ Read \/ Start \/ Pause \/ Close
    \/ Mix \/ ServerDies \/ ServerComes

Spec == Init /\ [][Next]_vars
-----------------------------------------------------------------------------
(* Types, and the ring's bound: the host never laps the mixer.                *)
TypeOK ==
    /\ service \in [up : BOOLEAN, stream : BOOLEAN, playing : BOOLEAN]
    /\ cached \in {"none", "live", "stale"}
    /\ track \in [open : BOOLEAN, kind : {"output", "capture"}]
    /\ lead \in (-Behind)..Cap
    /\ events \in 0..(Fifo + 1) /\ quiet \in 0..(Fifo + 1) /\ unheard \in Int
    /\ opens \in 0..MaxOpens

(* No open stream of the service is without a track that will close it, and   *)
(* none outlives its service: error paths, restarts and closes included.       *)
NoStreamLeaks == service.stream => service.up /\ track.open

(* Only a guest that stalls loses its stream to the event queue: between two  *)
(* writes, each of which drains it, the service can queue as many events as   *)
(* it moved bursts, and suspends the stream when they are more than fit.      *)
OnlyStallsSuspend == [][~Suspended /\ Suspended' => quiet' > Fifo]_vars

(* What a write was said to have taken is in front of the mixer until it is   *)
(* played, also when the mixer had run past the host: no step of either side  *)
(* loses it, and an underrun costs silence only, never what is written after.  *)
TakenIsInFlight == track.open /\ track.kind = "output" => unheard = InFlight
TakenIsHeard == [][TakenIsInFlight']_vars
=============================================================================
