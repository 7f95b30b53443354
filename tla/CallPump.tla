------------------------------ MODULE CallPump ------------------------------
(***************************************************************************)
(* The jitter buffer of a voice-call output track: audioclient_path in     *)
(* src/src/audio_impl.rs under the playback resource of wasi_audio_impl.rs.*)
(*                                                                         *)
(* The guest's thread writes into a host buffer; a pump thread moves it    *)
(* into the AudioFlinger ring every cycle, pads with silence, and starts   *)
(* the server track once the ring is full.  The two share OutState under a *)
(* lock that neither holds across a call into audioclient (the external    *)
(* crate that owns the ring and the server track), so a call of the guest  *)
(* and a cycle of the pump interleave at every lock and every such call.   *)
(*                                                                         *)
(* Real frames are numbered in the order the guest writes them; Silence is *)
(* padding.                                                                *)
(***************************************************************************)
EXTENDS Integers, Sequences, FiniteSets

CONSTANTS
    Target,      \* frames of the server's ring (frameCount)
    JitterCap,   \* JITTER_CAP_FRAMES: frames the host buffer may hold
    MaxFrames,   \* bound: real frames the guest writes in all
    Ops          \* the calls this guest makes besides write and start

ASSUME SizesAssumption ==
    /\ Target \in Nat \ {0}
    /\ JitterCap \in Nat \ {0}
    /\ MaxFrames \in Nat
ASSUME OpsAssumption == Ops \subseteq {"pause", "flush", "drain", "close"}

VARIABLES
    out,     \* OutState: entry still there, started, serverStarted, guestWrote
    buf,     \* OutState.buf, the jitter buffer
    guest,   \* the guest's call: where it is, and what flush has read
    pump,    \* the pump's cycle: where it is, and its locals
    ring,    \* external: frames in the server's ring
    af,      \* external: state of the server track
    mapped,  \* external: the ring is mmapped, so frame_count is known
    written, \* PlaybackRes.written
    count    \* real frames accepted, moved out of buf, and last one heard

vars == <<out, buf, guest, pump, ring, af, mapped, written, count>>
external == <<ring, af, mapped>>

-----------------------------------------------------------------------------
Silence == 0
Frames  == 0..MaxFrames
Least(a, b) == IF a < b THEN a ELSE b
IsReal(f) == f # Silence

\* The real frames of s, in order: f[n] are those of its first n frames.
RealUpTo(s) ==
    LET f[n \in 0..Len(s)] == IF n = 0 THEN <<>>
                              ELSE IF IsReal(s[n]) THEN Append(f[n - 1], s[n]) ELSE f[n - 1]
    IN  f
RealOf(s) == RealUpTo(s)[Len(s)]

Padding(n) == [i \in 1..n |-> Silence]
Drop(s, n) == SubSeq(s, n + 1, Len(s))
Take(s, n) == SubSeq(s, 1, n)

GuestIdle == [pc |-> "idle", dropped |-> 0, pos |-> 0]
PumpSleep == [pc |-> "sleep", ss |-> FALSE, need |-> 0, chunk |-> <<>>]

GuestPCs == {"idle", "pause", "flushRead", "flushPause", "flushRing",
             "flushCount", "close", "closed"}
PumpPCs  == {"sleep", "pending", "drain", "write", "start", "mark"}

\* pending_frames() of a call track is the backlog of the jitter buffer, and
\* position() is what was written less that.
Position == written - Len(buf)

TypeOK ==
    /\ out \in [open : BOOLEAN, started : BOOLEAN, serverStarted : BOOLEAN,
                guestWrote : BOOLEAN]
    /\ buf \in Seq(Frames \ {Silence}) /\ Len(buf) <= JitterCap
    /\ guest \in [pc : GuestPCs, dropped : 0..JitterCap, pos : 0..MaxFrames]
    /\ pump \in [pc : PumpPCs, ss : BOOLEAN, need : 0..Target,
                 chunk : Seq(Frames)]
    /\ Len(pump.chunk) <= Target
    /\ ring \in Seq(Frames) /\ Len(ring) <= Target
    /\ af \in {"paused", "active", "stopping", "disabled", "gone"}
    /\ mapped \in BOOLEAN
    /\ written \in 0..MaxFrames
    /\ count \in [accepted : Frames, moved : Frames, heard : Frames]

Init ==
    /\ out = [open |-> TRUE, started |-> FALSE, serverStarted |-> FALSE,
              guestWrote |-> FALSE]
    /\ buf = <<>>
    /\ guest = GuestIdle
    /\ pump = PumpSleep
    /\ ring = <<>> /\ af = "paused" /\ mapped = FALSE
    /\ written = 0
    /\ count = [accepted |-> 0, moved |-> 0, heard |-> 0]

-----------------------------------------------------------------------------
(* The guest's calls.                                                      *)

\* Mutant: the jitter buffer takes everything.
MutantWriteUncapped(n) ==
    /\ guest.pc = "idle" /\ count.accepted + n <= MaxFrames
    /\ buf' = buf \o [i \in 1..n |-> count.accepted + i]
    /\ count' = [count EXCEPT !.accepted = @ + n]
    /\ written' = written + n
    /\ out' = [out EXCEPT !.guestWrote = TRUE]
    /\ UNCHANGED <<guest, pump, external>>

\* write: what fits below the cap is taken, the rest is refused.
Write(n) ==
    /\ guest.pc = "idle" /\ count.accepted + n <= MaxFrames
    /\ LET take == Least(n, JitterCap - Len(buf))
       IN  /\ buf' = buf \o [i \in 1..take |-> count.accepted + i]
           /\ count' = [count EXCEPT !.accepted = @ + take]
           /\ written' = written + take
    /\ out' = [out EXCEPT !.guestWrote = TRUE]
    /\ UNCHANGED <<guest, pump, external>>

\* start: only the intent is recorded, the pump starts the server track.
Start ==
    /\ guest.pc = "idle"
    /\ out' = [out EXCEPT !.started = TRUE]
    /\ UNCHANGED <<buf, guest, pump, external, written, count>>

\* pause: the flags under the lock, then the server track.
Pause ==
    /\ "pause" \in Ops /\ guest.pc = "idle"
    /\ out' = [out EXCEPT !.started = FALSE, !.serverStarted = FALSE]
    /\ guest' = [guest EXCEPT !.pc = "pause"]
    /\ UNCHANGED <<buf, pump, external, written, count>>

PauseServer ==
    /\ guest.pc = "pause"
    /\ af' = "paused"
    /\ guest' = GuestIdle
    /\ UNCHANGED <<out, buf, pump, ring, mapped, written, count>>

\* flush: read the backlog, clear it under the lock, pause and flush the
\* server track, then take the backlog off the position clock.
Flush ==
    /\ "flush" \in Ops /\ guest.pc = "idle"
    /\ guest' = [pc |-> "flushRead", dropped |-> Len(buf), pos |-> Position]
    /\ UNCHANGED <<out, buf, pump, external, written, count>>

FlushBuffer ==
    /\ guest.pc = "flushRead"
    /\ buf' = <<>>
    /\ out' = [out EXCEPT !.started = FALSE, !.serverStarted = FALSE]
    /\ guest' = [guest EXCEPT !.pc = "flushPause"]
    /\ UNCHANGED <<pump, external, written, count>>

FlushPause ==
    /\ guest.pc = "flushPause"
    /\ af' = "paused"
    /\ guest' = [guest EXCEPT !.pc = "flushRing"]
    /\ UNCHANGED <<out, buf, pump, ring, mapped, written, count>>

\* AudioFlinger flushes only a track that is not playing.
FlushRing ==
    /\ guest.pc = "flushRing"
    /\ ring' = IF af = "paused" THEN <<>> ELSE ring
    /\ guest' = [guest EXCEPT !.pc = "flushCount"]
    /\ UNCHANGED <<out, buf, pump, af, mapped, written, count>>

\* Mutant: the position clock restarts at a flush.
MutantFlushResetsCount ==
    /\ guest.pc = "flushCount"
    /\ written' = 0
    /\ guest' = GuestIdle
    /\ UNCHANGED <<out, buf, pump, external, count>>

FlushCount ==
    /\ guest.pc = "flushCount"
    /\ written' = written - Least(written, guest.dropped)
    /\ guest' = GuestIdle
    /\ UNCHANGED <<out, buf, pump, external, count>>

\* drain: stop() lets the ring play out; the host's flags stay as they are.
Drain ==
    /\ "drain" \in Ops /\ guest.pc = "idle"
    /\ af' = IF af = "active" THEN "stopping" ELSE "paused"
    /\ UNCHANGED <<out, buf, guest, pump, ring, mapped, written, count>>

\* close: the entry goes first, the server track after.
Close ==
    /\ "close" \in Ops /\ guest.pc = "idle"
    /\ out' = [open |-> FALSE, started |-> FALSE, serverStarted |-> FALSE,
               guestWrote |-> FALSE]
    /\ buf' = <<>>
    /\ guest' = [guest EXCEPT !.pc = "close"]
    /\ UNCHANGED <<pump, external, written, count>>

CloseServer ==
    /\ guest.pc = "close"
    /\ af' = "gone" /\ ring' = <<>>
    /\ guest' = [guest EXCEPT !.pc = "closed"]
    /\ UNCHANGED <<out, buf, pump, mapped, written, count>>

-----------------------------------------------------------------------------
(* The pump: one cycle for one track.  Every step gives up on the track    *)
(* when its entry is gone; a ring that is not mapped yet is passed over.   *)

\* The snapshot of active tracks and the learning of the ring's size.
PumpSnapshot ==
    /\ pump.pc = "sleep" /\ out.open /\ out.started /\ out.guestWrote /\ mapped
    /\ pump' = [pump EXCEPT !.pc = "pending"]
    /\ UNCHANGED <<out, buf, guest, external, written, count>>

\* Mutant: every cycle tops up by a whole ring.
MutantNeedWholeRing ==
    /\ pump.pc = "pending"
    /\ pump' = IF out.open /\ Len(ring) < Target
               THEN [pc |-> "drain", ss |-> out.serverStarted,
                     need |-> Target, chunk |-> <<>>]
               ELSE PumpSleep
    /\ UNCHANGED <<out, buf, guest, external, written, count>>

\* server_started is read under the lock, the ring's fill right after.  A
\* full ring ends the cycle.
PumpPending ==
    /\ pump.pc = "pending"
    /\ LET need == Target - Len(ring)
       IN  pump' = IF out.open /\ need > 0
                   THEN [pc |-> "drain", ss |-> out.serverStarted,
                         need |-> need, chunk |-> <<>>]
                   ELSE PumpSleep
    /\ UNCHANGED <<out, buf, guest, external, written, count>>

\* Mutant: no silence padding.
MutantNoPadding ==
    /\ pump.pc = "drain"
    /\ IF ~out.open \/ (~out.serverStarted /\ Len(buf) < Target \div 2)
       THEN pump' = PumpSleep /\ UNCHANGED <<buf, count>>
       ELSE LET n == Least(pump.need, Len(buf))
            IN  /\ pump' = [pump EXCEPT !.pc = "write", !.chunk = Take(buf, n)]
                /\ buf' = Drop(buf, n)
                /\ count' = [count EXCEPT !.moved = @ + n]
    /\ UNCHANGED <<out, guest, external, written>>

\* Mutant: the whole backlog is taken, though only part of it fits the ring.
MutantDrainAll ==
    /\ pump.pc = "drain"
    /\ IF ~out.open \/ (~out.serverStarted /\ Len(buf) < Target \div 2)
       THEN pump' = PumpSleep /\ UNCHANGED <<buf, count>>
       ELSE LET n == Least(pump.need, Len(buf))
            IN  /\ pump' = [pump EXCEPT !.pc = "write",
                               !.chunk = Take(buf, n) \o Padding(pump.need - n)]
                /\ buf' = <<>>
                /\ count' = [count EXCEPT !.moved = @ + Len(buf)]
    /\ UNCHANGED <<out, guest, external, written>>

\* Under the lock: wait for half a ring of real audio before the first
\* start, else take what there is and pad it to a full ring.
PumpDrain ==
    /\ pump.pc = "drain"
    /\ IF ~out.open \/ (~out.serverStarted /\ Len(buf) < Target \div 2)
       THEN pump' = PumpSleep /\ UNCHANGED <<buf, count>>
       ELSE LET n == Least(pump.need, Len(buf))
            IN  /\ pump' = [pump EXCEPT !.pc = "write",
                               !.chunk = Take(buf, n) \o Padding(pump.need - n)]
                /\ buf' = Drop(buf, n)
                /\ count' = [count EXCEPT !.moved = @ + n]
    /\ UNCHANGED <<out, guest, external, written>>

\* Mutant: a track disabled after an underrun is written to, not restarted.
MutantNoRestart ==
    /\ pump.pc = "write"
    /\ ring' = IF af = "gone" THEN ring
               ELSE ring \o Take(pump.chunk, Least(Len(pump.chunk), Target - Len(ring)))
    /\ pump' = IF pump.ss THEN PumpSleep
               ELSE [pump EXCEPT !.pc = "start", !.chunk = <<>>]
    /\ UNCHANGED <<out, buf, guest, af, mapped, written, count>>

\* audioclient::write takes what fits and restarts a track that the server
\* disabled after an underrun; what does not fit is lost.
PumpWrite ==
    /\ pump.pc = "write"
    /\ IF af = "gone" THEN UNCHANGED <<ring, af>>
       ELSE /\ ring' = ring \o Take(pump.chunk, Least(Len(pump.chunk), Target - Len(ring)))
            /\ af' = IF af = "disabled" THEN "active" ELSE af
    /\ pump' = IF pump.ss THEN PumpSleep
               ELSE [pump EXCEPT !.pc = "start", !.chunk = <<>>]
    /\ UNCHANGED <<out, buf, guest, mapped, written, count>>

\* audioclient::start, once, with a full ring ...
PumpStart ==
    /\ pump.pc = "start"
    /\ af' = IF af = "gone" THEN af ELSE "active"
    /\ pump' = [pump EXCEPT !.pc = "mark"]
    /\ UNCHANGED <<out, buf, guest, ring, mapped, written, count>>

\* ... and only then server_started, under the lock.
PumpMark ==
    /\ pump.pc = "mark"
    /\ out' = [out EXCEPT !.serverStarted = @ \/ out.open]
    /\ pump' = PumpSleep
    /\ UNCHANGED <<buf, guest, external, written, count>>

-----------------------------------------------------------------------------
(* AudioFlinger.                                                           *)

\* The ring becomes visible to the process.
ServerMap ==
    /\ ~mapped /\ mapped' = TRUE
    /\ UNCHANGED <<out, buf, guest, pump, ring, af, written, count>>

\* The mixer plays a frame.
ServerPlay ==
    /\ af \in {"active", "stopping"} /\ ring # <<>>
    /\ ring' = Tail(ring)
    /\ count' = [count EXCEPT !.heard = IF IsReal(Head(ring)) THEN Head(ring) ELSE @]
    /\ UNCHANGED <<out, buf, guest, pump, af, mapped, written>>

\* An empty ring: a stopping track has played out, an active one is dropped
\* from the mixer (BUFFER TIMEOUT).
ServerUnderrun ==
    /\ af \in {"active", "stopping"} /\ ring = <<>>
    /\ af' = IF af = "active" THEN "disabled" ELSE "paused"
    /\ UNCHANGED <<out, buf, guest, pump, ring, mapped, written, count>>

-----------------------------------------------------------------------------
GuestRest == PauseServer \/ FlushBuffer \/ FlushPause \/ FlushRing
                \/ FlushCount \/ CloseServer

Guest ==
    \/ \E n \in 1..2 : Write(n)
    \/ Start \/ Pause \/ Flush \/ Drain \/ Close
    \/ GuestRest

Pump == PumpSnapshot \/ PumpPending \/ PumpDrain \/ PumpWrite \/ PumpStart \/ PumpMark

Server == ServerMap \/ ServerPlay \/ ServerUnderrun

Next == Guest \/ Pump \/ Server

Spec == Init /\ [][Next]_vars

\* A call once made returns, the pump thread cycles every 10 ms, and the
\* mixer plays an active track.  Nothing makes the guest call anything, and
\* an underrun need not last.
Fairness ==
    /\ WF_vars(GuestRest)
    /\ WF_vars(Pump)
    /\ WF_vars(ServerMap)
    /\ WF_vars(ServerPlay)
FairSpec == Spec /\ Fairness

-----------------------------------------------------------------------------
(* The track implements the FIFO: what waits is what the ring, the pump's  *)
(* chunk and the jitter buffer hold, in that order.                        *)
Stream == INSTANCE CallStream WITH
    queue      <- RealOf(ring) \o RealOf(pump.chunk) \o buf,
    accepted   <- count.accepted,
    heard      <- count.heard,
    discarding <- guest.pc \notin {"idle", "pause"}

\* No interleaving of guest, pump and mixer loses, repeats or reorders a real
\* frame on its way through the three stages.
StreamIsFifo == Stream!Spec

-----------------------------------------------------------------------------
(* Safety.                                                                 *)

\* A chunk always fits the ring: nothing is lost although the pump does not
\* look at how much audioclient::write took.
WritesFit ==
    pump.pc = "write" => Len(ring) + Len(pump.chunk) <= Target

\* position(), whenever the guest can ask for it, never runs ahead of the
\* frames that have left the jitter buffer.
PositionNeverAhead ==
    guest.pc = "idle" => Position <= count.moved

-----------------------------------------------------------------------------
(* Action properties.                                                      *)

\* position() never goes back, across a flush as well, with the pump draining
\* the backlog between the flush's reading and its clearing of it.
PositionIsMonotone ==
    [][guest'.pc = "idle" =>
         Position' >= (IF guest.pc = "idle" THEN Position ELSE guest.pos)]_vars

\* The server track is first started with a full ring, however the guest's
\* writes fall into the cycles.  (Not with pauses or flushes among the calls.)
StartIsFull ==
    pump.pc = "start" /\ pump'.pc = "mark" /\ af # "gone" => Len(ring) = Target
StartsOnAFullRing == [][StartIsFull]_vars

-----------------------------------------------------------------------------
(* Liveness.                                                               *)

\* Once half a ring of audio waits on a started track, every frame accepted
\* is heard, through underruns and restarts, unless the track is closed.
AcceptedIsHeard ==
    \A f \in 1..MaxFrames :
        (count.accepted >= f /\ out.started /\ Len(buf) >= Target \div 2)
            ~> (count.heard >= f \/ ~out.open)

-----------------------------------------------------------------------------
(* What the comments promise and the code does not keep.                   *)

\* audio_impl.rs:1766, "pause = stop now": after pause() the server track
\* does not play until the guest starts it again.
PauseSilences ==
    [][guest.pc = "idle" /\ out.open /\ ~out.started => ~(af # "active" /\ af' = "active")]_vars
=============================================================================
