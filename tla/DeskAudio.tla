----------------------------- MODULE DeskAudio ------------------------------
(***************************************************************************)
(* Desktop audio: src/src/audio_desktop.rs under the playback and capture  *)
(* resources of wasi_audio_impl.rs.                                        *)
(*                                                                         *)
(* A stream is a ring shared with the device's callback thread under a     *)
(* lock.  The guest fills the ring of a playback stream and the callback   *)
(* empties it; a capture stream is the mirror.  When the device runs at    *)
(* another rate than the guest the callback resamples: its cursor is a     *)
(* fractional frame, kept here in units of 1/den of a frame.  A step is a  *)
(* locked section of either thread.  Frames are numbered in the order they *)
(* enter the ring's side of the stream: as the guest writes them, or as    *)
(* the device delivers them.                                               *)
(***************************************************************************)
EXTENDS Integers, Sequences

CONSTANTS
    Kinds,      \* streams the guest opens: "playback", "capture"
    Ratios,     \* <<num, den>>: the guest's rate over the device's
    Cap,        \* frames the ring holds (BUFFER_SECS)
    Burst,      \* bound: device frames of one callback
    MaxFrames   \* bound: frames written, or delivered by the device

ConstantsOK ==
    /\ Kinds \subseteq {"playback", "capture"}
    /\ Ratios \subseteq (Nat \ {0}) \X (Nat \ {0})
    /\ {Cap, Burst} \subseteq Nat \ {0} /\ MaxFrames \in Nat

VARIABLES
    stream,   \* DeskStream: kind, ratio, running; or what open came to
    ring,     \* DeskStream.ring
    cursor,   \* the callback's cursor, in 1/den frames
    carry,    \* the capture callback's previous frame is there
    written,  \* PlaybackRes.written
    guest,    \* inside flush: the backlog read before clearing
    count     \* in: frames in so far; got: last frame out; shown: last position

vars == <<stream, ring, cursor, carry, written, guest, count>>

-----------------------------------------------------------------------------
Idle == -1
Closed == [kind |-> "closed", num |-> 1, den |-> 1, running |-> FALSE, mix |-> FALSE]
Least(a, b) == IF a < b THEN a ELSE b
DropFirst(s, n) == SubSeq(s, n + 1, Len(s))
Num == stream.num
Den == stream.den
IsOpen(kind) == stream.kind = kind /\ guest = Idle

Init ==
    /\ stream = Closed /\ ring = <<>> /\ cursor = 0 /\ carry = FALSE
    /\ written = 0 /\ guest = Idle
    /\ count = [in |-> 0, got |-> 0, shown |-> 0]

-----------------------------------------------------------------------------

(* create_track and open_capture.  The attempts in their order: the guest's *)
(* format, then the device's channels, its rate, both.  A format is          *)
(* <<channels, rate>>, each the guest's own or that of the mix format.       *)
Attempts(sameCh, sameRate) ==
       <<<<"guest", "guest">>>>
    \o (IF sameCh THEN <<>> ELSE <<<<"mix", "guest">>>>)
    \o (IF sameRate THEN <<>> ELSE <<<<"guest", "mix">>>>)
    \o (IF sameCh \/ sameRate THEN <<>> ELSE <<<<"mix", "mix">>>>)

(* What an attempt asks of the device, when a value of the guest is the mix's.*)
Asked(try, sameCh, sameRate) ==
    <<IF sameCh THEN "mix" ELSE try[1], IF sameRate THEN "mix" ELSE try[2]>>

Formats == {"guest", "mix"} \X {"guest", "mix"}

Open(kind) ==
    /\ stream = Closed
    /\ \E accepts \in SUBSET Formats, sameCh, plays \in BOOLEAN, ratio \in Ratios :
         LET sameRate == ratio[1] = ratio[2]
             tries == Attempts(sameCh, sameRate)
             taken == {i \in DOMAIN tries : Asked(tries[i], sameCh, sameRate) \in accepts}
             good  == taken # {} /\ plays
             own   == good /\ \E i \in taken : tries[i][2] = "guest" /\ \A j \in taken : i <= j
         IN stream' = [kind |-> IF good THEN kind ELSE "failed",
                       num |-> IF own \/ ~good THEN 1 ELSE ratio[1],
                       den |-> IF own \/ ~good THEN 1 ELSE ratio[2],
                       running |-> FALSE,
                       mix |-> plays /\ <<"mix", "mix">> \in accepts]
    /\ UNCHANGED <<ring, cursor, carry, written, guest, count>>

(* The guest's write: what fits, and the count behind the position clock.    *)
Write ==
    /\ IsOpen("playback")
    /\ \E n \in 1..Burst :
         LET take == Least(n, Cap - Len(ring)) IN
         /\ count.in + take <= MaxFrames
         /\ ring' = ring \o [i \in 1..take |-> count.in + i]
         /\ written' = written + take
         /\ count' = [count EXCEPT !.in = @ + take]
    /\ UNCHANGED <<stream, cursor, carry, guest>>

(* position(): frames accepted and no longer buffered.                       *)
Position ==
    /\ IsOpen("playback")
    /\ count' = [count EXCEPT !.shown =
                     IF written < Len(ring) THEN 0 ELSE written - Len(ring)]
    /\ UNCHANGED <<stream, ring, cursor, carry, written, guest>>

Start ==
    /\ \E kind \in Kinds : IsOpen(kind)
    /\ stream' = [stream EXCEPT !.running = TRUE]
    /\ UNCHANGED <<ring, cursor, carry, written, guest, count>>

Pause ==
    /\ \E kind \in Kinds : IsOpen(kind)
    /\ stream' = [stream EXCEPT !.running = FALSE]
    /\ UNCHANGED <<ring, cursor, carry, written, guest, count>>

(* flush of the playback resource: the backlog is read under the lock ...    *)
FlushRead ==
    /\ IsOpen("playback")
    /\ guest' = Len(ring)
    /\ UNCHANGED <<stream, ring, cursor, carry, written, count>>

(* ... the ring is cleared under it again, and the count corrected.          *)
FlushClear ==
    /\ guest # Idle
    /\ ring' = <<>>
    /\ written' = IF written < guest THEN 0 ELSE written - guest
    /\ guest' = Idle
    /\ UNCHANGED <<stream, cursor, carry, count>>

(* Dropping the resource drops the device stream and with it the callback.   *)
Close ==
    /\ \E kind \in Kinds : IsOpen(kind)
    /\ stream' = [stream EXCEPT !.kind = "gone", !.running = FALSE]
    /\ ring' = <<>>
    /\ UNCHANGED <<cursor, carry, written, guest, count>>

-----------------------------------------------------------------------------
(* The frames of the ring the callback's k device frames look at.            *)
Touched(k) == {(cursor + j * Num) \div Den + 1 : j \in 0..(k - 1)} \cap (1..Len(ring))

\* Mutant: what the callback drops is rounded up to whole frames.
MutantRoundedCallback ==
    /\ stream.kind = "playback" /\ stream.running
    /\ \E k \in 1..Burst :
         LET consumed == Least((cursor + k * Num + Den - 1) \div Den, Len(ring)) IN
         /\ cursor' = 0
         /\ ring' = DropFirst(ring, consumed)
         /\ count' = [count EXCEPT !.got =
                IF Touched(k) = {} THEN @
                ELSE ring[CHOOSE i \in Touched(k) : \A j \in Touched(k) : j <= i]]
    /\ UNCHANGED <<stream, carry, written, guest>>

(* The output callback asked for k device frames.                            *)
PlayCallback ==
    /\ stream.kind = "playback" /\ stream.running
    /\ \E k \in 1..Burst :
         LET want == (cursor + k * Num) \div Den
             consumed == Least(want, Len(ring))
             next == cursor + k * Num - consumed * Den
         IN IF ring = <<>>
            THEN cursor' = 0 /\ UNCHANGED <<ring, count>>
            ELSE /\ cursor' = IF want > Len(ring) THEN next % Den ELSE next
                 /\ ring' = DropFirst(ring, consumed)
                 /\ count' = [count EXCEPT !.got =
                        IF \E i \in Touched(k) : ring[i] > @
                        THEN ring[CHOOSE i \in Touched(k) : \A j \in Touched(k) : j <= i]
                        ELSE @]
    /\ UNCHANGED <<stream, carry, written, guest>>

(* Logical frames the resampling capture callback makes of one device frame, *)
(* and the cursor it leaves: it emits while the cursor is below one frame    *)
(* and advances it by the ratio each time.                                   *)
Emitted(c) == IF c >= Den THEN 0 ELSE (Den - c + Num - 1) \div Num

(* Appending to a ring that drops its oldest frame when it is full.          *)
Pushed(s, new) ==
    LET all == s \o new IN DropFirst(all, IF Len(all) > Cap THEN Len(all) - Cap ELSE 0)

(* The input callback with one device frame; paused, the frame is lost.      *)
CaptureCallback ==
    /\ stream.kind = "capture" /\ stream.running
    /\ count.in < MaxFrames
    /\ LET f == count.in + 1
           n == IF Num = Den THEN 1 ELSE IF carry THEN Emitted(cursor) ELSE 0
       IN /\ ring' = Pushed(ring, [i \in 1..n |-> f])
          /\ written' = written + n
          /\ count' = [count EXCEPT !.in = f]
          /\ IF Num = Den THEN UNCHANGED <<cursor, carry>>
             ELSE cursor' = cursor + n * Num - Den /\ carry' = TRUE
    /\ UNCHANGED <<stream, guest>>

Read ==
    /\ IsOpen("capture") /\ ring # <<>>
    /\ \E max \in 1..Burst :
         LET n == Least(max, Len(ring)) IN
         /\ ring' = DropFirst(ring, n)
         /\ count' = [count EXCEPT !.got = ring[n], !.shown = ring[1]]
    /\ UNCHANGED <<stream, cursor, carry, written, guest>>

Done == stream.kind \in {"failed", "gone"} /\ UNCHANGED vars

Next ==
    \/ \E kind \in Kinds : Open(kind)
    \/ Write \/ Position \/ Start \/ Pause \/ FlushRead \/ FlushClear \/ Close
    \/ PlayCallback \/ CaptureCallback \/ Read
    \/ Done

Spec == Init /\ [][Next]_vars

-----------------------------------------------------------------------------
(* Types, and the ring's bound.                                              *)
TypeOK ==
    /\ stream \in [kind : {"closed", "failed", "gone", "playback", "capture"},
                   num : Nat \ {0}, den : Nat \ {0}, running : BOOLEAN, mix : BOOLEAN]
    /\ ring \in Seq(1..MaxFrames) /\ Len(ring) <= Cap
    /\ cursor \in Int /\ carry \in BOOLEAN
    /\ written \in Nat /\ guest \in {Idle} \cup 0..Cap
    /\ count \in [in : 0..MaxFrames, got : 0..MaxFrames, shown : Nat]

(* Between two callbacks the playback cursor is inside the ring's first      *)
(* frame, after an underrun and a partial one too: were it beyond, audio     *)
(* written later would be passed over as silence.                            *)
CursorInFirstFrame == stream.kind = "playback" => cursor \in 0..(Den - 1)

(* A device that takes its own mix format can always be opened: some attempt *)
(* of the fallback reaches it whichever of channels and rate differ.         *)
MixFormatOpens == stream.kind = "failed" => ~stream.mix

(* The position clock of wasi:audio never goes back, flushes included: the   *)
(* backlog a flush subtracts is no smaller than what it then throws away.    *)
PositionIsMonotone == [][stream.kind = "playback" => count'.shown >= count.shown]_vars

(* Unless the device runs slower than the guest, every frame that leaves the *)
(* ring by the callback has been heard: the resampler skips none.            *)
NoFrameSkipped ==
    [][(stream.kind = "playback" /\ Num <= Den /\ guest' = guest /\ stream' = stream)
         => \A i \in 1..(Len(ring) - Len(ring')) : ring[i] <= count'.got]_vars

(* The capture ring keeps the newest audio, in order and without a hole,     *)
(* however late the guest reads.                                             *)
CaptureKeepsTheNewest ==
    (stream.kind = "capture" /\ Num = Den /\ ring # <<>>)
      => \A i \in 1..Len(ring) : ring[i] = count.in - Len(ring) + i

(* Capture at another rate makes as many frames as the guest's rate says:    *)
(* num for every den of the device, give or take the frame in the making.    *)
CaptureKeepsTheRate ==
    (stream.kind = "capture" /\ carry)
      => /\ written * Den <= count.in * Num + Den + Num
         /\ written * Den >= count.in * Num - 2 * (Den + Num)
=============================================================================
