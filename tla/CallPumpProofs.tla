--------------------------- MODULE CallPumpProofs ---------------------------
(***************************************************************************)
(* The ring is never overrun, the position clock never runs ahead or back, *)
(* jitter buffer, chunk and ring are together a FIFO, and the track starts *)
(* on a full ring, for every size of ring and jitter buffer and every      *)
(* guest.                                                                  *)
(***************************************************************************)
EXTENDS CallPump, SequenceTheorems, WellFoundedInduction, TLAPS

-----------------------------------------------------------------------------
(* What the sequence operators return.                                     *)

Real == Frames \ {Silence}

LEMMA TakeDrop ==
    ASSUME NEW S, NEW s \in Seq(S), NEW n \in 0..Len(s)
    PROVE  /\ Take(s, n) \in Seq(S) /\ Len(Take(s, n)) = n
           /\ Drop(s, n) \in Seq(S) /\ Len(Drop(s, n)) = Len(s) - n
<1>1. \A i \in 1..Len(s) : s[i] \in S
  BY ElementOfSeq
<1>2. Len(s) \in Nat
  BY LenProperties
<1>3. Take(s, n) \in Seq(S) /\ Len(Take(s, n)) = n
  BY <1>1, <1>2, SubSeqProperties DEF Take
<1>4. Drop(s, n) \in Seq(S) /\ Len(Drop(s, n)) = Len(s) - n
  BY <1>1, <1>2, SubSeqProperties DEF Drop
<1> QED
  BY <1>3, <1>4

LEMMA PaddingType ==
    ASSUME NEW n \in Nat
    PROVE  Padding(n) \in Seq(Frames) /\ Len(Padding(n)) = n
BY SizesAssumption DEF Padding, Frames, Silence

\* The frames a write numbers are new ones.
LEMMA NewFrames ==
    ASSUME NEW a \in Nat, NEW n \in Nat, a + n <= MaxFrames
    PROVE  /\ [i \in 1..n |-> a + i] \in Seq(Real)
           /\ Len([i \in 1..n |-> a + i]) = n
BY SizesAssumption DEF Real, Frames, Silence

\* A padded chunk is as long as the ring has room.
LEMMA ChunkType ==
    ASSUME NEW s \in Seq(Real), NEW need \in Nat, NEW n \in Nat, n <= need, n <= Len(s)
    PROVE  /\ Take(s, n) \o Padding(need - n) \in Seq(Frames)
           /\ Len(Take(s, n) \o Padding(need - n)) = need
<1>1. need - n \in Nat /\ n \in 0..Len(s)
  BY LenProperties
<1>2. Take(s, n) \in Seq(Real) /\ Len(Take(s, n)) = n
  BY <1>1, TakeDrop
<1>3. Real \subseteq Frames
  BY DEF Real
<1>4. Take(s, n) \in Seq(Frames)
  BY <1>2, <1>3, SeqMonotonic
<1>5. Padding(need - n) \in Seq(Frames) /\ Len(Padding(need - n)) = need - n
  BY <1>1, PaddingType
<1> HIDE DEF Real
<1>6. /\ Take(s, n) \o Padding(need - n) \in Seq(Frames)
      /\ Len(Take(s, n) \o Padding(need - n)) = n + (need - n)
  BY <1>2, <1>4, <1>5, ConcatProperties
<1> QED
  BY <1>6

-----------------------------------------------------------------------------
(* TypeOK with its records named.                                          *)

Outs == [open : BOOLEAN, started : BOOLEAN, serverStarted : BOOLEAN, guestWrote : BOOLEAN]
Guests == [pc : GuestPCs, dropped : 0..JitterCap, pos : 0..MaxFrames]
Pumps == [pc : PumpPCs, ss : BOOLEAN, need : 0..Target, chunk : Seq(Frames)]
Counts == [accepted : Frames, moved : Frames, heard : Frames]
Tracks == {"paused", "active", "stopping", "disabled", "gone"}

Typed ==
    /\ out \in Outs
    /\ buf \in Seq(Real) /\ Len(buf) <= JitterCap
    /\ guest \in Guests
    /\ pump \in Pumps /\ Len(pump.chunk) <= Target
    /\ ring \in Seq(Frames) /\ Len(ring) <= Target
    /\ af \in Tracks /\ mapped \in BOOLEAN
    /\ written \in 0..MaxFrames
    /\ count \in Counts

LEMMA TypedIsTypeOK == Typed => TypeOK
BY DEF Typed, TypeOK, Outs, Guests, Pumps, Counts, Tracks, Real

\* The numbers of the state are numbers.
LEMMA Numbers ==
    ASSUME Typed
    PROVE  /\ Len(buf) \in Nat /\ Len(ring) \in Nat /\ Len(pump.chunk) \in Nat
           /\ written \in Nat /\ guest.dropped \in Nat /\ guest.pos \in Nat
           /\ count.accepted \in Nat /\ count.moved \in Nat /\ pump.need \in Nat
BY SizesAssumption, LenProperties DEF Typed, Guests, Pumps, Counts, Frames

\* One counter advances within its bound.
LEMMA CountUpdate ==
    ASSUME count \in Counts, NEW n \in Nat
    PROVE  /\ LET c == [count EXCEPT !.accepted = @ + n]
              IN  /\ count.accepted + n <= MaxFrames => c \in Counts
                  /\ c.accepted = count.accepted + n /\ c.moved = count.moved
           /\ LET c == [count EXCEPT !.moved = @ + n]
              IN  /\ count.moved + n <= MaxFrames => c \in Counts
                  /\ c.accepted = count.accepted /\ c.moved = count.moved + n
BY SizesAssumption DEF Counts, Frames

-----------------------------------------------------------------------------
(* The inductive invariant.                                                *)

\* Frames leave the jitter buffer or a flush drops them, none appears.
Counters ==
    /\ written <= count.accepted
    /\ count.moved + Len(buf) <= count.accepted

\* The position clock, through a call of flush: what flush has read is an upper
\* bound of what is still there to be cleared, and a lower one of what has left.
Clock ==
    /\ guest.pc \in {"idle", "pause"} => guest.pos = 0
    /\ guest.pc \in {"idle", "pause", "flushRead"} =>
           Len(buf) <= written /\ written - Len(buf) <= count.moved
    /\ guest.pc = "flushRead" => Len(buf) <= guest.dropped
    /\ guest.pc \in {"flushPause", "flushRing", "flushCount"} =>
           Len(buf) = 0 /\ guest.pos <= count.moved
    /\ guest.pc \in {"flushRead", "flushPause", "flushRing", "flushCount"} =>
           guest.dropped <= written /\ guest.pos = written - guest.dropped

\* From the reading of the ring to the write, the room read is still there.
RoomIsThere ==
    /\ pump.pc = "drain" => Len(ring) + pump.need <= Target
    /\ pump.pc = "write" => Len(ring) + Len(pump.chunk) <= Target

IInv == Typed /\ Counters /\ Clock /\ RoomIsThere

\* What a step promises of the position clock: it does not go back while the
\* guest is between calls.
ClockStep == guest'.pc = "idle" =>
                 Position' >= (IF guest.pc = "idle" THEN Position ELSE guest.pos)

-----------------------------------------------------------------------------
LEMMA Initially == Init => IInv
<1> SUFFICES ASSUME Init PROVE IInv
  OBVIOUS
<1>1. buf = <<>> /\ ring = <<>> /\ pump.chunk = <<>> /\ written = 0
  BY DEF Init, PumpSleep
<1>2. Len(buf) = 0 /\ Len(ring) = 0 /\ buf \in Seq(Real) /\ ring \in Seq(Frames)
  BY <1>1, EmptySeq
<1>3. out \in Outs /\ af \in Tracks /\ mapped \in BOOLEAN
  BY DEF Init, Outs, Tracks
<1>4. guest \in Guests /\ guest.pc = "idle" /\ guest.pos = 0
  BY SizesAssumption DEF Init, Guests, GuestIdle, GuestPCs
<1>5. pump \in Pumps /\ pump.pc = "sleep" /\ Len(pump.chunk) = 0
  BY SizesAssumption, EmptySeq DEF Init, Pumps, PumpSleep, PumpPCs
<1>6. count \in Counts /\ count.accepted = 0 /\ count.moved = 0
  BY SizesAssumption DEF Init, Counts, Frames
<1> QED
  BY <1>1, <1>2, <1>3, <1>4, <1>5, <1>6, SizesAssumption
     DEF IInv, Typed, Counters, Clock, RoomIsThere

\* write takes what fits: as many frames enter the buffer as the clock counts.
LEMMA WriteKeeps ==
    ASSUME IInv, NEW n \in 1..2, Write(n)
    PROVE  IInv' /\ ClockStep
<1> DEFINE take == Least(n, JitterCap - Len(buf))
           more == [i \in 1..take |-> count.accepted + i]
<1>1. buf \in Seq(Real) /\ Len(buf) \in Nat /\ Len(buf) <= JitterCap
  BY Numbers DEF IInv, Typed
<1>2. take \in Nat /\ take <= n /\ Len(buf) + take <= JitterCap
  BY <1>1, SizesAssumption DEF Least
<1>3. count.accepted \in Nat /\ count.accepted + take <= MaxFrames
  <2>1. count.accepted + n <= MaxFrames /\ count.accepted \in Nat
    BY Numbers DEF Write, IInv
  <2> HIDE DEF take
  <2> QED
    BY <1>2, <2>1, SizesAssumption
<1>4. more \in Seq(Real) /\ Len(more) = take
  BY <1>2, <1>3, NewFrames
<1>5. /\ buf' = buf \o more
      /\ count' = [count EXCEPT !.accepted = @ + take]
      /\ written' = written + take
      /\ out' = [out EXCEPT !.guestWrote = TRUE]
      /\ guest.pc = "idle"
      /\ UNCHANGED <<guest, pump, ring, af, mapped>>
  BY DEF Write, external
<1> HIDE DEF take, more
<1>6. buf' \in Seq(Real) /\ Len(buf') = Len(buf) + take
  BY <1>1, <1>4, <1>5, ConcatProperties
<1>7. /\ count' \in Counts
      /\ count'.accepted = count.accepted + take /\ count'.moved = count.moved
  BY <1>2, <1>3, <1>5, CountUpdate DEF IInv, Typed
<1>8. written \in Nat /\ count.moved \in Nat /\ written' \in 0..MaxFrames
  BY <1>2, <1>3, <1>5, Numbers, SizesAssumption DEF IInv, Counters
<1>9. out' \in Outs
  BY <1>5 DEF IInv, Typed, Outs
<1>10. Typed'
  BY <1>1, <1>2, <1>5, <1>6, <1>7, <1>8, <1>9 DEF IInv, Typed
<1>11. Counters'
  BY <1>1, <1>2, <1>3, <1>5, <1>6, <1>7, <1>8 DEF IInv, Counters
<1>12. Clock' /\ ClockStep
  BY <1>1, <1>2, <1>5, <1>6, <1>7, <1>8 DEF IInv, Clock, ClockStep, Position
<1>13. RoomIsThere'
  BY <1>5 DEF IInv, RoomIsThere
<1> QED
  BY <1>10, <1>11, <1>12, <1>13 DEF IInv

\* The pump moves frames from the buffer to its chunk: the clock advances.
LEMMA DrainKeeps ==
    ASSUME IInv, PumpDrain
    PROVE  IInv' /\ ClockStep
<1> DEFINE n == Least(pump.need, Len(buf))
           chunk == Take(buf, n) \o Padding(pump.need - n)
<1>1. /\ buf \in Seq(Real) /\ Len(buf) \in Nat /\ Len(buf) <= JitterCap
      /\ pump.need \in Nat /\ pump.need <= Target /\ Len(ring) \in Nat
      /\ Len(ring) + pump.need <= Target
  BY Numbers, SizesAssumption DEF IInv, Typed, PumpDrain, RoomIsThere
<1>2. n \in 0..Len(buf) /\ n \in Nat /\ n <= pump.need
  BY <1>1 DEF Least
<1>3. UNCHANGED <<out, guest, ring, af, mapped, written>>
  BY DEF PumpDrain, external
<1>4. \/ pump' = PumpSleep /\ UNCHANGED <<buf, count>>
      \/ /\ pump' = [pump EXCEPT !.pc = "write", !.chunk = chunk]
         /\ buf' = Drop(buf, n)
         /\ count' = [count EXCEPT !.moved = @ + n]
  BY DEF PumpDrain
<1> HIDE DEF n
<1>5. chunk \in Seq(Frames) /\ Len(chunk) = pump.need
  <2>1. n <= Len(buf)
    BY <1>1, <1>2
  <2> QED
    BY <1>1, <1>2, <2>1, ChunkType, Zenon
<1>6. Drop(buf, n) \in Seq(Real) /\ Len(Drop(buf, n)) = Len(buf) - n
  BY <1>1, <1>2, TakeDrop
<1> HIDE DEF chunk
<1>7. /\ written \in Nat /\ count.moved \in Nat /\ count.accepted \in Nat
      /\ guest.dropped \in Nat /\ guest.pos \in Nat /\ count.accepted <= MaxFrames
  BY Numbers, SizesAssumption DEF IInv, Typed, Counts, Frames
<1>8. CASE pump' = PumpSleep /\ UNCHANGED <<buf, count>>
  <2>1. pump' \in Pumps /\ pump'.pc = "sleep" /\ Len(pump'.chunk) = 0
    BY <1>8, SizesAssumption, EmptySeq DEF PumpSleep, PumpPCs, Pumps
  <2>2. Typed'
    BY <1>3, <1>8, <2>1, SizesAssumption DEF IInv, Typed
  <2>3. Counters' /\ Clock' /\ RoomIsThere'
    BY <1>3, <1>8, <2>1 DEF IInv, Counters, Clock, RoomIsThere
  <2>4. ClockStep
    BY <1>1, <1>3, <1>7, <1>8 DEF ClockStep, Position
  <2> QED
    BY <2>2, <2>3, <2>4 DEF IInv
<1>9. CASE /\ pump' = [pump EXCEPT !.pc = "write", !.chunk = chunk]
           /\ buf' = Drop(buf, n)
           /\ count' = [count EXCEPT !.moved = @ + n]
  <2>1. Len(buf') = Len(buf) - n /\ buf' \in Seq(Real)
    BY <1>6, <1>9
  <2>2. /\ count' \in Counts
        /\ count'.accepted = count.accepted /\ count'.moved = count.moved + n
    <3>1. count.moved + n <= MaxFrames
      BY <1>1, <1>2, <1>7, SizesAssumption DEF IInv, Counters
    <3> QED
      BY <1>2, <1>9, <3>1, CountUpdate DEF IInv, Typed
  <2>3. pump' \in Pumps /\ pump'.pc = "write" /\ pump'.chunk = chunk
    BY <1>5, <1>9 DEF IInv, Typed, Pumps, PumpPCs
  <2>4. Len(buf') <= JitterCap /\ Len(pump'.chunk) <= Target
    BY <1>1, <1>2, <1>5, <2>1, <2>3, SizesAssumption
  <2>5. Typed'
    BY <1>3, <2>1, <2>2, <2>3, <2>4 DEF IInv, Typed
  <2>6. Counters'
    BY <1>1, <1>2, <1>3, <1>7, <2>1, <2>2 DEF IInv, Counters
  <2>7. Clock'
    BY <1>1, <1>2, <1>3, <1>7, <2>1, <2>2 DEF IInv, Clock
  <2>8. RoomIsThere'
    BY <1>1, <1>3, <1>5, <2>3 DEF RoomIsThere
  <2>9. ClockStep
    BY <1>1, <1>2, <1>3, <1>7, <2>1 DEF ClockStep, Position
  <2> QED
    BY <2>5, <2>6, <2>7, <2>8, <2>9 DEF IInv
<1> QED
  BY <1>4, <1>8, <1>9

\* audioclient::write never has to refuse anything.
LEMMA WriteRingKeeps ==
    ASSUME IInv, PumpWrite
    PROVE  IInv' /\ ClockStep
<1>1. UNCHANGED <<out, buf, guest, mapped, written, count>>
  BY DEF PumpWrite
<1> DEFINE n == Least(Len(pump.chunk), Target - Len(ring))
<1>2. /\ Len(ring) \in Nat /\ Len(ring) <= Target /\ ring \in Seq(Frames)
      /\ Len(pump.chunk) \in Nat /\ pump.chunk \in Seq(Frames)
  BY Numbers DEF IInv, Typed, Pumps
<1>3. n \in 0..Len(pump.chunk) /\ Len(ring) + n <= Target
  BY <1>2, SizesAssumption DEF Least
<1>4. /\ ring' = ring \/ ring' = ring \o Take(pump.chunk, n)
      /\ af' \in {af, "active"}
  BY DEF PumpWrite
<1> HIDE DEF n
<1>5. Take(pump.chunk, n) \in Seq(Frames) /\ Len(Take(pump.chunk, n)) = n
  BY <1>2, <1>3, TakeDrop
<1>6. ring' \in Seq(Frames) /\ Len(ring') <= Target
  <2>1. CASE ring' = ring
    BY <1>2, <2>1
  <2>2. CASE ring' = ring \o Take(pump.chunk, n)
    <3>1. ring' \in Seq(Frames) /\ Len(ring') = Len(ring) + Len(Take(pump.chunk, n))
      BY <1>2, <1>5, <2>2, ConcatProperties
    <3> QED
      BY <1>3, <1>5, <3>1
  <2> QED
    BY <1>4, <2>1, <2>2
<1>7. /\ pump' \in Pumps /\ pump'.pc \in {"sleep", "start"} /\ Len(pump'.chunk) = 0
  <2>1. pump' = PumpSleep \/ pump' = [pump EXCEPT !.pc = "start", !.chunk = <<>>]
    BY DEF PumpWrite
  <2>2. <<>> \in Seq(Frames) /\ Len(<<>>) = 0
    BY EmptySeq
  <2>3. PumpSleep \in Pumps /\ PumpSleep.pc = "sleep" /\ PumpSleep.chunk = <<>>
    BY <2>2, SizesAssumption DEF Pumps, PumpSleep, PumpPCs
  <2>4. CASE pump' = PumpSleep
    BY <2>2, <2>3, <2>4
  <2>5. CASE pump' = [pump EXCEPT !.pc = "start", !.chunk = <<>>]
    BY <2>2, <2>5 DEF IInv, Typed, Pumps, PumpPCs
  <2> QED
    BY <2>1, <2>4, <2>5
<1>8. Typed'
  BY <1>1, <1>4, <1>6, <1>7, SizesAssumption DEF IInv, Typed, Tracks
<1>9. Counters' /\ Clock' /\ RoomIsThere'
  BY <1>1, <1>7 DEF IInv, Counters, Clock, RoomIsThere
<1>10. ClockStep
  BY <1>1, Numbers DEF IInv, ClockStep, Position
<1> QED
  BY <1>8, <1>9, <1>10 DEF IInv

-----------------------------------------------------------------------------
\* flush takes off the clock what it read, not more than is there.
LEMMA FlushKeeps ==
    ASSUME IInv, Flush \/ FlushBuffer \/ FlushPause \/ FlushRing \/ FlushCount
    PROVE  IInv' /\ ClockStep
<1>1. /\ Len(buf) \in Nat /\ written \in Nat /\ count.moved \in Nat /\ count.accepted \in Nat
      /\ guest.dropped \in Nat /\ guest.pos \in Nat /\ Len(ring) \in Nat
      /\ guest \in Guests /\ Len(buf) <= JitterCap /\ written <= MaxFrames
  BY Numbers DEF IInv, Typed
<1>2. CASE Flush
  <2>1. /\ UNCHANGED <<out, buf, pump, ring, af, mapped, written, count>>
        /\ guest.pc = "idle"
        /\ guest' = [pc |-> "flushRead", dropped |-> Len(buf), pos |-> written - Len(buf)]
    BY <1>2 DEF Flush, external, Position
  <2>2. guest' \in Guests
    BY <1>1, <2>1, SizesAssumption DEF Guests, GuestPCs, IInv, Clock
  <2>3. Typed' /\ RoomIsThere' /\ Counters'
    BY <2>1, <2>2 DEF IInv, Typed, RoomIsThere, Counters
  <2>4. Clock' /\ ClockStep
    BY <1>1, <2>1 DEF IInv, Clock, ClockStep
  <2> QED
    BY <2>3, <2>4 DEF IInv
<1>3. CASE FlushBuffer
  <2>1. /\ UNCHANGED <<pump, ring, af, mapped, written, count>>
        /\ guest.pc = "flushRead" /\ buf' = <<>>
        /\ out' = [out EXCEPT !.started = FALSE, !.serverStarted = FALSE]
        /\ guest' = [guest EXCEPT !.pc = "flushPause"]
    BY <1>3 DEF FlushBuffer, external
  <2>2. /\ guest' \in Guests /\ guest'.pc = "flushPause"
        /\ guest'.dropped = guest.dropped /\ guest'.pos = guest.pos
    BY <1>1, <2>1 DEF Guests, GuestPCs
  <2>3. Len(buf') = 0 /\ buf' \in Seq(Real)
    BY <2>1, EmptySeq
  <2>4. out' \in Outs
    BY <2>1 DEF IInv, Typed, Outs
  <2>5. Typed'
    BY <2>1, <2>2, <2>3, <2>4, SizesAssumption DEF IInv, Typed
  <2>6. Counters' /\ RoomIsThere' /\ ClockStep
    BY <1>1, <2>1, <2>2, <2>3 DEF IInv, Counters, RoomIsThere, ClockStep
  <2>7. Clock'
    BY <1>1, <2>1, <2>2, <2>3 DEF IInv, Clock
  <2> QED
    BY <2>5, <2>6, <2>7 DEF IInv
<1>4. CASE FlushPause \/ FlushRing
  <2>1. /\ UNCHANGED <<out, buf, pump, mapped, written, count>>
        /\ guest.pc \in {"flushPause", "flushRing"}
        /\ guest' = [guest EXCEPT !.pc = "flushRing"] \/ guest' = [guest EXCEPT !.pc = "flushCount"]
        /\ af' \in {af, "paused"} /\ (ring' = ring \/ ring' = <<>>)
    BY <1>4 DEF FlushPause, FlushRing
  <2>2. /\ guest' \in Guests /\ guest'.pc \in {"flushRing", "flushCount"}
        /\ guest'.dropped = guest.dropped /\ guest'.pos = guest.pos
    BY <1>1, <2>1 DEF Guests, GuestPCs
  <2>3. ring' \in Seq(Frames) /\ Len(ring') \in Nat /\ Len(ring') <= Len(ring)
    <3>1. <<>> \in Seq(Frames) /\ Len(<<>>) = 0
      BY EmptySeq
    <3>2. ring \in Seq(Frames)
      BY DEF IInv, Typed
    <3>3. CASE ring' = ring
      BY <1>1, <3>2, <3>3
    <3>4. CASE ring' = <<>>
      BY <1>1, <3>1, <3>4
    <3> QED
      BY <2>1, <3>3, <3>4
  <2>4. Typed'
    BY <1>1, <2>1, <2>2, <2>3, SizesAssumption DEF IInv, Typed, Tracks
  <2>5. Counters' /\ ClockStep
    BY <1>1, <2>1, <2>2 DEF IInv, Counters, ClockStep
  <2>6. Clock'
    BY <1>1, <2>1, <2>2 DEF IInv, Clock
  <2>7. RoomIsThere'
    BY <1>1, <2>1, <2>3, Numbers, SizesAssumption DEF IInv, RoomIsThere
  <2> QED
    BY <2>4, <2>5, <2>6, <2>7 DEF IInv
<1>5. CASE FlushCount
  <2>1. /\ UNCHANGED <<out, buf, pump, ring, af, mapped, count>>
        /\ guest.pc = "flushCount" /\ guest' = GuestIdle
        /\ written' = written - Least(written, guest.dropped)
    BY <1>5 DEF FlushCount, external
  <2>2. guest' \in Guests /\ guest'.pc = "idle" /\ guest'.pos = 0
    BY <2>1, SizesAssumption DEF Guests, GuestPCs, GuestIdle
  <2>3. written' = guest.pos
    BY <1>1, <2>1 DEF IInv, Clock, Least
  <2>4. Typed'
    BY <1>1, <2>1, <2>2, <2>3 DEF IInv, Typed, Guests
  <2>5. Counters' /\ RoomIsThere'
    BY <1>1, <2>1, <2>2, <2>3 DEF IInv, Counters, Clock, RoomIsThere
  <2>6. Clock' /\ ClockStep
    BY <1>1, <2>1, <2>2, <2>3 DEF IInv, Clock, ClockStep, Position
  <2> QED
    BY <2>4, <2>5, <2>6 DEF IInv
<1> QED
  BY <1>2, <1>3, <1>4, <1>5

\* close: the entry and its backlog are gone, the clock is not read again.
LEMMA CloseKeeps ==
    ASSUME IInv, Close \/ CloseServer
    PROVE  IInv' /\ ClockStep
<1>1. Len(buf) \in Nat /\ count.moved \in Nat /\ Len(ring) \in Nat /\ guest \in Guests
  BY Numbers DEF IInv, Typed
<1>2. <<>> \in Seq(Real) /\ <<>> \in Seq(Frames) /\ Len(<<>>) = 0
  BY EmptySeq
<1>3. CASE Close
  <2>1. /\ UNCHANGED <<pump, ring, af, mapped, written, count>>
        /\ buf' = <<>> /\ guest' = [guest EXCEPT !.pc = "close"]
        /\ out' = [open |-> FALSE, started |-> FALSE, serverStarted |-> FALSE,
                   guestWrote |-> FALSE]
    BY <1>3 DEF Close, external
  <2>2. out' \in Outs /\ guest' \in Guests /\ guest'.pc = "close"
    BY <1>1, <2>1 DEF Outs, Guests, GuestPCs
  <2>3. Len(buf') = 0 /\ buf' \in Seq(Real)
    BY <1>2, <2>1
  <2>4. Typed'
    BY <2>1, <2>2, <2>3, SizesAssumption DEF IInv, Typed
  <2>5. Counters' /\ Clock' /\ RoomIsThere' /\ ClockStep
    BY <1>1, <2>1, <2>2, <2>3, Numbers DEF IInv, Counters, Clock, RoomIsThere, ClockStep
  <2> QED
    BY <2>4, <2>5 DEF IInv
<1>4. CASE CloseServer
  <2>1. /\ UNCHANGED <<out, buf, pump, mapped, written, count>>
        /\ ring' = <<>> /\ af' = "gone" /\ guest' = [guest EXCEPT !.pc = "closed"]
    BY <1>4 DEF CloseServer
  <2>2. guest' \in Guests /\ guest'.pc = "closed"
    BY <1>1, <2>1 DEF Guests, GuestPCs
  <2>3. Len(ring') = 0 /\ ring' \in Seq(Frames)
    BY <1>2, <2>1
  <2>4. Typed'
    BY <2>1, <2>2, <2>3, SizesAssumption DEF IInv, Typed, Tracks
  <2>5. Counters' /\ Clock' /\ ClockStep
    BY <2>1, <2>2 DEF IInv, Counters, Clock, ClockStep
  <2>6. RoomIsThere'
    BY <1>1, <2>1, <2>3, Numbers, SizesAssumption DEF IInv, RoomIsThere
  <2> QED
    BY <2>4, <2>5, <2>6 DEF IInv
<1> QED
  BY <1>3, <1>4

\* Every other step leaves the buffer and the clock alone, never fills the
\* ring, and moves the pump to a place where it owes nothing.
LEMMA QuietKeeps ==
    ASSUME IInv, UNCHANGED <<buf, written, count>>, out' \in Outs, guest' \in Guests,
           \/ guest' = guest
           \/ /\ guest.pc \in {"idle", "pause"} /\ guest'.pc \in {"idle", "pause"}
              /\ guest'.pos = 0,
           pump' \in Pumps, Len(pump'.chunk) <= Target,
           pump' = pump \/ RoomIsThere',
           ring' \in Seq(Frames), Len(ring') <= Len(ring), af' \in Tracks, mapped' \in BOOLEAN
    PROVE  IInv' /\ ClockStep
<1>1. /\ Len(buf) \in Nat /\ Len(ring) \in Nat /\ written \in Nat
      /\ Len(ring') \in Nat /\ Len(pump.chunk) \in Nat /\ pump.need \in Nat /\ Target \in Nat
  BY Numbers, LenProperties, SizesAssumption DEF IInv
<1>2. Len(ring') <= Target
  BY <1>1 DEF IInv, Typed
<1>3. Typed'
  BY <1>2 DEF IInv, Typed
<1>4. Counters' /\ Clock'
  BY DEF IInv, Counters, Clock
<1>5. RoomIsThere'
  <2>1. CASE pump' = pump
    BY <1>1, <2>1 DEF IInv, RoomIsThere
  <2> QED
    BY <2>1
<1>6. ClockStep
  <2>1. CASE guest' = guest
    BY <1>1, <2>1 DEF ClockStep, Position
  <2>2. CASE guest.pc \in {"idle", "pause"}
    BY <1>1, <2>2 DEF IInv, Clock, ClockStep, Position
  <2> QED
    BY <2>1, <2>2
<1> QED
  BY <1>3, <1>4, <1>5, <1>6 DEF IInv

LEMMA GuestQuiet ==
    ASSUME IInv, Start \/ Pause \/ PauseServer \/ Drain
    PROVE  IInv' /\ ClockStep
<1>1. UNCHANGED <<buf, pump, ring, mapped, written, count>>
  BY DEF Start, Pause, PauseServer, Drain, external
<1>2. out' \in Outs /\ af' \in Tracks
  <2>1. CASE Start BY <2>1 DEF Start, external, IInv, Typed, Outs
  <2>2. CASE Pause BY <2>2 DEF Pause, external, IInv, Typed, Outs
  <2>3. CASE PauseServer BY <2>3 DEF PauseServer, IInv, Typed, Tracks
  <2>4. CASE Drain BY <2>4 DEF Drain, IInv, Typed, Tracks
  <2> QED
    BY <2>1, <2>2, <2>3, <2>4
<1>3. /\ guest' \in Guests
      /\ \/ guest' = guest
         \/ /\ guest.pc \in {"idle", "pause"} /\ guest'.pc \in {"idle", "pause"}
            /\ guest'.pos = 0
  <2>1. CASE Start \/ Drain BY <2>1 DEF Start, Drain, IInv, Typed
  <2>2. CASE Pause BY <2>2 DEF Pause, IInv, Typed, Clock, Guests, GuestPCs
  <2>3. CASE PauseServer
    BY <2>3, SizesAssumption DEF PauseServer, GuestIdle, Guests, GuestPCs
  <2> QED
    BY <2>1, <2>2, <2>3
<1>4. /\ ring' \in Seq(Frames) /\ Len(ring') <= Len(ring)
      /\ pump' \in Pumps /\ Len(pump'.chunk) <= Target /\ mapped' \in BOOLEAN
  BY <1>1, Numbers DEF IInv, Typed
<1> QED
  BY <1>1, <1>2, <1>3, <1>4, QuietKeeps

\* The pump's steps that move no frame: the room is read here.
LEMMA PumpQuiet ==
    ASSUME IInv, PumpSnapshot \/ PumpPending \/ PumpStart \/ PumpMark
    PROVE  IInv' /\ ClockStep
<1>1. UNCHANGED <<buf, guest, ring, mapped, written, count>>
  BY DEF PumpSnapshot, PumpPending, PumpStart, PumpMark, external
<1>2. out' \in Outs /\ af' \in Tracks
  <2>1. CASE PumpSnapshot \/ PumpPending
    BY <2>1 DEF PumpSnapshot, PumpPending, external, IInv, Typed
  <2>2. CASE PumpStart BY <2>2 DEF PumpStart, IInv, Typed, Tracks
  <2>3. CASE PumpMark
    <3>1. out' = [out EXCEPT !.serverStarted = @ \/ out.open] /\ af' = af
      BY <2>3 DEF PumpMark, external
    <3>2. out.serverStarted \in BOOLEAN /\ out.open \in BOOLEAN /\ out \in Outs
      BY DEF IInv, Typed, Outs
    <3>3. (out.serverStarted \/ out.open) \in BOOLEAN
      OBVIOUS
    <3>4. out' \in Outs
      BY <3>1, <3>2, <3>3, Zenon DEF Outs
    <3> QED
      BY <3>1, <3>4 DEF IInv, Typed
  <2> QED
    BY <2>1, <2>2, <2>3
<1>3. <<>> \in Seq(Frames) /\ Len(<<>>) = 0 /\ Target \in Nat
  BY EmptySeq, SizesAssumption
<1>4. PumpSleep \in Pumps /\ PumpSleep.pc = "sleep" /\ PumpSleep.chunk = <<>>
  BY <1>3 DEF Pumps, PumpSleep, PumpPCs
<1>5. /\ pump' \in Pumps /\ Len(pump'.chunk) <= Target
      /\ RoomIsThere'
  <2>1. CASE PumpSnapshot \/ PumpStart
    <3>1. pump' = [pump EXCEPT !.pc = "pending"] \/ pump' = [pump EXCEPT !.pc = "mark"]
      BY <2>1 DEF PumpSnapshot, PumpStart
    <3>2. /\ pump' \in Pumps /\ pump'.chunk = pump.chunk
          /\ pump'.pc \in {"pending", "mark"}
      BY <3>1 DEF IInv, Typed, Pumps, PumpPCs
    <3> QED
      BY <3>2 DEF IInv, Typed, RoomIsThere
  <2>2. CASE pump' = PumpSleep
    BY <1>3, <1>4, <2>2 DEF RoomIsThere
  <2>3. CASE PumpPending /\ pump' # PumpSleep
    <3> DEFINE need == Target - Len(ring)
    <3>1. pump' = [pc |-> "drain", ss |-> out.serverStarted, need |-> need, chunk |-> <<>>]
      BY <2>3 DEF PumpPending
    <3>2. Len(ring) \in Nat /\ need \in 0..Target
      BY <1>3, Numbers DEF IInv, Typed
    <3>3. out.serverStarted \in BOOLEAN
      BY DEF IInv, Typed, Outs
    <3> HIDE DEF need
    <3>4. /\ pump' \in Pumps /\ pump'.pc = "drain" /\ pump'.need = need
          /\ pump'.chunk = <<>>
      BY <1>3, <3>1, <3>2, <3>3 DEF Pumps, PumpPCs
    <3>5. Len(ring) + need <= Target
      BY <1>3, <3>2 DEF need
    <3> QED
      BY <1>1, <1>3, <3>4, <3>5 DEF RoomIsThere
  <2> QED
    BY <2>1, <2>2, <2>3 DEF PumpMark
<1>6. /\ ring' \in Seq(Frames) /\ Len(ring') <= Len(ring) /\ guest' \in Guests
      /\ mapped' \in BOOLEAN
  BY <1>1, Numbers DEF IInv, Typed
<1> QED
  BY <1>1, <1>2, <1>5, <1>6, QuietKeeps

\* AudioFlinger only takes frames out of the ring.
LEMMA ServerKeeps ==
    ASSUME IInv, Server
    PROVE  IInv' /\ ClockStep
<1>1. ring \in Seq(Frames) /\ Len(ring) \in Nat
  BY Numbers DEF IInv, Typed
<1>2. CASE ServerMap \/ ServerUnderrun
  <2>1. /\ UNCHANGED <<out, buf, guest, pump, ring, written, count>>
        /\ af' \in Tracks /\ mapped' \in BOOLEAN
    BY <1>2 DEF ServerMap, ServerUnderrun, IInv, Typed, Tracks
  <2> QED
    BY <1>1, <2>1, QuietKeeps DEF IInv, Typed
<1>3. CASE ServerPlay
  <2>1. /\ UNCHANGED <<out, buf, guest, pump, af, mapped, written>>
        /\ ring # <<>> /\ ring' = Tail(ring)
        /\ count' = [count EXCEPT !.heard = IF IsReal(Head(ring)) THEN Head(ring) ELSE @]
    BY <1>3 DEF ServerPlay
  <2>2. /\ Head(ring) \in Frames /\ ring' \in Seq(Frames) /\ Len(ring') = Len(ring) - 1
    BY <1>1, <2>1, HeadTailProperties
  <2>3. /\ count' \in Counts /\ count'.accepted = count.accepted
        /\ count'.moved = count.moved
    BY <2>1, <2>2 DEF IInv, Typed, Counts
  <2>4. Len(ring') \in Nat
    BY <2>2, LenProperties
  <2>5. Typed'
    BY <1>1, <2>1, <2>2, <2>3, SizesAssumption DEF IInv, Typed
  <2>6. Counters' /\ Clock'
    BY <2>1, <2>3 DEF IInv, Counters, Clock
  <2>7. RoomIsThere'
    BY <1>1, <2>1, <2>2, Numbers, SizesAssumption DEF IInv, RoomIsThere
  <2>8. ClockStep
    BY <2>1, Numbers DEF IInv, ClockStep, Position
  <2> QED
    BY <2>5, <2>6, <2>7, <2>8 DEF IInv
<1> QED
  BY <1>2, <1>3 DEF Server

-----------------------------------------------------------------------------
\* Every step keeps the invariant and moves the clock forward.
LEMMA StepKeeps == IInv /\ [Next]_vars => IInv' /\ (vars' = vars \/ ClockStep)
<1> SUFFICES ASSUME IInv, [Next]_vars PROVE IInv' /\ (vars' = vars \/ ClockStep)
  OBVIOUS
<1>1. CASE UNCHANGED vars
  BY <1>1 DEF vars, IInv, Typed, Counters, Clock, RoomIsThere
<1>2. CASE Next
  BY <1>2, WriteKeeps, FlushKeeps, CloseKeeps, GuestQuiet, PumpQuiet, DrainKeeps,
     WriteRingKeeps, ServerKeeps DEF Next, Guest, GuestRest, Pump
<1> QED
  BY <1>1, <1>2

LEMMA Inductive == Spec => []IInv
<1>1. IInv /\ [Next]_vars => IInv'
  BY StepKeeps
<1> QED
  BY Initially, <1>1, PTL DEF Spec

\* Buffers, chunks, ring and counters keep their types and their capacities.
THEOREM TypeCorrect == Spec => []TypeOK
<1>1. IInv => TypeOK
  BY TypedIsTypeOK DEF IInv
<1> QED
  BY <1>1, Inductive, PTL

\* What the pump writes always fits the ring: guest and mixer, running in
\* between, can only make more room.
THEOREM NothingIsRefused == Spec => []WritesFit
<1>1. IInv => WritesFit
  BY DEF IInv, RoomIsThere, WritesFit
<1> QED
  BY <1>1, Inductive, PTL

\* A guest that asks between its calls never hears that more was played than
\* has left the jitter buffer.
THEOREM ClockNeverAhead == Spec => []PositionNeverAhead
<1>1. IInv => PositionNeverAhead
  BY DEF IInv, Clock, PositionNeverAhead, Position
<1> QED
  BY <1>1, Inductive, PTL

\* The position clock never goes back, across flushes as well.
THEOREM ClockNeverBack == Spec => PositionIsMonotone
<1>1. IInv /\ [Next]_vars => [guest'.pc = "idle" =>
         Position' >= (IF guest.pc = "idle" THEN Position ELSE guest.pos)]_vars
  BY StepKeeps DEF ClockStep
<1> QED
  BY <1>1, Inductive, PTL DEF Spec, PositionIsMonotone

-----------------------------------------------------------------------------
(* Induction over the length of a sequence, and what RealOf computes.      *)

\* A set of naturals that holds 0 and every successor is all of them.
LEMMA SetInduction ==
    ASSUME NEW T, T \subseteq Nat, 0 \in T, \A n \in T : n + 1 \in T
    PROVE  T = Nat
<1> DEFINE R == OpToRel(<, Nat)
<1>1. SUFFICES ASSUME T # Nat PROVE FALSE
  OBVIOUS
<1>2. IsWellFoundedOn(R, Nat)
  BY NatLessThanWellFounded
<1>3. \A x, y \in Nat : x < y => <<x, y>> \in R
  BY DEF OpToRel
<1> HIDE DEF R
<1>4. PICK n \in Nat \ T : \A y \in Nat \ T : <<y, n>> \notin R
  BY <1>1, <1>2, WFMin
<1>5. n # 0 /\ n - 1 \in Nat /\ n - 1 < n /\ n \in Nat /\ (n - 1) + 1 = n
  OBVIOUS
<1>6. <<n - 1, n>> \in R
  BY <1>3, <1>5
<1>7. n - 1 \in T
  BY <1>4, <1>5, <1>6, Zenon
<1> QED
  BY <1>5, <1>7

\* What the n-th value of RealUpTo(s) is made of.
RealStep(s, g, n) ==
    IF n = 0 THEN <<>> ELSE IF IsReal(s[n]) THEN Append(g[n - 1], s[n]) ELSE g[n - 1]

LEMMA RealUpToDef ==
    ASSUME NEW S, NEW s \in Seq(S)
    PROVE  RealUpTo(s) = [n \in 0..Len(s) |-> RealStep(s, RealUpTo(s), n)]
<1> DEFINE Solves(g, m) == g = [n \in 0..m |-> RealStep(s, g, n)]
           T == {m \in Nat : \E g : Solves(g, m)}
<1>1. 0 \in T
  <2> DEFINE g == [n \in 0..0 |-> <<>>]
  <2>1. Solves(g, 0)
    BY DEF RealStep
  <2> QED
    BY <2>1
<1>2. ASSUME NEW m \in T PROVE m + 1 \in T
  <2>1. PICK g : Solves(g, m)
    OBVIOUS
  <2>2. m \in Nat
    OBVIOUS
  <2> DEFINE h == [n \in 0..(m + 1) |-> IF n <= m THEN g[n] ELSE RealStep(s, g, m + 1)]
  <2>3. \A n \in 0..m : h[n] = g[n] /\ g[n] = RealStep(s, g, n)
    <3>1. \A n \in 0..m : h[n] = g[n]
      BY <2>2
    <3>2. g = [n \in 0..m |-> RealStep(s, g, n)]
      BY <2>1
    <3> HIDE DEF h
    <3>3. \A n \in 0..m : g[n] = RealStep(s, g, n)
      BY <3>2
    <3> QED
      BY <3>1, <3>3
  <2>4. h[m + 1] = RealStep(s, g, m + 1)
    BY <2>2
  <2>5. ASSUME NEW n \in 0..(m + 1) PROVE h[n] = RealStep(s, h, n)
    <3>1. n # 0 => n - 1 \in 0..m
      BY <2>2
    <3>2. h[n] = RealStep(s, g, n)
      <4>1. CASE n \in 0..m
        BY <2>3, <4>1
      <4>2. CASE n = m + 1
        BY <2>4, <4>2
      <4> QED
        BY <2>2, <4>1, <4>2
    <3>3. n # 0 => h[n - 1] = g[n - 1]
      BY <2>3, <3>1
    <3> HIDE DEF h
    <3> QED
      BY <3>2, <3>3 DEF RealStep
  <2>6. Solves(h, m + 1)
    <3>1. h = [n \in 0..(m + 1) |-> h[n]]
      OBVIOUS
    <3> HIDE DEF h
    <3> QED
      BY <2>5, <3>1
  <2>7. \E k : Solves(k, m + 1)
    BY <2>6
  <2> HIDE DEF Solves
  <2> QED
    BY <2>2, <2>7
<1>3. T = Nat
  <2>1. T \subseteq Nat
    OBVIOUS
  <2> HIDE DEF T
  <2> QED
    BY <1>1, <1>2, <2>1, SetInduction
<1>4. Len(s) \in Nat
  BY LenProperties
<1>5. \E g : Solves(g, Len(s))
  BY <1>3, <1>4
<1>6. RealUpTo(s) = CHOOSE g : Solves(g, Len(s))
  BY DEF RealUpTo, RealStep
<1> HIDE DEF T, Solves
<1>7. Solves(RealUpTo(s), Len(s))
  BY <1>5, <1>6
<1> QED
  BY <1>7 DEF Solves

LEMMA RealUpToSteps ==
    ASSUME NEW S, NEW s \in Seq(S)
    PROVE  /\ RealUpTo(s)[0] = <<>>
           /\ \A n \in 1..Len(s) :
                RealUpTo(s)[n] = IF IsReal(s[n]) THEN Append(RealUpTo(s)[n - 1], s[n])
                                 ELSE RealUpTo(s)[n - 1]
<1> DEFINE g == RealUpTo(s)
<1>1. g = [n \in 0..Len(s) |-> RealStep(s, g, n)]
  BY RealUpToDef
<1>2. Len(s) \in Nat
  BY LenProperties
<1> HIDE DEF g
<1>3. \A n \in 0..Len(s) : g[n] = RealStep(s, g, n)
  BY <1>1
<1>4. /\ g[0] = <<>>
      /\ \A n \in 1..Len(s) :
           g[n] = IF IsReal(s[n]) THEN Append(g[n - 1], s[n]) ELSE g[n - 1]
  BY <1>2, <1>3 DEF RealStep
<1> QED
  BY <1>4 DEF g

\* The frames that are left are real ones.
LEMMA RealType ==
    ASSUME NEW s \in Seq(Frames)
    PROVE  /\ \A n \in 0..Len(s) : RealUpTo(s)[n] \in Seq(Real)
           /\ RealOf(s) \in Seq(Real)
<1> DEFINE T == {n \in Nat : n <= Len(s) => RealUpTo(s)[n] \in Seq(Real)}
<1>1. Len(s) \in Nat /\ \A n \in 1..Len(s) : s[n] \in Frames
  BY LenProperties, ElementOfSeq
<1>2. 0 \in T
  BY RealUpToSteps, EmptySeq
<1>3. ASSUME NEW n \in T PROVE n + 1 \in T
  <2> SUFFICES ASSUME n + 1 <= Len(s) PROVE RealUpTo(s)[n + 1] \in Seq(Real)
    BY <1>1
  <2>1. n + 1 \in 1..Len(s) /\ n + 1 - 1 = n /\ RealUpTo(s)[n] \in Seq(Real)
    BY <1>1
  <2>2. IsReal(s[n + 1]) => s[n + 1] \in Real
    BY <1>1, <2>1 DEF IsReal, Real
  <2>3. RealUpTo(s)[n + 1] = IF IsReal(s[n + 1]) THEN Append(RealUpTo(s)[n], s[n + 1])
                             ELSE RealUpTo(s)[n]
    BY <2>1, RealUpToSteps
  <2> QED
    BY <2>1, <2>2, <2>3, AppendProperties
<1>4. T = Nat
  <2>1. T \subseteq Nat
    OBVIOUS
  <2> HIDE DEF T
  <2> QED
    BY <1>2, <1>3, <2>1, SetInduction
<1> QED
  BY <1>1, <1>4 DEF RealOf

\* A chunk's padding is not there, a sequence of real frames is all there.
LEMMA RealOfPadding ==
    ASSUME NEW k \in Nat
    PROVE  RealOf(Padding(k)) = <<>>
<1> DEFINE s == Padding(k)
           T == {n \in Nat : n <= Len(s) => RealUpTo(s)[n] = <<>>}
<1>1. s \in Seq(Frames) /\ Len(s) \in Nat /\ \A n \in 1..Len(s) : ~IsReal(s[n])
  BY PaddingType DEF Padding, IsReal
<1>2. /\ RealUpTo(s)[0] = <<>>
      /\ \A n \in 1..Len(s) : RealUpTo(s)[n] = RealUpTo(s)[n - 1]
  <2> HIDE DEF s
  <2> QED
    BY <1>1, RealUpToSteps
<1> HIDE DEF s
<1>3. 0 \in T
  BY <1>2
<1>4. ASSUME NEW n \in T PROVE n + 1 \in T
  BY <1>1, <1>2
<1>5. T = Nat
  <2>1. T \subseteq Nat
    OBVIOUS
  <2> HIDE DEF T
  <2> QED
    BY <1>3, <1>4, <2>1, SetInduction
<1>6. RealUpTo(s)[Len(s)] = <<>>
  BY <1>1, <1>5
<1> QED
  BY <1>6 DEF RealOf, s

LEMMA RealOfReal ==
    ASSUME NEW s \in Seq(Real)
    PROVE  RealOf(s) = s
<1> DEFINE T == {n \in Nat : n <= Len(s) => /\ RealUpTo(s)[n] \in Seq(Real)
                                            /\ Len(RealUpTo(s)[n]) = n
                                            /\ \A i \in 1..n : RealUpTo(s)[n][i] = s[i]}
<1>1. Len(s) \in Nat /\ \A n \in 1..Len(s) : s[n] \in Real /\ IsReal(s[n])
  BY LenProperties, ElementOfSeq DEF Real, IsReal
<1>s. /\ RealUpTo(s)[0] = <<>>
      /\ \A n \in 1..Len(s) : RealUpTo(s)[n] = Append(RealUpTo(s)[n - 1], s[n])
  <2>1. \A n \in 1..Len(s) :
           RealUpTo(s)[n] = IF IsReal(s[n]) THEN Append(RealUpTo(s)[n - 1], s[n])
                            ELSE RealUpTo(s)[n - 1]
    BY RealUpToSteps
  <2> QED
    BY <1>1, <2>1, RealUpToSteps
<1>2. 0 \in T
  <2>1. <<>> \in Seq(Real) /\ Len(<<>>) = 0
    BY EmptySeq
  <2>2. /\ RealUpTo(s)[0] \in Seq(Real) /\ Len(RealUpTo(s)[0]) = 0
        /\ \A i \in 1..0 : RealUpTo(s)[0][i] = s[i]
    BY <1>s, <2>1
  <2> QED
    BY <2>2
<1>3. ASSUME NEW n \in T PROVE n + 1 \in T
  <2> SUFFICES ASSUME n + 1 <= Len(s)
               PROVE  /\ RealUpTo(s)[n + 1] \in Seq(Real)
                      /\ Len(RealUpTo(s)[n + 1]) = n + 1
                      /\ \A i \in 1..(n + 1) : RealUpTo(s)[n + 1][i] = s[i]
    BY <1>1
  <2> DEFINE t == RealUpTo(s)[n]
             u == RealUpTo(s)[n + 1]
  <2>1. /\ n \in Nat /\ n + 1 \in 1..Len(s) /\ n + 1 - 1 = n
        /\ t \in Seq(Real) /\ Len(t) = n /\ \A i \in 1..n : t[i] = s[i]
    BY <1>1
  <2>2. u = Append(t, s[n + 1]) /\ s[n + 1] \in Real
    BY <1>1, <1>s, <2>1
  <2> HIDE DEF t, u
  <2>3. /\ u \in Seq(Real) /\ Len(u) = n + 1
        /\ \A i \in 1..n : u[i] = t[i]
        /\ u[n + 1] = s[n + 1]
    BY <2>1, <2>2, AppendProperties
  <2>4. \A i \in 1..(n + 1) : u[i] = s[i]
    BY <2>1, <2>3
  <2> QED
    BY <2>3, <2>4 DEF u
<1>4. T = Nat
  <2>1. T \subseteq Nat
    OBVIOUS
  <2> HIDE DEF T
  <2> QED
    BY <1>2, <1>3, <2>1, SetInduction
<1>5. /\ RealOf(s) \in Seq(Real) /\ Len(RealOf(s)) = Len(s)
      /\ \A i \in 1..Len(s) : RealOf(s)[i] = s[i]
  BY <1>1, <1>4 DEF RealOf
<1> QED
  BY <1>5, SeqEqual

LEMMA JoinedAppend ==
    \A p, q \in Seq(Real) : \A x \in Real : Append(p \o q, x) = p \o Append(q, x)
<1> TAKE p, q \in Seq(Real)
<1> TAKE x \in Real
<1> QED
  OBVIOUS

\* Joined sequences have the real frames of both.
LEMMA RealOfJoined ==
    ASSUME NEW s \in Seq(Frames), NEW t \in Seq(Frames)
    PROVE  RealOf(s \o t) = RealOf(s) \o RealOf(t)
<1> DEFINE u == s \o t
<1>1. /\ Len(s) \in Nat /\ Len(t) \in Nat /\ u \in Seq(Frames) /\ Len(u) = Len(s) + Len(t)
      /\ \A i \in 1..Len(s) : u[i] = s[i]
      /\ \A i \in 1..Len(t) : u[Len(s) + i] = t[i]
  <2>1. /\ u \in Seq(Frames) /\ Len(u) = Len(s) + Len(t) /\ Len(s) \in Nat /\ Len(t) \in Nat
        /\ \A i \in 1..(Len(s) + Len(t)) : u[i] = IF i <= Len(s) THEN s[i] ELSE t[i - Len(s)]
    BY ConcatProperties, LenProperties
  <2> HIDE DEF u
  <2>2. \A i \in 1..Len(s) : u[i] = s[i]
    BY <2>1
  <2>3. ASSUME NEW i \in 1..Len(t) PROVE u[Len(s) + i] = t[i]
    <3>1. /\ Len(s) + i \in 1..(Len(s) + Len(t)) /\ ~(Len(s) + i <= Len(s))
          /\ (Len(s) + i) - Len(s) = i
      BY <2>1
    <3> QED
      BY <2>1, <3>1
  <2> QED
    BY <2>1, <2>2, <2>3
<1> HIDE DEF u
<1>s. /\ \A n \in 1..Len(u) :
           RealUpTo(u)[n] = IF IsReal(u[n]) THEN Append(RealUpTo(u)[n - 1], u[n])
                            ELSE RealUpTo(u)[n - 1]
      /\ \A n \in 1..Len(s) :
           RealUpTo(s)[n] = IF IsReal(s[n]) THEN Append(RealUpTo(s)[n - 1], s[n])
                            ELSE RealUpTo(s)[n - 1]
      /\ \A n \in 1..Len(t) :
           RealUpTo(t)[n] = IF IsReal(t[n]) THEN Append(RealUpTo(t)[n - 1], t[n])
                            ELSE RealUpTo(t)[n - 1]
  BY <1>1, RealUpToSteps
<1> DEFINE A == {n \in Nat : n <= Len(s) => RealUpTo(u)[n] = RealUpTo(s)[n]}
           B == {n \in Nat : n <= Len(t) => RealUpTo(u)[Len(s) + n] = RealOf(s) \o RealUpTo(t)[n]}
<1>2. A = Nat
  <2>1. 0 \in A
    BY <1>1, RealUpToSteps
  <2>2. ASSUME NEW n \in A PROVE n + 1 \in A
    <3> SUFFICES ASSUME n + 1 <= Len(s) PROVE RealUpTo(u)[n + 1] = RealUpTo(s)[n + 1]
      BY <1>1
    <3>1. /\ n + 1 \in 1..Len(s) /\ n + 1 \in 1..Len(u) /\ n + 1 - 1 = n
          /\ RealUpTo(u)[n] = RealUpTo(s)[n] /\ u[n + 1] = s[n + 1]
      BY <1>1
    <3> QED
      BY <1>s, <3>1
  <2>3. A \subseteq Nat
    OBVIOUS
  <2> HIDE DEF A
  <2> QED
    BY <2>1, <2>2, <2>3, SetInduction
<1>3. RealUpTo(u)[Len(s)] = RealOf(s) /\ RealOf(s) \in Seq(Real)
  BY <1>1, <1>2, RealType DEF RealOf
<1>4. B = Nat
  <2>1. 0 \in B
    <3>1. Len(s) + 0 = Len(s) /\ RealUpTo(t)[0] = <<>>
      BY <1>1, RealUpToSteps
    <3>2. RealOf(s) \o <<>> = RealOf(s)
      BY <1>3, ConcatEmptySeq
    <3> QED
      BY <1>3, <3>1, <3>2
  <2>2. ASSUME NEW n \in B PROVE n + 1 \in B
    <3> SUFFICES ASSUME n + 1 <= Len(t)
                 PROVE  RealUpTo(u)[Len(s) + (n + 1)] = RealOf(s) \o RealUpTo(t)[n + 1]
      BY <1>1
    <3> DEFINE a == RealOf(s)
               b == RealUpTo(t)[n]
               j == Len(s) + (n + 1)
    <3>1. /\ n + 1 \in 1..Len(t) /\ n + 1 - 1 = n /\ j \in 1..Len(u) /\ j - 1 = Len(s) + n
          /\ u[j] = t[n + 1] /\ RealUpTo(u)[j - 1] = a \o b
      BY <1>1
    <3>2. /\ RealUpTo(u)[j] = IF IsReal(t[n + 1]) THEN Append(a \o b, t[n + 1]) ELSE a \o b
          /\ RealUpTo(t)[n + 1] = IF IsReal(t[n + 1]) THEN Append(b, t[n + 1]) ELSE b
      <4>1. \A i \in 1..Len(u) :
               RealUpTo(u)[i] = IF IsReal(u[i]) THEN Append(RealUpTo(u)[i - 1], u[i])
                                ELSE RealUpTo(u)[i - 1]
        BY <1>s
      <4>2. \A i \in 1..Len(t) :
               RealUpTo(t)[i] = IF IsReal(t[i]) THEN Append(RealUpTo(t)[i - 1], t[i])
                                ELSE RealUpTo(t)[i - 1]
        BY <1>s
      <4> HIDE DEF j, a, b
      <4>3. RealUpTo(u)[j] = IF IsReal(t[n + 1]) THEN Append(a \o b, t[n + 1]) ELSE a \o b
        BY <3>1, <4>1
      <4>4. RealUpTo(t)[n + 1] = IF IsReal(t[n + 1]) THEN Append(b, t[n + 1]) ELSE b
        BY <3>1, <4>2 DEF b
      <4> QED
        BY <4>3, <4>4
    <3>3. b \in Seq(Real) /\ (IsReal(t[n + 1]) => t[n + 1] \in Real)
      <4>1. n \in 0..Len(t) /\ n + 1 \in 1..Len(t)
        BY <1>1, <3>1
      <4>2. b \in Seq(Real)
        BY <4>1, RealType
      <4>3. t[n + 1] \in Frames
        BY <4>1, ElementOfSeq
      <4> HIDE DEF b
      <4> QED
        BY <4>2, <4>3 DEF Real, IsReal
    <3> HIDE DEF a, b, j
    <3>4. IsReal(t[n + 1]) => Append(a \o b, t[n + 1]) = a \o Append(b, t[n + 1])
      <4> SUFFICES ASSUME IsReal(t[n + 1])
                   PROVE  Append(a \o b, t[n + 1]) = a \o Append(b, t[n + 1])
        OBVIOUS
      <4>1. a \in Seq(Real)
        BY <1>3 DEF a
      <4>2. t[n + 1] \in Real /\ b \in Seq(Real)
        BY <3>3
      <4> QED
        BY <4>1, <4>2, JoinedAppend, Zenon
    <3> QED
      BY <3>2, <3>4 DEF a, j
  <2>3. B \subseteq Nat
    OBVIOUS
  <2> HIDE DEF B
  <2> QED
    BY <2>1, <2>2, <2>3, SetInduction
<1>5. RealUpTo(u)[Len(u)] = RealOf(s) \o RealOf(t)
  <2>1. Len(t) \in B
    BY <1>1, <1>4
  <2>2. RealUpTo(u)[Len(s) + Len(t)] = RealOf(s) \o RealUpTo(t)[Len(t)]
    BY <1>1, <2>1
  <2> QED
    BY <1>1, <2>2 DEF RealOf
<1> QED
  BY <1>5 DEF RealOf, u

-----------------------------------------------------------------------------
(* The stages hold a FIFO.                                                 *)

Queue == RealOf(ring) \o RealOf(pump.chunk) \o buf
Discarding == guest.pc \notin {"idle", "pause"}

\* The pump holds frames between its drain and its write only, and a track that
\* is closed has none: neither in the buffer nor, once the server's is gone, in
\* the ring.
InTransit ==
    /\ pump.pc # "write" => pump.chunk = <<>>
    /\ guest.pc \in {"close", "closed"} => buf = <<>>
    /\ af = "gone" => guest.pc = "closed" /\ ring = <<>>

\* A step of CallStream, or none, in terms of the stages.
Stays ==
    /\ Queue' = Queue /\ count'.heard = count.heard
    /\ Discarding' => Discarding

Plays ==
    /\ Queue # <<>> /\ count'.heard = Head(Queue) /\ Queue' = Tail(Queue)
    /\ Discarding' <=> Discarding

Discards ==
    \E n \in 0..Len(Queue) :
        /\ count'.heard = count.heard /\ Discarding'
        /\ \/ Queue' = SubSeq(Queue, 1, n)
           \/ Discarding /\ Queue' = SubSeq(Queue, n + 1, Len(Queue))

Moves == count'.accepted = count.accepted /\ (Stays \/ Plays \/ Discards)

Accepts ==
    \E n \in 1..2 : /\ ~Discarding /\ ~Discarding'
                    /\ Queue' = Queue \o [i \in 1..n |-> count.accepted + i]
                    /\ count'.accepted = count.accepted + n
                    /\ count'.heard = count.heard

LEMMA MovesAreSteps == Moves \/ Accepts => [Stream!Next]_(Stream!vars)
<1>1. Accepts => Stream!Next
  BY DEF Accepts, Queue, Discarding, Stream!Next, Stream!Accept
<1>2. count'.accepted = count.accepted /\ Stays => [Stream!Next]_(Stream!vars)
  BY DEF Stays, Queue, Discarding, Stream!Next, Stream!DiscardEnds, Stream!vars
<1>3. count'.accepted = count.accepted /\ Plays => Stream!Next
  BY DEF Plays, Queue, Discarding, Stream!Next, Stream!Hear
<1>4. count'.accepted = count.accepted /\ Discards => Stream!Next
  BY DEF Discards, Queue, Discarding, Stream!Next, Stream!Discard, Stream!DiscardBegins
<1> QED
  BY <1>1, <1>2, <1>3, <1>4 DEF Moves

LEMMA QueueParts ==
    ASSUME IInv
    PROVE  /\ RealOf(ring) \in Seq(Real) /\ RealOf(pump.chunk) \in Seq(Real)
           /\ buf \in Seq(Real)
           /\ ring \in Seq(Frames) /\ pump.chunk \in Seq(Frames)
           /\ RealOf(ring) \o RealOf(pump.chunk) \in Seq(Real) /\ Queue \in Seq(Real)
           /\ Len(Queue) \in Nat
<1>1. /\ ring \in Seq(Frames) /\ pump.chunk \in Seq(Frames) /\ buf \in Seq(Real)
  BY DEF IInv, Typed, Pumps
<1>2. RealOf(ring) \in Seq(Real) /\ RealOf(pump.chunk) \in Seq(Real)
  BY <1>1, RealType
<1>3. RealOf(ring) \o RealOf(pump.chunk) \in Seq(Real)
  BY <1>2, ConcatProperties
<1>4. Queue \in Seq(Real)
  BY <1>1, <1>3, ConcatProperties DEF Queue
<1> QED
  BY <1>1, <1>2, <1>3, <1>4, LenProperties

LEMMA RealOfEmpty == RealOf(<<>>) = <<>>
<1>1. <<>> \in Seq(Real)
  BY EmptySeq
<1> QED
  BY <1>1, RealOfReal

LEMMA Ends ==
    ASSUME NEW S, NEW p \in Seq(S), NEW q \in Seq(S)
    PROVE  /\ Len(p) \in 0..Len(p \o q) /\ Len(p \o q) \in Nat
           /\ SubSeq(p \o q, 1, Len(p)) = p
           /\ SubSeq(p \o q, Len(p) + 1, Len(p \o q)) = q
<1>1. Len(p) \in Nat /\ Len(q) \in Nat /\ Len(p \o q) = Len(p) + Len(q) /\ p \o q \in Seq(S)
  BY ConcatProperties, LenProperties
<1>2. SubSeq(p \o q, 1, Len(p)) = p
  <2>1. CASE Len(p) = 0
    <3>1. p = <<>>
      BY <2>1, EmptySeq
    <3> QED
      BY <2>1, <3>1, SubSeqEmpty
  <2>2. CASE Len(p) # 0
    <3>1. 1 \in 1..Len(p) /\ Len(p) \in 1..Len(p)
      BY <1>1, <2>2
    <3>2. SubSeq(p \o q, 1, Len(p)) = SubSeq(p, 1, Len(p))
      BY <3>1, SubSeqOfConcat1
    <3> QED
      BY <3>2, SubSeqFull
  <2> QED
    BY <2>1, <2>2
<1>3. SubSeq(p \o q, Len(p) + 1, Len(p \o q)) = q
  <2>1. CASE Len(q) = 0
    <3>1. q = <<>>
      BY <2>1, EmptySeq
    <3>2. Len(p) + 1 \in Int /\ Len(p \o q) \in Int /\ Len(p \o q) < Len(p) + 1
      BY <1>1, <2>1
    <3> QED
      BY <3>1, <3>2, SubSeqEmpty
  <2>2. CASE Len(q) # 0
    <3>1. /\ Len(p) + 1 \in Len(p) + 1 .. Len(p) + Len(q)
          /\ Len(p) + Len(q) \in Len(p) + 1 .. Len(p) + Len(q)
          /\ (Len(p) + 1) - Len(p) = 1 /\ (Len(p) + Len(q)) - Len(p) = Len(q)
      BY <1>1, <2>2
    <3>2. SubSeq(p \o q, Len(p) + 1, Len(p) + Len(q))
            = SubSeq(q, (Len(p) + 1) - Len(p), (Len(p) + Len(q)) - Len(p))
      BY <3>1, SubSeqOfConcat2
    <3> QED
      BY <1>1, <3>1, <3>2, SubSeqFull
  <2> QED
    BY <2>1, <2>2
<1> QED
  BY <1>1, <1>2, <1>3

LEMMA Regroup == \A p, q, r \in Seq(Real) : (p \o q) \o r = p \o (q \o r)
BY ConcatAssociative

LEMMA Joined ==
    \A p, q \in Seq(Real) : <<>> \o p = p /\ p \o <<>> = p /\ p \o q \in Seq(Real)
BY ConcatEmptySeq, ConcatProperties

LEMMA WriteAccepts ==
    ASSUME IInv, NEW n \in 1..2, Write(n)
    PROVE  Moves \/ Accepts
<1> DEFINE take == Least(n, JitterCap - Len(buf))
           more == [i \in 1..take |-> count.accepted + i]
<1>1. Len(buf) \in Nat /\ Len(buf) <= JitterCap /\ JitterCap \in Nat
  BY Numbers, SizesAssumption DEF IInv, Typed
<1>2. take \in {0} \cup 1..2 /\ take <= n
  BY <1>1 DEF Least
<1>3. count.accepted \in Nat /\ count.accepted + take <= MaxFrames /\ count.heard \in Nat
  <2>1. count.accepted + n <= MaxFrames /\ count.accepted \in Nat /\ count.heard \in Nat
    BY Numbers, SizesAssumption DEF Write, IInv, Typed, Counts, Frames
  <2> HIDE DEF take
  <2> QED
    BY <1>2, <2>1, SizesAssumption
<1>4. /\ buf' = buf \o more /\ count' = [count EXCEPT !.accepted = @ + take]
      /\ guest.pc = "idle" /\ UNCHANGED <<guest, pump, ring>>
  BY DEF Write, external
<1>5. count'.accepted = count.accepted + take /\ count'.heard = count.heard
  BY <1>3, <1>4 DEF IInv, Typed, Counts
<1>6. more \in Seq(Real) /\ (take = 0 => more = <<>>)
  <2>1. take \in Nat
    BY <1>2
  <2>2. more \in Seq(Real) /\ Len(more) = take
    BY <1>3, <2>1, NewFrames
  <2> HIDE DEF more
  <2> QED
    BY <2>2, EmptySeq
<1>7. Queue' = Queue \o more
  <2> HIDE DEF more
  <2>1. Queue' = (RealOf(ring) \o RealOf(pump.chunk)) \o (buf \o more)
    BY <1>4 DEF Queue
  <2>2. RealOf(ring) \o RealOf(pump.chunk) \in Seq(Real) /\ buf \in Seq(Real)
    BY QueueParts
  <2>3. ((RealOf(ring) \o RealOf(pump.chunk)) \o buf) \o more
          = (RealOf(ring) \o RealOf(pump.chunk)) \o (buf \o more)
    BY <1>6, <2>2, Regroup, Zenon
  <2> QED
    BY <2>1, <2>3 DEF Queue
<1>8. ~Discarding /\ ~Discarding'
  BY <1>4 DEF Discarding
<1>9. CASE take = 0
  <2>1. Queue' = Queue
    <3>1. Queue \o <<>> = Queue
      BY QueueParts, Joined, Zenon
    <3> QED
      BY <1>6, <1>7, <1>9, <3>1
  <2>2. count'.accepted = count.accepted
    BY <1>3, <1>5, <1>9
  <2> QED
    BY <1>5, <1>8, <2>1, <2>2 DEF Moves, Stays
<1>10. CASE take # 0
  <2>1. take \in 1..2
    BY <1>2, <1>10
  <2> QED
    BY <1>5, <1>7, <1>8, <2>1 DEF Accepts
<1> QED
  BY <1>9, <1>10

\* Frames that stay where they are.
LEMMA StillMoves ==
    ASSUME UNCHANGED <<ring, buf, count>>, pump'.chunk = pump.chunk, Discarding' => Discarding
    PROVE  Moves
<1>1. Queue' = Queue
  BY DEF Queue
<1> QED
  BY <1>1 DEF Moves, Stays

\* flush and close: what is cleared is a front or a back of the queue.
LEMMA FlushDiscards ==
    ASSUME IInv, InTransit,
           Flush \/ FlushBuffer \/ FlushPause \/ FlushRing \/ FlushCount \/ Close \/ CloseServer
    PROVE  Moves
<1> DEFINE p == RealOf(ring)
           c == RealOf(pump.chunk)
<1>1. UNCHANGED <<pump, count>>
  BY DEF Flush, FlushBuffer, FlushPause, FlushRing, FlushCount, Close, CloseServer, external
<1>2. /\ p \in Seq(Real) /\ c \in Seq(Real) /\ buf \in Seq(Real)
      /\ Queue = (p \o c) \o buf /\ Queue = p \o (c \o buf)
      /\ p \o c \in Seq(Real) /\ c \o buf \in Seq(Real) /\ Queue \in Seq(Real)
      /\ Len(Queue) \in Nat
  <2>1. p \in Seq(Real) /\ c \in Seq(Real) /\ buf \in Seq(Real)
        /\ Queue = (p \o c) \o buf /\ Queue \in Seq(Real) /\ Len(Queue) \in Nat
    BY QueueParts DEF Queue
  <2> HIDE DEF p, c
  <2>2. (p \o c) \o buf = p \o (c \o buf)
    BY <2>1, Regroup, Zenon
  <2>3. p \o c \in Seq(Real) /\ c \o buf \in Seq(Real)
    BY <2>1, Joined, Zenon
  <2> QED
    BY <2>1, <2>2, <2>3
<1>3. RealOf(<<>>) = <<>>
  BY RealOfEmpty
<1>q. Queue' = (RealOf(ring') \o RealOf(pump'.chunk)) \o buf'
  BY DEF Queue
<1> HIDE DEF p, c
<1>4. CASE Flush
  <2>1. /\ UNCHANGED <<ring, buf>> /\ guest.pc = "idle" /\ guest'.pc = "flushRead"
    BY <1>4 DEF Flush, external
  <2>2. Queue' = SubSeq(Queue, 1, Len(Queue)) /\ Len(Queue) \in 0..Len(Queue)
    BY <1>1, <1>2, <1>q, <2>1, SubSeqFull DEF Queue
  <2>3. ~Discarding /\ Discarding'
    BY <2>1 DEF Discarding
  <2> QED
    BY <1>1, <2>2, <2>3 DEF Moves, Discards
<1>5. CASE FlushBuffer \/ Close
  <2>1. /\ ring' = ring /\ buf' = <<>>
        /\ \/ guest' = [guest EXCEPT !.pc = "flushPause"]
           \/ guest' = [guest EXCEPT !.pc = "close"]
    BY <1>5 DEF FlushBuffer, Close, external
  <2>2. ring' = ring /\ buf' = <<>> /\ Discarding'
    BY <2>1 DEF Discarding, IInv, Typed, Guests
  <2>3. Queue' = p \o c
    <3>1. Queue' = (p \o c) \o <<>>
      BY <1>1, <1>q, <2>2 DEF p, c
    <3>2. (p \o c) \o <<>> = p \o c
      BY <1>2, Joined, Zenon
    <3> QED
      BY <3>1, <3>2
  <2>4. Queue' = SubSeq(Queue, 1, Len(p \o c)) /\ Len(p \o c) \in 0..Len(Queue)
    <3> DEFINE S == Real
               f == p \o c
    <3>1. f \in Seq(S) /\ buf \in Seq(S) /\ Queue = f \o buf /\ Queue' = f
      BY <1>2, <2>3
    <3> HIDE DEF S, f
    <3>2. SubSeq(f \o buf, 1, Len(f)) = f /\ Len(f) \in 0..Len(f \o buf)
      BY <3>1, Ends
    <3> QED
      BY <3>1, <3>2 DEF f
  <2> QED
    BY <1>1, <2>2, <2>4 DEF Moves, Discards
<1>6. CASE FlushPause
  <2>1. /\ UNCHANGED <<ring, buf>> /\ guest.pc = "flushPause"
        /\ guest' = [guest EXCEPT !.pc = "flushRing"]
    BY <1>6 DEF FlushPause
  <2>2. Discarding
    BY <2>1 DEF Discarding
  <2> QED
    BY <1>1, <2>1, <2>2, StillMoves
<1>7. CASE FlushCount
  <2>1. UNCHANGED <<ring, buf>> /\ guest.pc = "flushCount" /\ guest'.pc = "idle"
    BY <1>7 DEF FlushCount, GuestIdle, external
  <2>2. Discarding /\ ~Discarding'
    BY <2>1 DEF Discarding
  <2> QED
    BY <1>1, <2>1, <2>2, StillMoves
<1>8. CASE FlushRing \/ CloseServer
  <2>1. /\ buf' = buf /\ guest.pc \in {"flushRing", "close"} /\ ring' \in {ring, <<>>}
        /\ guest' = [guest EXCEPT !.pc = "flushCount"] \/ guest' = [guest EXCEPT !.pc = "closed"]
    BY <1>8 DEF FlushRing, CloseServer
  <2>2. Discarding /\ Discarding'
    BY <2>1 DEF Discarding, IInv, Typed, Guests
  <2>3. CASE ring' = ring
    BY <1>1, <2>1, <2>2, <2>3, StillMoves
  <2>4. CASE ring' = <<>>
    <3>1. Queue' = c \o buf
      <4>1. Queue' = (<<>> \o c) \o buf
        BY <1>1, <1>3, <1>q, <2>1, <2>4 DEF c
      <4>2. <<>> \o c = c
        BY <1>2, Joined, Zenon
      <4> QED
        BY <4>1, <4>2
    <3>2. Queue' = SubSeq(Queue, Len(p) + 1, Len(Queue)) /\ Len(p) \in 0..Len(Queue)
      <4> DEFINE S == Real
                 b == c \o buf
      <4>1. p \in Seq(S) /\ b \in Seq(S) /\ Queue = p \o b /\ Queue' = b
        BY <1>2, <3>1
      <4> HIDE DEF S, b
      <4>2. SubSeq(p \o b, Len(p) + 1, Len(p \o b)) = b /\ Len(p) \in 0..Len(p \o b)
        BY <4>1, Ends
      <4> QED
        BY <4>1, <4>2
    <3> QED
      BY <1>1, <2>2, <3>2 DEF Moves, Discards
  <2> QED
    BY <2>1, <2>3, <2>4
<1> QED
  BY <1>4, <1>5, <1>6, <1>7, <1>8

\* The pump's drain: the front of the buffer becomes the chunk's real frames.
LEMMA DrainMoves ==
    ASSUME IInv, InTransit, PumpDrain
    PROVE  Moves
<1>1. UNCHANGED <<guest, ring>> /\ pump.pc = "drain" /\ pump.chunk = <<>>
  BY DEF PumpDrain, external, InTransit
<1>2. Discarding' <=> Discarding
  BY <1>1 DEF Discarding
<1>3. RealOf(pump.chunk) = <<>>
  BY <1>1, RealOfEmpty
<1> DEFINE n == Least(pump.need, Len(buf))
           taken == Take(buf, n)
           pad == Padding(pump.need - n)
<1>4. \/ pump' = PumpSleep /\ UNCHANGED <<buf, count>>
      \/ /\ pump' = [pump EXCEPT !.pc = "write", !.chunk = taken \o pad]
         /\ buf' = Drop(buf, n)
         /\ count' = [count EXCEPT !.moved = @ + n]
  BY DEF PumpDrain
<1>5. /\ buf \in Seq(Real) /\ Len(buf) \in Nat /\ pump.need \in Nat
  BY Numbers DEF IInv, Typed
<1>6. n \in 0..Len(buf) /\ pump.need - n \in Nat
  BY <1>5 DEF Least
<1> HIDE DEF n
<1>7. /\ taken \in Seq(Real) /\ Drop(buf, n) \in Seq(Real)
      /\ taken \o Drop(buf, n) = buf
  <2>1. taken \in Seq(Real) /\ Drop(buf, n) \in Seq(Real)
    BY <1>5, <1>6, TakeDrop
  <2>2. SubSeq(buf, 1, n) \o SubSeq(buf, n + 1, Len(buf)) = SubSeq(buf, 1, Len(buf))
    <3>1. 1 \in 1..(Len(buf) + 1) /\ n \in 1 - 1 .. Len(buf) /\ Len(buf) \in n..Len(buf)
      BY <1>5, <1>6
    <3> QED
      BY <1>5, <3>1, ConcatAdjacentSubSeq
  <2>3. SubSeq(buf, 1, Len(buf)) = buf
    BY <1>5, SubSeqFull
  <2> QED
    BY <2>1, <2>2, <2>3 DEF Take, Drop
<1>8. RealOf(taken \o pad) = taken
  <2>1. pad \in Seq(Frames) /\ RealOf(pad) = <<>>
    BY <1>6, PaddingType, RealOfPadding
  <2>2. Real \subseteq Frames
    BY DEF Real
  <2>3. taken \in Seq(Frames) /\ RealOf(taken) = taken
    BY <1>7, <2>2, SeqMonotonic, RealOfReal
  <2> HIDE DEF taken, pad
  <2>4. RealOf(taken \o pad) = RealOf(taken) \o RealOf(pad)
    BY <2>1, <2>3, RealOfJoined
  <2> QED
    BY <1>7, <2>1, <2>3, <2>4, ConcatEmptySeq
<1> HIDE DEF taken, pad
<1>9. CASE pump' = PumpSleep /\ UNCHANGED <<buf, count>>
  <2>1. pump'.chunk = pump.chunk
    BY <1>1, <1>9 DEF PumpSleep
  <2> QED
    BY <1>1, <1>2, <1>9, <2>1, StillMoves
<1>10. CASE /\ pump' = [pump EXCEPT !.pc = "write", !.chunk = taken \o pad]
            /\ buf' = Drop(buf, n)
            /\ count' = [count EXCEPT !.moved = @ + n]
  <2>1. pump'.chunk = taken \o pad
    BY <1>10 DEF IInv, Typed, Pumps
  <2>2. count'.accepted = count.accepted /\ count'.heard = count.heard
    BY <1>10 DEF IInv, Typed, Counts
  <2>3. Queue' = (RealOf(ring) \o taken) \o Drop(buf, n)
    BY <1>1, <1>8, <1>10, <2>1 DEF Queue
  <2>p. RealOf(ring) \in Seq(Real)
    BY QueueParts
  <2>4. Queue = RealOf(ring) \o buf
    <3>1. RealOf(ring) \o <<>> = RealOf(ring)
      BY <2>p, Joined, Zenon
    <3> QED
      BY <1>3, <3>1 DEF Queue
  <2>5. (RealOf(ring) \o taken) \o Drop(buf, n) = RealOf(ring) \o (taken \o Drop(buf, n))
    BY <1>7, <2>p, Regroup, Zenon
  <2>6. Queue' = Queue
    BY <1>7, <2>3, <2>4, <2>5
  <2> QED
    BY <1>2, <2>2, <2>6 DEF Moves, Stays
<1> QED
  BY <1>4, <1>9, <1>10

\* The pump's write: the chunk follows the ring's frames, unless the track is gone.
LEMMA RingWriteMoves ==
    ASSUME IInv, InTransit, PumpWrite
    PROVE  Moves
<1>1. UNCHANGED <<guest, buf, count>> /\ (Discarding' <=> Discarding) /\ pump.pc = "write"
  BY DEF PumpWrite, Discarding
<1>2. pump'.chunk = <<>> /\ RealOf(<<>>) = <<>>
  <2>1. CASE pump' = PumpSleep
    BY <2>1, RealOfEmpty DEF PumpSleep
  <2>2. CASE pump' = [pump EXCEPT !.pc = "start", !.chunk = <<>>]
    BY <2>2, RealOfEmpty DEF IInv, Typed, Pumps
  <2> QED
    BY <2>1, <2>2 DEF PumpWrite
<1>3. Queue' = RealOf(ring') \o buf
  <2>1. ring' \in Seq(Frames)
    BY WriteRingKeeps DEF IInv, Typed
  <2>2. RealOf(ring') \in Seq(Real)
    BY <2>1, RealType
  <2>3. RealOf(ring') \o <<>> = RealOf(ring')
    BY <2>2, Joined, Zenon
  <2>4. Queue' = (RealOf(ring') \o <<>>) \o buf
    BY <1>1, <1>2 DEF Queue
  <2> QED
    BY <2>3, <2>4
<1>4. CASE af = "gone"
  <2>1. ring' = <<>> /\ buf = <<>> /\ Discarding
    BY <1>4 DEF PumpWrite, InTransit, Discarding
  <2>2. Queue' = <<>>
    <3>1. Queue' = <<>> \o <<>> /\ <<>> \in Seq(Real)
      BY <1>2, <1>3, <2>1, EmptySeq
    <3>2. <<>> \o <<>> = <<>>
      BY <3>1, Joined, Zenon
    <3> QED
      BY <3>1, <3>2
  <2>3. Queue' = SubSeq(Queue, 1, 0) /\ 0 \in 0..Len(Queue)
    <3>1. Len(Queue) \in Nat
      BY QueueParts
    <3>2. SubSeq(Queue, 1, 0) = <<>>
      BY SubSeqEmpty
    <3> QED
      BY <2>2, <3>1, <3>2
  <2> QED
    BY <1>1, <2>1, <2>3 DEF Moves, Discards
<1>5. CASE af # "gone"
  <2>1. /\ Len(ring) \in Nat /\ Len(pump.chunk) \in Nat /\ Target \in Nat
        /\ Len(ring) + Len(pump.chunk) <= Target
    BY <1>1, Numbers, SizesAssumption DEF IInv, RoomIsThere
  <2>2. Least(Len(pump.chunk), Target - Len(ring)) = Len(pump.chunk)
    BY <2>1 DEF Least
  <2>3. Take(pump.chunk, Len(pump.chunk)) = pump.chunk
    <3>1. pump.chunk \in Seq(Frames)
      BY QueueParts
    <3> QED
      BY <3>1, SubSeqFull DEF Take
  <2>4. ring' = ring \o pump.chunk
    BY <1>5, <2>2, <2>3 DEF PumpWrite
  <2>5. RealOf(ring') = RealOf(ring) \o RealOf(pump.chunk)
    <3>1. ring \in Seq(Frames) /\ pump.chunk \in Seq(Frames)
      BY QueueParts
    <3>2. RealOf(ring \o pump.chunk) = RealOf(ring) \o RealOf(pump.chunk)
      BY <3>1, RealOfJoined
    <3> QED
      BY <2>4, <3>2
  <2>6. Queue' = Queue
    BY <1>3, <2>5 DEF Queue
  <2> QED
    BY <1>1, <2>6 DEF Moves, Stays
<1> QED
  BY <1>4, <1>5

\* The mixer: a real frame at the ring's front is the queue's head.
LEMMA PlayMoves ==
    ASSUME IInv, InTransit, ServerPlay
    PROVE  Moves
<1>1. /\ UNCHANGED <<guest, pump, buf>> /\ (Discarding' <=> Discarding) /\ ring # <<>>
      /\ ring' = Tail(ring)
      /\ count' = [count EXCEPT !.heard = IF IsReal(Head(ring)) THEN Head(ring) ELSE @]
  BY DEF ServerPlay, Discarding
<1> DEFINE h == Head(ring)
           rest == RealOf(ring')
           back == RealOf(pump.chunk) \o buf
<1>2. /\ ring \in Seq(Frames) /\ h \in Frames /\ ring' \in Seq(Frames)
      /\ ring = <<h>> \o ring'
  <2>1. ring \in Seq(Frames)
    BY QueueParts
  <2>2. h \in Frames /\ Tail(ring) \in Seq(Frames)
    BY <1>1, <2>1, HeadTailProperties
  <2>3. ring = <<h>> \o Tail(ring)
    BY <1>1, <2>1, <2>2
  <2> QED
    BY <1>1, <2>1, <2>2, <2>3
<1>3. rest \in Seq(Real) /\ back \in Seq(Real)
  <2>1. RealOf(pump.chunk) \in Seq(Real) /\ buf \in Seq(Real)
    BY QueueParts
  <2>2. RealOf(pump.chunk) \o buf \in Seq(Real)
    BY <2>1, Joined, Zenon
  <2> QED
    BY <1>2, <2>2, RealType
<1>p. \A r \in Seq(Real) : (r \o RealOf(pump.chunk)) \o buf = r \o back
  <2>1. RealOf(pump.chunk) \in Seq(Real) /\ buf \in Seq(Real)
    BY QueueParts
  <2> QED
    BY <2>1, Regroup, Zenon
<1>4. Queue' = rest \o back
  <2>1. Queue' = (rest \o RealOf(pump.chunk)) \o buf
    BY <1>1 DEF Queue
  <2> QED
    BY <1>3, <1>p, <2>1
<1>5. /\ count'.accepted = count.accepted
      /\ count'.heard = IF IsReal(h) THEN h ELSE count.heard
  BY <1>1 DEF IInv, Typed, Counts
<1>6. RealOf(ring) = RealOf(<<h>>) \o rest
  <2>1. <<h>> \in Seq(Frames)
    BY <1>2
  <2> HIDE DEF h
  <2> QED
    BY <1>2, <2>1, RealOfJoined
<1>7. RealOf(<<h>>) = IF IsReal(h) THEN <<h>> ELSE <<>>
  <2>1. CASE IsReal(h)
    <3>1. <<h>> \in Seq(Real)
      BY <1>2, <2>1 DEF IsReal, Real
    <3> QED
      BY <2>1, <3>1, RealOfReal
  <2>2. CASE ~IsReal(h)
    <3>1. <<h>> = Padding(1)
      BY <2>2 DEF IsReal, Padding
    <3> QED
      BY <2>2, <3>1, RealOfPadding
  <2> QED
    BY <2>1, <2>2
<1>8. Queue = RealOf(ring) \o back
  <2>1. RealOf(ring) \in Seq(Real)
    BY QueueParts
  <2> QED
    BY <1>p, <2>1 DEF Queue
<1> HIDE DEF h, rest, back
<1>9. CASE IsReal(h)
  <2>1. h \in Real
    BY <1>2, <1>9 DEF Real, IsReal
  <2>2. rest \o back \in Seq(Real) /\ <<h>> \in Seq(Real)
    BY <1>3, <2>1, ConcatProperties
  <2>3. Queue = (<<h>> \o rest) \o back
    BY <1>6, <1>7, <1>8, <1>9
  <2>4. (<<h>> \o rest) \o back = <<h>> \o (rest \o back)
    BY <1>3, <2>2, Regroup, Zenon
  <2> DEFINE q == rest \o back
  <2>5. Queue = <<h>> \o q /\ q \in Seq(Real)
    BY <2>2, <2>3, <2>4
  <2>6. <<h>> \o q # <<>> /\ Head(<<h>> \o q) = h /\ Tail(<<h>> \o q) = q
    <3> HIDE DEF q
    <3> QED
      BY <2>1, <2>5
  <2> QED
    BY <1>1, <1>4, <1>5, <1>9, <2>5, <2>6 DEF Moves, Plays
<1>10. CASE ~IsReal(h)
  <2>1. Queue = rest \o back
    <3>1. <<>> \o rest = rest
      BY <1>3, Joined, Zenon
    <3> QED
      BY <1>6, <1>7, <1>8, <1>10, <3>1
  <2> QED
    BY <1>1, <1>4, <1>5, <1>10, <2>1 DEF Moves, Stays
<1> QED
  BY <1>9, <1>10

\* The steps that touch no frame.
LEMMA QuietMoves ==
    ASSUME IInv, InTransit,
           \/ Start \/ Pause \/ PauseServer \/ Drain
           \/ PumpSnapshot \/ PumpPending \/ PumpStart \/ PumpMark
           \/ ServerMap \/ ServerUnderrun
    PROVE  Moves
<1>1. UNCHANGED <<ring, buf, count>>
  BY DEF Start, Pause, PauseServer, Drain, PumpSnapshot, PumpPending, PumpStart, PumpMark,
     ServerMap, ServerUnderrun, external
<1>2. pump'.chunk = pump.chunk
  <2>1. CASE Start \/ Pause \/ PauseServer \/ Drain \/ ServerMap \/ ServerUnderrun
    BY <2>1 DEF Start, Pause, PauseServer, Drain, ServerMap, ServerUnderrun, external
  <2>2. CASE PumpSnapshot \/ PumpStart
    BY <2>2 DEF PumpSnapshot, PumpStart, IInv, Typed, Pumps
  <2>3. CASE PumpPending \/ PumpMark
    <3>1. pump.chunk = <<>>
      BY <2>3 DEF PumpPending, PumpMark, InTransit
    <3> QED
      BY <2>3, <3>1 DEF PumpPending, PumpMark, PumpSleep
  <2> QED
    BY <2>1, <2>2, <2>3
<1>3. Discarding' => Discarding
  <2>1. CASE Pause
    <3>1. guest.pc = "idle" /\ guest'.pc = "pause"
      BY <2>1 DEF Pause, IInv, Typed, Guests
    <3> QED
      BY <3>1 DEF Discarding
  <2>2. CASE PauseServer
    BY <2>2 DEF PauseServer, GuestIdle, Discarding
  <2>3. CASE ~Pause /\ ~PauseServer
    <3>1. guest' = guest
      BY <2>3 DEF Start, Drain, PumpSnapshot, PumpPending, PumpStart, PumpMark,
         ServerMap, ServerUnderrun, external
    <3> QED
      BY <3>1 DEF Discarding
  <2> QED
    BY <2>1, <2>2, <2>3
<1> QED
  BY <1>1, <1>2, <1>3, StillMoves

LEMMA TransitKept ==
    ASSUME IInv, InTransit, [Next]_vars
    PROVE  InTransit'
<1>1. pump'.pc # "write" => pump'.chunk = <<>>
  <2>1. CASE pump' = pump
    BY <2>1 DEF InTransit
  <2>2. CASE PumpSnapshot \/ PumpStart
    BY <2>2 DEF PumpSnapshot, PumpStart, IInv, Typed, Pumps, InTransit
  <2>3. CASE PumpPending \/ PumpMark \/ PumpDrain \/ PumpWrite
    <3>1. PumpSleep.chunk = <<>>
      BY DEF PumpSleep
    <3>2. CASE PumpPending \/ PumpMark
      BY <3>1, <3>2 DEF PumpPending, PumpMark
    <3>3. CASE PumpDrain
      <4>1. pump' = PumpSleep \/ pump'.pc = "write"
        BY <3>3 DEF PumpDrain, IInv, Typed, Pumps
      <4> QED
        BY <3>1, <4>1
    <3>4. CASE PumpWrite
      <4>1. pump' = PumpSleep \/ pump' = [pump EXCEPT !.pc = "start", !.chunk = <<>>]
        BY <3>4 DEF PumpWrite
      <4>2. [pump EXCEPT !.pc = "start", !.chunk = <<>>].chunk = <<>>
        BY DEF IInv, Typed, Pumps
      <4> QED
        BY <3>1, <4>1, <4>2
    <3> QED
      BY <2>3, <3>2, <3>3, <3>4
  <2> QED
    BY <2>1, <2>2, <2>3 DEF Next, vars, Guest, GuestRest, Pump, Server, Write, Start, Pause,
       PauseServer, Flush, FlushBuffer, FlushPause, FlushRing, FlushCount, Drain, Close,
       CloseServer, ServerMap, ServerPlay, ServerUnderrun
<1>2. guest'.pc \in {"close", "closed"} => buf' = <<>>
  <2>1. CASE Close \/ CloseServer
    BY <2>1 DEF Close, CloseServer, InTransit
  <2>2. CASE UNCHANGED <<guest, buf>>
    BY <2>2 DEF InTransit
  <2>3. CASE PumpDrain
    <3>1. guest' = guest /\ \/ buf' = buf
                            \/ buf' = Drop(buf, Least(pump.need, Len(buf)))
      BY <2>3 DEF PumpDrain
    <3>2. buf = <<>> => buf' = <<>>
      <4> SUFFICES ASSUME buf = <<>>, buf' = Drop(buf, Least(pump.need, Len(buf))) PROVE buf' = <<>>
        BY <3>1
      <4>1. Len(buf) = 0 /\ pump.need \in Nat
        BY EmptySeq, Numbers DEF IInv
      <4> QED
        BY <4>1, SubSeqEmpty DEF Drop, Least
    <3> QED
      BY <3>1, <3>2 DEF InTransit
  <2>4. CASE guest'.pc \notin {"close", "closed"}
    BY <2>4
  <2>5. ASSUME NEW n \in 1..2, Write(n) PROVE guest'.pc \notin {"close", "closed"}
    BY <2>5 DEF Write
  <2>6. CASE Start \/ Pause \/ PauseServer \/ Drain \/ Flush \/ FlushBuffer
           \/ FlushPause \/ FlushRing \/ FlushCount
    BY <2>6 DEF Start, Pause, PauseServer, Drain, Flush, FlushBuffer, FlushPause, FlushRing,
       FlushCount, GuestIdle, IInv, Typed, Guests
  <2>7. CASE \/ PumpSnapshot \/ PumpPending \/ PumpWrite \/ PumpStart \/ PumpMark
             \/ Server \/ UNCHANGED vars
    BY <2>2, <2>7 DEF PumpSnapshot, PumpPending, PumpWrite, PumpStart, PumpMark, Server,
       ServerMap, ServerPlay, ServerUnderrun, vars
  <2> QED
    BY <2>1, <2>3, <2>5, <2>6, <2>7 DEF Next, Guest, GuestRest, Pump
<1>3. af' = "gone" => guest'.pc = "closed" /\ ring' = <<>>
  <2>1. CASE CloseServer
    BY <2>1 DEF CloseServer, IInv, Typed, Guests
  <2>2. CASE PauseServer \/ FlushPause \/ PumpStart
    <3>1. af' # "gone" \/ PumpStart
      BY <2>2 DEF PauseServer, FlushPause
    <3> QED
      BY <3>1 DEF PumpStart, InTransit
  <2>3. CASE UNCHANGED <<af, guest, ring>>
    BY <2>3 DEF InTransit
  <2>4. CASE PumpWrite
    BY <2>4 DEF PumpWrite, InTransit
  <2>5. CASE ServerPlay \/ ServerUnderrun
    BY <2>5 DEF ServerPlay, ServerUnderrun, InTransit
  <2>6. CASE Drain \/ Start \/ Pause \/ Flush \/ FlushBuffer \/ FlushRing \/ FlushCount \/ Close
    BY <2>6 DEF Drain, Start, Pause, Flush, FlushBuffer, FlushRing, FlushCount, Close, external,
       InTransit
  <2>7. CASE PumpSnapshot \/ PumpPending \/ PumpDrain \/ PumpMark \/ ServerMap \/ UNCHANGED vars
    BY <2>3, <2>7 DEF PumpSnapshot, PumpPending, PumpDrain, PumpMark, ServerMap, vars, external
  <2>8. ASSUME NEW n \in 1..2, Write(n) PROVE UNCHANGED <<af, guest, ring>>
    BY <2>8 DEF Write, external
  <2> QED
    BY <2>1, <2>2, <2>3, <2>4, <2>5, <2>6, <2>7, <2>8 DEF Next, Guest, GuestRest, Pump, Server
<1> QED
  BY <1>1, <1>2, <1>3 DEF InTransit

LEMMA StepMoves ==
    ASSUME IInv, InTransit, Next
    PROVE  Moves \/ Accepts
BY WriteAccepts, FlushDiscards, DrainMoves, RingWriteMoves, PlayMoves, QuietMoves
   DEF Next, Guest, GuestRest, Pump, Server

\* No interleaving of guest, pump and mixer loses, repeats or reorders a frame on
\* its way through jitter buffer, chunk and ring: together they are one FIFO.
THEOREM TrackIsAFifo == Spec => StreamIsFifo
<1>1. Init => InTransit
  BY DEF Init, InTransit, PumpSleep, GuestIdle
<1>2. Init => Stream!Init
  <2> SUFFICES ASSUME Init PROVE Stream!Init
    OBVIOUS
  <2>1. ring = <<>> /\ pump.chunk = <<>> /\ buf = <<>> /\ guest.pc = "idle"
        /\ count = [accepted |-> 0, moved |-> 0, heard |-> 0]
    BY DEF Init, PumpSleep, GuestIdle
  <2>2. RealOf(<<>>) = <<>> /\ <<>> \o <<>> = <<>>
    BY RealOfEmpty
  <2> QED
    BY <2>1, <2>2 DEF Stream!Init
<1>3. IInv /\ InTransit /\ [Next]_vars => [Stream!Next]_(Stream!vars)
  <2> SUFFICES ASSUME IInv, InTransit, [Next]_vars PROVE [Stream!Next]_(Stream!vars)
    OBVIOUS
  <2>1. CASE UNCHANGED vars
    BY <2>1 DEF vars, Stream!vars
  <2>2. CASE Next
    BY <2>2, StepMoves, MovesAreSteps
  <2> QED
    BY <2>1, <2>2
<1>4. IInv /\ InTransit /\ [Next]_vars => InTransit'
  BY TransitKept
<1> QED
  BY <1>1, <1>2, <1>3, <1>4, Inductive, PTL DEF Spec, StreamIsFifo, Stream!Spec

-----------------------------------------------------------------------------
(* The first start.                                                        *)

\* Without pauses and flushes the server's track stays paused until the pump
\* starts it, and what the pump writes before that fills the ring.
BeforeStart ==
    /\ guest.pc \in {"idle", "close", "closed"}
    /\ out.open => guest.pc = "idle"
    /\ guest.pc = "idle" => af # "gone"
    /\ out.open /\ pump.pc \in {"drain", "write"} /\ pump.ss => out.serverStarted
    /\ out.open /\ ~out.serverStarted /\ pump.pc \in {"sleep", "pending"} => af = "paused"

FillsTheRing ==
    /\ pump.pc \in {"drain", "write"} /\ ~pump.ss => af \in {"paused", "gone"}
    /\ pump.pc = "start" => af \in {"paused", "gone"}
    /\ pump.pc = "drain" /\ ~pump.ss /\ af # "gone" => Len(ring) + pump.need = Target
    /\ pump.pc = "write" /\ ~pump.ss /\ af # "gone" => Len(ring) + Len(pump.chunk) = Target
    /\ pump.pc = "start" /\ af # "gone" => Len(ring) = Target

LEMMA GuestBeforeStart ==
    ASSUME "pause" \notin Ops, "flush" \notin Ops, IInv, BeforeStart, FillsTheRing, Guest
    PROVE  BeforeStart' /\ FillsTheRing'
<1>1. CASE (\E n \in 1..2 : Write(n)) \/ Start
  <2>1. /\ UNCHANGED <<guest, pump, ring, af>> /\ out'.open = out.open
        /\ out'.serverStarted = out.serverStarted
    BY <1>1 DEF Write, Start, external, IInv, Typed, Outs
  <2> QED
    BY <2>1 DEF BeforeStart, FillsTheRing
<1>2. CASE Drain
  <2>1. UNCHANGED <<out, guest, pump, ring>> /\ guest.pc = "idle"
        /\ af' = IF af = "active" THEN "stopping" ELSE "paused"
    BY <1>2 DEF Drain
  <2> QED
    BY <2>1 DEF BeforeStart, FillsTheRing
<1>3. CASE Close
  <2>1. UNCHANGED <<pump, ring, af>> /\ ~out'.open /\ guest'.pc = "close"
    BY <1>3 DEF Close, external, IInv, Typed, Guests
  <2> QED
    BY <2>1 DEF BeforeStart, FillsTheRing
<1>4. CASE CloseServer
  <2>1. UNCHANGED <<pump, out>> /\ guest'.pc = "closed" /\ guest.pc = "close" /\ af' = "gone"
    BY <1>4 DEF CloseServer, IInv, Typed, Guests
  <2> QED
    BY <2>1 DEF BeforeStart, FillsTheRing
<1> QED
  BY <1>1, <1>2, <1>3, <1>4 DEF Guest, GuestRest, Pause, Flush, PauseServer, FlushBuffer,
     FlushPause, FlushRing, FlushCount, BeforeStart

LEMMA PumpFills ==
    ASSUME IInv, BeforeStart, FillsTheRing, Pump
    PROVE  BeforeStart' /\ FillsTheRing'
<1>0. /\ Len(ring) \in Nat /\ Len(pump.chunk) \in Nat /\ pump.need \in Nat /\ Target \in Nat
      /\ out \in Outs /\ pump \in Pumps
  BY Numbers, SizesAssumption DEF IInv, Typed
<1>1. CASE PumpSnapshot
  <2>1. UNCHANGED <<out, guest, ring, af>> /\ pump.pc = "sleep" /\ pump'.pc = "pending"
    BY <1>0, <1>1 DEF PumpSnapshot, external, Pumps
  <2> QED
    BY <2>1 DEF BeforeStart, FillsTheRing
<1>2. CASE PumpPending
  <2>1. /\ UNCHANGED <<out, guest, ring, af>> /\ pump.pc = "pending"
        /\ \/ pump'.pc = "sleep"
           \/ /\ pump'.pc = "drain" /\ pump'.ss = out.serverStarted /\ out.open
              /\ pump'.need = Target - Len(ring)
    BY <1>0, <1>2 DEF PumpPending, PumpSleep, external
  <2>2. Len(ring) + (Target - Len(ring)) = Target
    BY <1>0
  <2> QED
    BY <2>1, <2>2 DEF BeforeStart, FillsTheRing
<1>3. CASE PumpDrain
  <2>1. UNCHANGED <<out, guest, ring, af>> /\ pump.pc = "drain"
    BY <1>3 DEF PumpDrain, external
  <2> DEFINE n == Least(pump.need, Len(buf))
             chunk == Take(buf, n) \o Padding(pump.need - n)
  <2>2. pump' = PumpSleep \/ pump' = [pump EXCEPT !.pc = "write", !.chunk = chunk]
    BY <1>3 DEF PumpDrain
  <2>3. Len(chunk) = pump.need
    <3>1. buf \in Seq(Real) /\ Len(buf) \in Nat
      BY Numbers DEF IInv, Typed
    <3>2. n \in Nat /\ n <= pump.need /\ n <= Len(buf)
      BY <1>0, <3>1 DEF Least
    <3> HIDE DEF n
    <3> QED
      BY <1>0, <3>1, <3>2, ChunkType, Zenon
  <2> HIDE DEF n, chunk
  <2>4. CASE pump' = PumpSleep
    <3>1. pump'.pc = "sleep"
      BY <2>4 DEF PumpSleep
    <3> QED
      BY <2>1, <3>1 DEF BeforeStart, FillsTheRing
  <2>5. CASE pump' = [pump EXCEPT !.pc = "write", !.chunk = chunk]
    <3>1. pump'.pc = "write" /\ pump'.ss = pump.ss /\ pump'.chunk = chunk
      BY <1>0, <2>5 DEF Pumps
    <3> QED
      BY <2>1, <2>3, <3>1 DEF BeforeStart, FillsTheRing
  <2> QED
    BY <2>2, <2>4, <2>5
<1>4. CASE PumpWrite
  <2>1. UNCHANGED <<out, guest>> /\ pump.pc = "write" /\ (af' = "gone" <=> af = "gone")
        /\ (af # "disabled" => af' = af)
    BY <1>4 DEF PumpWrite
  <2>2. CASE pump.ss
    <3>1. pump'.pc = "sleep"
      BY <1>4, <2>2 DEF PumpWrite, PumpSleep
    <3> QED
      BY <2>1, <2>2, <3>1 DEF BeforeStart, FillsTheRing
  <2>3. CASE ~pump.ss
    <3>1. pump'.pc = "start"
      BY <1>0, <1>4, <2>3 DEF PumpWrite, Pumps
    <3>2. af \in {"paused", "gone"} /\ af' = af
      BY <2>1, <2>3 DEF FillsTheRing
    <3>3. af # "gone" => Len(ring') = Target
      <4> SUFFICES ASSUME af # "gone" PROVE Len(ring') = Target
        OBVIOUS
      <4>1. Len(ring) + Len(pump.chunk) = Target
        BY <2>1, <2>3 DEF FillsTheRing
      <4>2. Least(Len(pump.chunk), Target - Len(ring)) = Len(pump.chunk)
        BY <1>0, <4>1 DEF Least
      <4>3. ring' = ring \o Take(pump.chunk, Len(pump.chunk))
        BY <1>4, <4>2 DEF PumpWrite
      <4>4. ring \in Seq(Frames) /\ pump.chunk \in Seq(Frames)
        BY DEF IInv, Typed, Pumps
      <4>5. Take(pump.chunk, Len(pump.chunk)) = pump.chunk
        BY <4>4, SubSeqFull DEF Take
      <4>6. Len(ring \o pump.chunk) = Len(ring) + Len(pump.chunk)
        BY <4>4, ConcatProperties
      <4> QED
        BY <4>1, <4>3, <4>5, <4>6
    <3> QED
      BY <2>1, <3>1, <3>2, <3>3 DEF BeforeStart, FillsTheRing
  <2> QED
    BY <2>2, <2>3
<1>5. CASE PumpStart
  <2>1. UNCHANGED <<out, guest>> /\ pump'.pc = "mark" /\ (af # "gone" => af' # "gone")
    BY <1>0, <1>5 DEF PumpStart, Pumps
  <2> QED
    BY <2>1 DEF BeforeStart, FillsTheRing
<1>6. CASE PumpMark
  <2>1. UNCHANGED <<guest, ring, af>> /\ pump'.pc = "sleep" /\ out'.open = out.open
        /\ (out.open => out'.serverStarted)
    BY <1>0, <1>6 DEF PumpMark, PumpSleep, external, Outs
  <2> QED
    BY <2>1 DEF BeforeStart, FillsTheRing
<1> QED
  BY <1>1, <1>2, <1>3, <1>4, <1>5, <1>6 DEF Pump

LEMMA ServerBeforeStart ==
    ASSUME BeforeStart, FillsTheRing, Server
    PROVE  BeforeStart' /\ FillsTheRing'
<1>1. CASE ServerMap
  <2>1. UNCHANGED <<out, guest, pump, ring, af>>
    BY <1>1 DEF ServerMap
  <2> QED
    BY <2>1 DEF BeforeStart, FillsTheRing
<1>2. CASE ServerPlay \/ ServerUnderrun
  <2>1. /\ UNCHANGED <<out, guest, pump>> /\ af \in {"active", "stopping"} /\ af' # "gone"
    BY <1>2 DEF ServerPlay, ServerUnderrun
  <2> QED
    BY <2>1 DEF BeforeStart, FillsTheRing
<1> QED
  BY <1>1, <1>2 DEF Server

\* However the guest's writes fall into the pump's cycles, and with drains and a
\* close anywhere among them, the server's track is first started with a full ring.
THEOREM FirstStartIsFull ==
    ASSUME "pause" \notin Ops, "flush" \notin Ops
    PROVE  Spec => StartsOnAFullRing
<1>1. Init => BeforeStart /\ FillsTheRing
  BY DEF Init, BeforeStart, FillsTheRing, GuestIdle, PumpSleep
<1>2. IInv /\ BeforeStart /\ FillsTheRing /\ [Next]_vars => (BeforeStart /\ FillsTheRing)'
  <2> SUFFICES ASSUME IInv, BeforeStart, FillsTheRing, [Next]_vars
               PROVE  BeforeStart' /\ FillsTheRing'
    OBVIOUS
  <2>1. CASE UNCHANGED vars
    BY <2>1 DEF vars, BeforeStart, FillsTheRing
  <2> QED
    BY <2>1, GuestBeforeStart, PumpFills, ServerBeforeStart DEF Next
<1>3. FillsTheRing => [StartIsFull]_vars
  BY DEF FillsTheRing, StartIsFull
<1> QED
  BY <1>1, <1>2, <1>3, Inductive, PTL DEF Spec, StartsOnAFullRing

=============================================================================
