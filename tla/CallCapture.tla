---------------------------- MODULE CallCapture -----------------------------
(***************************************************************************)
(* The capture side of audio_impl.rs (mod audioclient_path): the record    *)
(* ring of audioserver, the drain pump and its buffer for a call, and the  *)
(* guest's reads.                                                          *)
(*                                                                         *)
(* The pump takes the handles under the lock, reads each ring without it   *)
(* and appends under it again: three steps.  Frames are numbered in the    *)
(* order the device records them; a stream's first number is kept, so that *)
(* a frame of a closed stream is told from one of its successor.           *)
(***************************************************************************)
EXTENDS Integers, Sequences

CONSTANTS
    RingCap,    \* frames of the record ring (about 60 ms)
    BufCap,     \* CAP_JITTER_CAP_FRAMES (about 200 ms)
    Tick,       \* frames recorded between two drains of the pump, at most
    MaxFrames,  \* bound: frames recorded
    MaxOpens    \* bound: streams opened

ConstantsOK ==
    /\ {RingCap, BufCap, Tick} \subseteq Nat \ {0} /\ {MaxFrames, MaxOpens} \subseteq Nat
    /\ Tick <= RingCap

VARIABLES
    mic,      \* kind: "none", "call", "direct"; handle; first frame recorded for it
    micRing,  \* the record ring of audioserver
    buf,      \* CapState.buf
    pump,     \* at: "sleep", "read", "append"; the handle; the frames read
    since,    \* frames recorded since the pump last drained the stream
    recorded  \* frames recorded by the device

vars == <<mic, micRing, buf, pump, since, recorded>>
-----------------------------------------------------------------------------
Least(a, b) == IF a < b THEN a ELSE b
DropFirst(s, n) == SubSeq(s, n + 1, Len(s))
Asleep == [at |-> "sleep", handle |-> 0, pcm |-> <<>>]

Init ==
    /\ mic = [kind |-> "none", handle |-> 0, first |-> 1]
    /\ micRing = <<>> /\ buf = <<>> /\ pump = Asleep /\ since = 0
    /\ recorded = 0

(* create_capture: a call's stream is registered with the pump.               *)
Open(kind) ==
    /\ mic.kind = "none" /\ mic.handle < MaxOpens
    /\ mic' = [kind |-> kind, handle |-> mic.handle + 1, first |-> recorded + 1]
    /\ micRing' = <<>> /\ buf' = <<>> /\ since' = 0
    /\ UNCHANGED <<pump, recorded>>

(* close: out of the pump's map, then the server's stream.                    *)
Close ==
    /\ mic.kind # "none"
    /\ mic' = [mic EXCEPT !.kind = "none"]
    /\ micRing' = <<>> /\ buf' = <<>>
    /\ UNCHANGED <<pump, since, recorded>>

(* The device records a frame; a full ring loses it.                          *)
Record ==
    /\ mic.kind # "none" /\ recorded < MaxFrames
    /\ mic.kind = "call" => since < Tick
    /\ since' = IF mic.kind = "call" THEN since + 1 ELSE 0
    /\ micRing' = IF Len(micRing) < RingCap THEN Append(micRing, recorded + 1) ELSE micRing
    /\ recorded' = recorded + 1
    /\ UNCHANGED <<mic, buf, pump>>

(* The pump wakes and takes the handles it finds in the map ...               *)
PumpWakes ==
    /\ pump.at = "sleep" /\ mic.kind = "call"
    /\ pump' = [pump EXCEPT !.at = "read", !.handle = mic.handle]
    /\ UNCHANGED <<mic, micRing, buf, since, recorded>>

(* ... reads all a ring holds, nothing of a stream closed meanwhile ...        *)
PumpReads ==
    /\ pump.at = "read"
    /\ IF mic.kind # "none" /\ pump.handle = mic.handle /\ micRing # <<>>
       THEN pump' = [pump EXCEPT !.at = "append", !.pcm = micRing] /\ micRing' = <<>>
       ELSE pump' = Asleep /\ UNCHANGED micRing
    /\ since' = IF pump.handle = mic.handle THEN 0 ELSE since
    /\ UNCHANGED <<mic, buf, recorded>>

(* ... and appends it for a stream still registered, dropping the oldest.      *)
PumpAppends ==
    /\ pump.at = "append"
    /\ LET all == buf \o pump.pcm IN
       buf' = IF mic.kind = "call" /\ pump.handle = mic.handle
              THEN DropFirst(all, IF Len(all) > BufCap THEN Len(all) - BufCap ELSE 0)
              ELSE buf
    /\ pump' = Asleep
    /\ UNCHANGED <<mic, micRing, since, recorded>>

(* read_pcm_f32: a call's from the buffer, any other from the ring.            *)
Read ==
    /\ \E max \in 1..BufCap :
         \/ /\ mic.kind = "call" /\ buf' = DropFirst(buf, Least(max, Len(buf)))
            /\ UNCHANGED micRing
         \/ /\ mic.kind = "direct" /\ micRing' = DropFirst(micRing, Least(max, Len(micRing)))
            /\ UNCHANGED buf
    /\ UNCHANGED <<mic, pump, since, recorded>>

Next ==
    \/ Open("call") \/ Open("direct") \/ Close \/ Record \/ Read
    \/ PumpWakes \/ PumpReads \/ PumpAppends

Spec == Init /\ [][Next]_vars
-----------------------------------------------------------------------------
(* Types, and the buffer's bound.                                             *)
TypeOK ==
    /\ mic \in [kind : {"none", "call", "direct"}, handle : 0..MaxOpens, first : 1..(MaxFrames + 1)]
    /\ micRing \in Seq(1..MaxFrames) /\ Len(micRing) <= RingCap
    /\ buf \in Seq(1..MaxFrames) /\ Len(buf) <= BufCap
    /\ pump.at \in {"sleep", "read", "append"} /\ pump.pcm \in Seq(1..MaxFrames)
    /\ since \in 0..Tick
    /\ recorded \in 0..MaxFrames

(* What a call's stream holds, in the buffer, in the pump's hands and in the   *)
(* ring, is what was recorded last for this stream, in order and without a    *)
(* hole: the unlocked read neither reorders nor carries over from a stream    *)
(* closed meanwhile, and a guest that never reads loses the oldest only.      *)
CallKeepsTheNewest ==
    mic.kind = "call" =>
        LET held == buf \o (IF pump.handle = mic.handle THEN pump.pcm ELSE <<>>) \o micRing
        IN \A i \in 1..Len(held) : /\ held[i] = recorded - Len(held) + i
                                   /\ held[i] >= mic.first
=============================================================================
