----------------------------- MODULE CallVideo ------------------------------
(***************************************************************************)
(* The camera encoder of a video call on a desktop (video_desktop.rs       *)
(* VideoEncoder, the codec crate's LibvpxEncoder and call-encoder of       *)
(* video_host_impl.rs).  A capture thread owns the camera and publishes    *)
(* the newest picture; the guest's thread encodes the newest it has not    *)
(* encoded yet, each time it asks for a chunk, and joins the capture       *)
(* thread when it drops the encoder.                                       *)
(*                                                                         *)
(* A picture is its sequence number; libvpx runs without lag, so that an   *)
(* encoded picture is one packet.                                          *)
(***************************************************************************)
EXTENDS Naturals

CONSTANTS
  MaxPictures,  \* bound: pictures of one opening
  MaxOpens,     \* bound: openings
  MaxRequests   \* bound: keyframe requests of one opening

VARIABLES
  caller,   \* the guest: "closed", "open", or "joining" inside drop
  thread,   \* capture thread: "none", at the loop's "head", in "frame()", "gone"
  stop,     \* cam_stop
  shot,     \* the capture thread's seq
  latest,   \* the seq of the published picture, 0 when it is taken
  lastSeq,  \* last_seq
  force,    \* force_keyframe
  chunk,    \* the last chunk the guest got: [seq, key]
  asked,    \* a keyframe was requested and none has come yet
  preview,  \* the picture on the self-view, NoPreview without one
  requests, openings

vars == <<caller, thread, stop, shot, latest, lastSeq, force, chunk, asked,
          preview, requests, openings>>

ConstantsOK == {MaxPictures, MaxOpens, MaxRequests} \subseteq Nat

NoChunk == [seq |-> 0, key |-> FALSE]
NoPreview == MaxPictures + 1

Init ==
  /\ caller = "closed" /\ thread = "none" /\ stop = FALSE
  /\ shot = 0 /\ latest = 0 /\ lastSeq = 0 /\ force = FALSE
  /\ chunk = NoChunk /\ asked = FALSE /\ preview = NoPreview
  /\ requests = 0 /\ openings = 0

(***************************************************************************)
(* The guest's thread                                                      *)
(***************************************************************************)

\* A camera that opens in none of its formats, or a codec that does not open,
\* leaves nothing behind.  A thread that cannot be spawned goes unnoticed: the
\* encoder opens, its camera is closed, no chunk ever comes.
Open ==
  /\ caller = "closed" /\ openings < MaxOpens
  /\ caller' = "open" /\ openings' = openings + 1
  /\ \E spawned \in BOOLEAN : thread' = IF spawned THEN "head" ELSE "none"
  /\ \E selfView \in BOOLEAN : preview' = IF selfView THEN 0 ELSE NoPreview
  /\ stop' = FALSE /\ shot' = 0 /\ latest' = 0 /\ lastSeq' = 0 /\ force' = FALSE
  /\ chunk' = NoChunk /\ asked' = FALSE /\ requests' = 0

RequestKeyframe ==
  /\ caller = "open" /\ requests < MaxRequests
  /\ force' = TRUE /\ asked' = TRUE /\ requests' = requests + 1
  /\ UNCHANGED <<caller, thread, stop, shot, latest, lastSeq, chunk, preview, openings>>

\* Mutant: the request is spent on an encode that fails.
MutantRestored(ok) == FALSE

\* What is left of a keyframe request after an encode.
Restored(ok) == ~ok /\ force

Taken == latest' = 0 /\ lastSeq' = latest

\* next_frame: the newest picture, when there is one, goes to the self-view
\* and to the encoder.  libvpx starts every stream with a keyframe and adds
\* keyframes of its own; a picture it refuses gives no chunk.
NextChunk ==
  /\ caller = "open" /\ latest # 0 /\ latest # lastSeq
  /\ Taken
  /\ preview' = IF preview = NoPreview THEN preview ELSE latest
  /\ \E ok, ownKey \in BOOLEAN :
       LET key == force \/ ownKey \/ chunk = NoChunk
       IN /\ force' = Restored(ok)
          /\ chunk' = IF ok THEN [seq |-> latest, key |-> key] ELSE chunk
          /\ asked' = (asked /\ ~(ok /\ key))
  /\ UNCHANGED <<caller, thread, stop, shot, requests, openings>>

StopSet == TRUE

\* Drop stops the thread and joins it ...
DropBegins ==
  /\ caller = "open"
  /\ stop' = StopSet
  /\ caller' = "joining"
  /\ UNCHANGED <<thread, shot, latest, lastSeq, force, chunk, asked, preview, requests, openings>>

Joined == thread \in {"none", "gone"}

\* ... and only then takes the self-view off the screen.
DropEnds ==
  /\ caller = "joining" /\ Joined
  /\ caller' = "closed" /\ preview' = NoPreview
  /\ UNCHANGED <<thread, stop, shot, latest, lastSeq, force, chunk, asked, requests, openings>>

(***************************************************************************)
(* The capture thread                                                      *)
(***************************************************************************)

Poll ==
  /\ thread = "head"
  /\ thread' = IF stop THEN "gone" ELSE "frame()"
  /\ UNCHANGED <<caller, stop, shot, latest, lastSeq, force, chunk, asked, preview, requests, openings>>

\* The camera delivers a picture, or an error that costs a short sleep.
Captured ==
  /\ thread = "frame()" /\ thread' = "head"
  /\ \/ /\ shot < MaxPictures
        /\ shot' = shot + 1 /\ latest' = shot + 1
     \/ UNCHANGED <<shot, latest>>
  /\ UNCHANGED <<caller, stop, lastSeq, force, chunk, asked, preview, requests, openings>>

CaptureThread == Poll \/ Captured

Next == Open \/ RequestKeyframe \/ NextChunk \/ DropBegins \/ DropEnds \/ CaptureThread

Spec == Init /\ [][Next]_vars
\* The camera answers every frame() and drop goes on when its join returns.
FairSpec == Spec /\ WF_vars(CaptureThread) /\ WF_vars(DropEnds)

(***************************************************************************)
(* Properties                                                              *)
(***************************************************************************)

\* Every variable stays in its type.
TypeOK ==
  /\ caller \in {"closed", "open", "joining"}
  /\ thread \in {"none", "head", "frame()", "gone"}
  /\ stop \in BOOLEAN /\ force \in BOOLEAN /\ asked \in BOOLEAN
  /\ {shot, latest, lastSeq} \subseteq 0 .. MaxPictures
  /\ chunk \in [seq : 0 .. MaxPictures, key : BOOLEAN]
  /\ preview \in 0 .. NoPreview

\* What a caller is sent: never an older picture, nor the same one twice, and
\* after a keyframe request no chunk before the keyframe, also when encodes
\* fail in between.
ChunksServeTheCall ==
  [][(chunk' # chunk /\ caller' = caller)
       => /\ chunk'.seq > chunk.seq
          /\ asked => chunk'.key]_vars

\* The camera is closed when a drop has returned, so that the next open finds
\* it free: one capture thread at a time.
CameraIsReleased == caller = "closed" => thread \in {"none", "gone"}

\* A drop returns: the thread it joins sees the flag.
DropReturns == caller = "joining" ~> caller = "closed"
=============================================================================
