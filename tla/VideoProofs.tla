---------------------------- MODULE VideoProofs ----------------------------
(***************************************************************************)
(* Theorems of the video layer.  A behaviour of a host is one of the       *)
(* playback, of the call's encoder and of the phone's video (PartsRun),    *)
(* and each has an inductive invariant of its own.                         *)
(*                                                                         *)
(* Of the playback: the frames that wait are all different, of this        *)
(* generation and not yet out; those that are out are with the guest or    *)
(* scheduled, never both; and the count is of the buffer and of what is    *)
(* out since the decoder was opened (FramesInv).                           *)
(*                                                                         *)
(* The places are of three kinds.  Whoever asked for a slot, no picture on *)
(* it is newer than its place (PlaceInv); who has a slot to himself finds  *)
(* it where he asked for it (Seated); and until a decoder that had a slot  *)
(* is dropped, whoever asked for one has it still (Housed).                *)
(***************************************************************************)
EXTENDS HostVideo, FiniteSetTheorems, SequenceTheorems, WellFoundedInduction, TLAPS

\* A behaviour of the whole is one of each part.
LEMMA PartsRun == HostSpec => Spec /\ Call!Spec /\ Phone!Spec
<1>1. HostInit => Init /\ Call!Init /\ Phone!Init
  BY DEF HostInit
<1>2. [HostNext]_hostVars => [Next]_vars
  BY DEF HostNext, OfPlay, OfCall, OfPhone, hostVars
<1>3. [HostNext]_hostVars => [Call!Next]_(Call!vars)
  BY DEF HostNext, OfPlay, OfCall, OfPhone, hostVars, callVars, Call!vars
<1>4. [HostNext]_hostVars => [Phone!Next]_(Phone!vars)
  BY DEF HostNext, OfPlay, OfCall, OfPhone, hostVars, phoneVars, Phone!vars
<1> QED
  BY <1>1, <1>2, <1>3, <1>4, PTL DEF HostSpec, Spec, Call!Spec, Phone!Spec

-----------------------------------------------------------------------------
(* Playback: which decoder.                                                *)

\* A policy, and what the guest asks for.
Policies == [noHardware : BOOLEAN, requireHardware : BOOLEAN,
             pin : {"any", "gstreamer", "libvpx"}]

\* What is opened under a preference may be opened under the policy.
LEMMA ServedWithin ==
    ASSUME policy \in Policies, NEW accel, NEW b \in Serves(accel)
    PROVE  b \in Candidates(policy)
<1>1. b \in Candidates(Prefer(accel)) \/ b \in Candidates(policy)
  BY DEF Serves, OpenNamed
<1>2. Candidates(Prefer(accel)) \subseteq Candidates(policy)
  BY DEF Policies, Prefer, Candidates
<1> QED
  BY <1>1, <1>2

\* A step opens the decoder or leaves it as open as it was.
LEMMA DecoderKept ==
    ASSUME DOMAIN decoder = DOMAIN Closed, [Next]_vars
    PROVE  /\ UNCHANGED env /\ DOMAIN decoder' = DOMAIN Closed
           /\ \/ decoder'.open => decoder.open
              \/ \E accel \in Accels : Open(accel)
<1>1. CASE \E accel \in Accels : Open(accel)
  BY <1>1 DEF Open, Closed
<1>2. CASE StreamingThread \/ OpenSurface \/ DropSurface \/ Tick \/ UNCHANGED vars
  BY <1>2 DEF StreamingThread, OpenSurface, DropSurface, Tick, vars, env
<1>3. CASE Submit
  <2>1. UNCHANGED env
    BY <1>3 DEF Submit
  <2>2. \/ UNCHANGED decoder /\ decoder.open
        \/ \E came : decoder' = Counting(came) /\ decoder.open
    BY <1>3, Zenon DEF Submit, QueueDecoded
  <2> QED
    BY <2>1, <2>2 DEF Counting, Closed
<1>4. CASE Finish
  BY <1>4 DEF Finish, QueueDecoded, Counting, Closed
<1>5. CASE Take
  BY <1>5 DEF Take, Counting, Closed
<1>6. CASE Seek
  BY <1>6 DEF Seek, Reset, Closed
<1>7. CASE Close
  BY <1>7 DEF Close, Closed
<1>8. CASE Attach
  BY <1>8 DEF Attach, Closed
<1>9. CASE Present \/ Discard \/ Composite
  <2>1. UNCHANGED env
    BY <1>9 DEF Present, Discard, Composite
  <2>2. UNCHANGED decoder \/ \E released : Releasing(released)
    BY <1>9, Zenon DEF Present, Discard, Composite
  <2> QED
    BY <2>1, <2>2 DEF Releasing, Closed
<1> QED
  BY <1>1, <1>2, <1>3, <1>4, <1>5, <1>6, <1>7, <1>8, <1>9 DEF Next, Playback

\* What a step may do to the codec: go on with the lane it has, and no chunk it
\* had not; probe the stream; start from nothing.
GoesOnWithLane ==
    /\ codec'.lane = codec.lane /\ codec'.probed = codec.probed
    /\ codec'.held # <<>> => codec.held # <<>>
Probes == decoder.open /\ codec'.lane = Probed.lane /\ codec'.probed = TRUE
Starts == codec'.held = <<>> /\ codec'.probed = FALSE

LEMMA CodecKept ==
    ASSUME DOMAIN codec = DOMAIN Idle, [Next]_vars
    PROVE  /\ DOMAIN codec' = DOMAIN Idle
           /\ \/ GoesOnWithLane /\ ~\E accel \in Accels : Open(accel)
              \/ Probes
              \/ Starts /\ ~decoder'.open
              \/ \E accel \in Accels : codec'.lane \in Serves(accel) /\ Starts
<1>1. CASE \E accel \in Accels : Open(accel)
  BY <1>1 DEF Open, Idle, Starts
<1>2. CASE OpenSurface \/ DropSurface \/ Attach \/ Present \/ Discard \/ Composite \/ Tick
           \/ UNCHANGED vars
  <2>1. UNCHANGED codec
    BY <1>2, Zenon DEF OpenSurface, DropSurface, Attach, Present, Discard, Composite, Tick, vars
  <2> QED
    BY <2>1, <1>1 DEF GoesOnWithLane
<1>3. CASE StreamingThread
  <2>1. codec.held # <<>> /\ codec' = [codec EXCEPT !.held = Tail(codec.held),
                                        !.samples = Append(codec.samples, Head(codec.held))]
    BY <1>3, Constants DEF StreamingThread, ConstantsOK
  <2> QED
    BY <2>1, <1>1 DEF GoesOnWithLane, Idle
<1>4. CASE Submit
  <2>1. /\ DOMAIN Probed = DOMAIN Idle /\ Probed.probed = TRUE
    BY DEF Probed, Idle
  <2>2. ASSUME NEW f PROVE /\ DOMAIN Fed(Probed, f) = DOMAIN Idle
                           /\ Fed(Probed, f).lane = Probed.lane
                           /\ Fed(Probed, f).probed = TRUE
    BY <2>1 DEF Fed, Idle
  <2>3. \/ codec' = Probed
        \/ \E f : codec' = [Fed(Probed, f) EXCEPT !.samples = <<>>]
    BY <1>4, Zenon DEF Submit, QueueDecoded
  <2>4. decoder.open
    BY <1>4 DEF Submit
  <2> QED
    BY <2>1, <2>2, <2>3, <2>4 DEF Probes, Idle
<1>5. CASE Finish
  <2>1. \E drained \in {codec, [codec EXCEPT !.held = <<>>, !.samples = codec.samples \o codec.held]} :
           codec' = [[drained EXCEPT !.eos = TRUE] EXCEPT !.samples = <<>>]
    BY <1>5 DEF Finish, QueueDecoded
  <2> QED
    BY <2>1, <1>1 DEF GoesOnWithLane, Idle
<1>6. CASE Take \/ Seek
  BY <1>6, <1>1 DEF Take, Seek, GoesOnWithLane, Idle
<1>7. CASE Close
  BY <1>7 DEF Close, Idle, Closed, Starts
<1> QED
  BY <1>1, <1>2, <1>3, <1>4, <1>5, <1>6, <1>7 DEF Next, Playback

LaneInv ==
    /\ policy \in Policies /\ DOMAIN decoder = DOMAIN Closed /\ DOMAIN codec = DOMAIN Idle
    /\ decoder.open => codec.lane \in Candidates(policy) \/ Rebuilt
    /\ codec.held # <<>> => codec.probed
    /\ Frozen /\ codec.probed => "gstreamer-sw" \notin usable

\* A step opens a decoder within the policy, moves a deep stream off a lane that
\* would show nothing of it, or leaves the lane what it is.
LEMMA LaneStep == LaneInv /\ [Next]_vars => LaneInv'
<1> SUFFICES ASSUME LaneInv, [Next]_vars PROVE LaneInv'
  OBVIOUS
<1>1. /\ UNCHANGED <<policy, usable, tenBit>> /\ DOMAIN decoder' = DOMAIN Closed
      /\ DOMAIN codec' = DOMAIN Idle
  BY DecoderKept, CodecKept DEF LaneInv, env
<1>2. CASE GoesOnWithLane /\ ~\E accel \in Accels : Open(accel)
  <2>1. decoder'.open => decoder.open
    BY <1>2, DecoderKept DEF LaneInv
  <2> QED
    BY <1>1, <1>2, <2>1 DEF LaneInv, GoesOnWithLane, Rebuilt, Frozen, Candidates
<1>3. CASE Probes
  <2>1. CASE codec.probed \/ ~Frozen
    <3>1. codec'.lane = codec.lane /\ codec'.probed = TRUE
      BY <1>3, <2>1 DEF Probes, Probed, LaneInv, Idle
    <3> QED
      BY <1>1, <1>3, <2>1, <3>1 DEF LaneInv, Probes, Rebuilt, Frozen, Candidates
  <2>2. CASE ~codec.probed /\ Frozen
    <3>1. /\ codec'.probed = TRUE
          /\ codec'.lane = IF "gstreamer-sw" \in usable THEN "gstreamer-sw" ELSE codec.lane
      BY <1>3, <2>2 DEF Probes, Probed, LaneInv, Idle
    <3> QED
      BY <1>1, <1>3, <2>2, <3>1 DEF LaneInv, Probes, Rebuilt, Frozen, Candidates
  <2> QED
    BY <2>1, <2>2
<1>4. CASE Starts /\ ~decoder'.open
  BY <1>1, <1>4 DEF LaneInv, Starts
<1>5. CASE \E accel \in Accels : codec'.lane \in Serves(accel) /\ Starts
  <2>1. codec'.lane \in Candidates(policy)
    BY <1>5, ServedWithin DEF LaneInv
  <2> QED
    BY <1>1, <1>5, <2>1 DEF LaneInv, Starts, Candidates
<1> QED
  BY <1>2, <1>3, <1>4, <1>5, CodecKept DEF LaneInv

\* What decodes is within the operator's policy, whatever the guest prefers - but
\* for a deep stream that was moved to software - and a stream is left on a lane
\* that shows nothing of it only where there is no other.
THEOREM PolicyBinds == HostSpec => []AccelerationIsHonoured
<1>1. Init => LaneInv
  <2> SUFFICES ASSUME Init PROVE LaneInv
    OBVIOUS
  <2>1. policy \in Policies
    BY Constants DEF Init, Policies, ConstantsOK
  <2> QED
    BY <2>1 DEF Init, LaneInv, Closed, Idle, Frozen
<1>2. LaneInv => AccelerationIsHonoured
  BY DEF LaneInv, AccelerationIsHonoured
<1> QED
  BY <1>1, <1>2, LaneStep, PartsRun, PTL DEF Spec

-----------------------------------------------------------------------------
(* Playback: sequences of different things.                                *)

\* What is in a sequence, and that it is there once.
Items(s) == {s[i] : i \in DOMAIN s}
Apart(s) == \A i, j \in DOMAIN s : s[i] = s[j] => i = j

\* t is s with e before what was its k-th item.
Opened(s, k, e, t) ==
    \A j \in 1..(Len(s) + 1) : t[j] = IF j < k THEN s[j] ELSE IF j = k THEN e ELSE s[j - 1]

\* InsertAt puts one item in at its place.
LEMMA Inserted ==
    ASSUME NEW S, NEW s \in Seq(S), NEW k \in 1..(Len(s) + 1), NEW e \in S,
           NEW t, t = InsertAt(s, k, e)
    PROVE  t \in Seq(S) /\ Len(t) = Len(s) + 1 /\ Opened(s, k, e, t)
<1> DEFINE a == SubSeq(s, 1, k - 1)
           b == SubSeq(s, k, Len(s))
<1>0. Len(s) \in Nat /\ k \in Nat
  BY LenProperties
<1>1. a \in Seq(S) /\ Len(a) = k - 1 /\ \A j \in 1..(k - 1) : a[j] = s[j]
  BY <1>0
<1>2. b \in Seq(S) /\ Len(b) = Len(s) - k + 1 /\ \A j \in 1..(Len(s) - k + 1) : b[j] = s[k + j - 1]
  BY <1>0
<1>3. t = a \o <<e>> \o b
  BY DEF InsertAt
<1> HIDE DEF a, b
<1>4. /\ a \o <<e>> \in Seq(S) /\ Len(a \o <<e>>) = k
      /\ \A j \in 1..k : (a \o <<e>>)[j] = IF j < k THEN a[j] ELSE e
  BY <1>0, <1>1
<1> DEFINE c == a \o <<e>>
<1>5. t = c \o b
  BY <1>3
<1>6. c \in Seq(S) /\ Len(c) = k /\ \A j \in 1..k : c[j] = IF j < k THEN a[j] ELSE e
  BY <1>4
<1> HIDE DEF c
<1>7. t \in Seq(S) /\ Len(t) = Len(s) + 1
  <2>1. t \in Seq(S)
    BY <1>2, <1>5, <1>6
  <2>2. Len(t) = Len(c) + Len(b)
    BY <1>2, <1>5, <1>6
  <2> QED
    BY <1>0, <1>2, <1>6, <2>1, <2>2
<1>8. \A j \in 1..(Len(s) + 1) : t[j] = IF j <= k THEN c[j] ELSE b[j - k]
  BY <1>0, <1>2, <1>5, <1>6
<1>9. ASSUME NEW j \in 1..(Len(s) + 1)
      PROVE  t[j] = IF j < k THEN s[j] ELSE IF j = k THEN e ELSE s[j - 1]
  <2>1. CASE j < k
    BY <1>0, <1>1, <1>6, <1>8, <2>1
  <2>2. CASE j = k
    BY <1>0, <1>6, <1>8, <2>2
  <2>3. CASE j > k
    <3>1. j - k \in 1..(Len(s) - k + 1) /\ k + (j - k) - 1 = j - 1
      BY <1>0, <2>3
    <3>2. b[j - k] = s[j - 1]
      BY <1>2, <3>1
    <3> QED
      BY <1>0, <1>8, <2>3, <3>2
  <2> QED
    BY <2>1, <2>2, <2>3, <1>0
<1> QED
  BY <1>7, <1>9 DEF Opened

\* What is in a sequence that was opened.
LEMMA OpenedItems ==
    ASSUME NEW S, NEW s \in Seq(S), NEW t \in Seq(S), NEW k \in 1..(Len(s) + 1), NEW e,
           Len(t) = Len(s) + 1, Opened(s, k, e, t)
    PROVE  /\ Items(t) = Items(s) \union {e}
           /\ Apart(s) /\ e \notin Items(s) => Apart(t)
<1>1. /\ t \in Seq(S) /\ Len(t) = Len(s) + 1
      /\ \A j \in 1..(Len(s) + 1) : t[j] = IF j < k THEN s[j] ELSE IF j = k THEN e ELSE s[j - 1]
  BY DEF Opened
<1>2. Len(s) \in Nat /\ DOMAIN s = 1..Len(s) /\ DOMAIN t = 1..(Len(s) + 1) /\ k \in Nat
  BY <1>1, LenProperties
<1>3. Items(t) = Items(s) \union {e}
  <2>1. ASSUME NEW j \in DOMAIN t PROVE t[j] \in Items(s) \union {e}
    <3>1. CASE j < k
      BY <1>1, <1>2, <3>1 DEF Items
    <3>2. CASE j = k
      BY <1>1, <1>2, <3>2
    <3>3. CASE j > k
      <4>1. j - 1 \in DOMAIN s /\ t[j] = s[j - 1]
        BY <1>1, <1>2, <3>3
      <4> QED
        BY <4>1 DEF Items
    <3> QED
      BY <3>1, <3>2, <3>3, <1>2
  <2>2. ASSUME NEW i \in DOMAIN s PROVE s[i] \in Items(t)
    <3>1. CASE i < k
      <4>1. i \in DOMAIN t /\ t[i] = s[i]
        BY <1>1, <1>2, <3>1
      <4> QED
        BY <4>1 DEF Items
    <3>2. CASE i >= k
      <4>1. i + 1 \in DOMAIN t /\ t[i + 1] = s[i]
        <5>1. i + 1 \in 1..(Len(s) + 1) /\ ~(i + 1 < k) /\ i + 1 # k /\ (i + 1) - 1 = i
          BY <1>2, <3>2
        <5> QED
          BY <1>1, <1>2, <5>1
      <4> QED
        BY <4>1 DEF Items
    <3> QED
      BY <3>1, <3>2, <1>2
  <2>3. e \in Items(t)
    <3>1. k \in DOMAIN t /\ t[k] = e
      BY <1>1, <1>2
    <3> QED
      BY <3>1 DEF Items
  <2> QED
    BY <2>1, <2>2, <2>3 DEF Items
<1>4. ASSUME Apart(s), e \notin Items(s), NEW i \in DOMAIN t, NEW j \in DOMAIN t, t[i] = t[j], i < j
      PROVE  FALSE
  <2>1. \A n \in DOMAIN s : s[n] # e
    BY <1>4 DEF Items
  <2>2. i \in 1..(Len(s) + 1) /\ j \in 1..(Len(s) + 1)
    BY <1>2
  <2>3. CASE i = k
    <3>1. t[i] = e /\ t[j] = s[j - 1] /\ j - 1 \in DOMAIN s
      BY <1>1, <1>2, <1>4, <2>2, <2>3
    <3> QED
      BY <3>1, <2>1, <1>4
  <2>4. CASE j = k
    <3>1. t[j] = e /\ t[i] = s[i] /\ i \in DOMAIN s
      BY <1>1, <1>2, <1>4, <2>2, <2>4
    <3> QED
      BY <3>1, <2>1, <1>4
  <2>5. CASE i # k /\ j # k
    <3> DEFINE p == IF i < k THEN i ELSE i - 1
               q == IF j < k THEN j ELSE j - 1
    <3>1. p \in DOMAIN s /\ q \in DOMAIN s /\ p < q /\ p \in Int /\ q \in Int
      BY <1>2, <1>4, <2>2, <2>5
    <3>2. t[i] = s[p] /\ t[j] = s[q]
      BY <1>1, <1>2, <2>2, <2>5
    <3> HIDE DEF p, q
    <3>3. s[p] = s[q] /\ Apart(s)
      BY <1>4, <3>2
    <3>4. p = q
      BY <3>1, <3>3 DEF Apart
    <3> QED
      BY <3>1, <3>4
  <2> QED
    BY <2>3, <2>4, <2>5, <1>2
<1>5. ASSUME Apart(s), e \notin Items(s) PROVE Apart(t)
  <2> SUFFICES ASSUME NEW i \in DOMAIN t, NEW j \in DOMAIN t, t[i] = t[j] PROVE i = j
    BY DEF Apart
  <2>1. ~(i < j) /\ ~(j < i)
    BY <1>4, <1>5
  <2> QED
    BY <2>1, <1>2
<1> QED
  BY <1>1, <1>3, <1>5

\* A sequence with an item put in.
LEMMA InsertedItems ==
    ASSUME NEW S, NEW s \in Seq(S), NEW k \in 1..(Len(s) + 1), NEW e \in S,
           NEW t, t = InsertAt(s, k, e)
    PROVE  /\ t \in Seq(S) /\ Len(t) = Len(s) + 1 /\ Items(t) = Items(s) \union {e}
           /\ Apart(s) /\ e \notin Items(s) => Apart(t)
<1>1. t \in Seq(S) /\ Len(t) = Len(s) + 1 /\ Opened(s, k, e, t)
  BY Inserted
<1> QED
  BY <1>1, OpenedItems

\* An item more at the end.
LEMMA AppendedItems ==
    ASSUME NEW S, NEW s \in Seq(S), NEW e \in S
    PROVE  /\ Append(s, e) \in Seq(S) /\ Items(Append(s, e)) = Items(s) \union {e}
           /\ Apart(s) /\ e \notin Items(s) => Apart(Append(s, e))
<1>1. /\ Append(s, e) \in Seq(S) /\ Len(s) \in Nat /\ DOMAIN s = 1..Len(s)
      /\ DOMAIN Append(s, e) = 1..(Len(s) + 1)
      /\ \A i \in 1..(Len(s) + 1) : Append(s, e)[i] = IF i <= Len(s) THEN s[i] ELSE e
  BY LenProperties
<1> DEFINE t == Append(s, e)
<1> HIDE DEF t
<1>2. /\ DOMAIN t = 1..(Len(s) + 1)
      /\ \A i \in 1..(Len(s) + 1) : t[i] = IF i <= Len(s) THEN s[i] ELSE e
  BY <1>1 DEF t
<1>3. Items(t) = Items(s) \union {e}
  <2>1. \A i \in DOMAIN t : t[i] \in Items(s) \union {e}
    BY <1>1, <1>2 DEF Items
  <2>2. \A i \in DOMAIN s : i \in DOMAIN t /\ t[i] = s[i]
    BY <1>1, <1>2
  <2>3. Len(s) + 1 \in DOMAIN t /\ t[Len(s) + 1] = e
    BY <1>1, <1>2
  <2> QED
    BY <2>1, <2>2, <2>3 DEF Items
<1>4. Apart(s) /\ e \notin Items(s) => Apart(t)
  BY <1>1, <1>2 DEF Apart, Items
<1> QED
  BY <1>1, <1>3, <1>4 DEF t

\* The first item and those behind it.
LEMMA TailItems ==
    ASSUME NEW S, NEW s \in Seq(S), s # <<>>
    PROVE  /\ Tail(s) \in Seq(S) /\ Len(Tail(s)) = Len(s) - 1
           /\ Head(s) \in Items(s) /\ Items(s) = Items(Tail(s)) \union {Head(s)}
           /\ Apart(s) => Apart(Tail(s)) /\ Head(s) \notin Items(Tail(s))
<1>1. /\ Tail(s) \in Seq(S) /\ Len(s) \in Nat \ {0} /\ DOMAIN s = 1..Len(s)
      /\ Len(Tail(s)) = Len(s) - 1 /\ DOMAIN Tail(s) = 1..(Len(s) - 1)
      /\ \A i \in 1..(Len(s) - 1) : Tail(s)[i] = s[i + 1]
      /\ Head(s) = s[1]
  BY LenProperties, EmptySeq, HeadTailProperties
<1> DEFINE t == Tail(s)
<1> HIDE DEF t
<1>2. /\ DOMAIN t = 1..(Len(s) - 1) /\ \A i \in 1..(Len(s) - 1) : t[i] = s[i + 1]
  BY <1>1 DEF t
<1>3. Head(s) \in Items(s)
  BY <1>1 DEF Items
<1>4. Items(s) = Items(t) \union {Head(s)}
  <2>1. ASSUME NEW i \in DOMAIN t PROVE t[i] \in Items(s)
    <3>1. i + 1 \in DOMAIN s /\ t[i] = s[i + 1]
      BY <1>1, <1>2
    <3> QED
      BY <3>1 DEF Items
  <2>2. ASSUME NEW i \in DOMAIN s PROVE s[i] \in Items(t) \union {Head(s)}
    <3>1. CASE i = 1
      BY <1>1, <3>1
    <3>2. CASE i # 1
      <4>1. i - 1 \in DOMAIN t /\ t[i - 1] = s[i]
        <5>1. i - 1 \in 1..(Len(s) - 1) /\ (i - 1) + 1 = i
          BY <1>1, <3>2
        <5> QED
          BY <1>2, <5>1
      <4> QED
        BY <4>1 DEF Items
    <3> QED
      BY <3>1, <3>2
  <2> QED
    BY <1>3, <2>1, <2>2 DEF Items
<1>5. ASSUME Apart(s) PROVE Apart(t) /\ Head(s) \notin Items(t)
  <2>1. \A i \in DOMAIN t : i + 1 \in DOMAIN s /\ t[i] = s[i + 1] /\ i \in Int /\ i + 1 # 1
    BY <1>1, <1>2
  <2>2. Apart(t)
    <3> SUFFICES ASSUME NEW i \in DOMAIN t, NEW j \in DOMAIN t, t[i] = t[j] PROVE i = j
      BY DEF Apart
    <3>1. i + 1 = j + 1
      BY <1>5, <2>1 DEF Apart
    <3> QED
      BY <3>1, <2>1
  <2>3. 1 \in DOMAIN s /\ Head(s) = s[1]
    BY <1>1
  <2>4. Head(s) \notin Items(t)
    BY <1>5, <2>1, <2>3 DEF Apart, Items
  <2> QED
    BY <2>2, <2>4
<1> QED
  BY <1>1, <1>3, <1>4, <1>5 DEF t

\* Two sequences, one behind the other.
LEMMA JoinedItems ==
    ASSUME NEW S, NEW s \in Seq(S), NEW t \in Seq(S)
    PROVE  /\ s \o t \in Seq(S) /\ Items(s \o t) = Items(s) \union Items(t)
           /\ Apart(s) /\ Apart(t) /\ Items(s) \intersect Items(t) = {} => Apart(s \o t)
<1> DEFINE u == s \o t
<1>1. /\ u \in Seq(S) /\ Len(s) \in Nat /\ Len(t) \in Nat /\ DOMAIN s = 1..Len(s)
      /\ DOMAIN t = 1..Len(t) /\ DOMAIN u = 1..(Len(s) + Len(t))
      /\ \A i \in 1..(Len(s) + Len(t)) : u[i] = IF i <= Len(s) THEN s[i] ELSE t[i - Len(s)]
  BY LenProperties
<1> HIDE DEF u
<1>2. \A i \in DOMAIN s : i \in DOMAIN u /\ u[i] = s[i]
  BY <1>1
<1>3. ASSUME NEW i \in DOMAIN t PROVE i + Len(s) \in DOMAIN u /\ u[i + Len(s)] = t[i]
  <2>1. i + Len(s) \in 1..(Len(s) + Len(t)) /\ ~(i + Len(s) <= Len(s)) /\ (i + Len(s)) - Len(s) = i
    BY <1>1
  <2> QED
    BY <1>1, <2>1
<1>4. ASSUME NEW i \in DOMAIN u
      PROVE  \/ i \in DOMAIN s /\ u[i] = s[i]
             \/ i - Len(s) \in DOMAIN t /\ u[i] = t[i - Len(s)] /\ i > Len(s)
  BY <1>1
<1>5. Items(u) = Items(s) \union Items(t)
  BY <1>2, <1>3, <1>4 DEF Items
<1>6. ASSUME Apart(s), Apart(t), Items(s) \intersect Items(t) = {} PROVE Apart(u)
  <2> SUFFICES ASSUME NEW i \in DOMAIN u, NEW j \in DOMAIN u, u[i] = u[j] PROVE i = j
    BY DEF Apart
  <2>0. \A x \in DOMAIN s, y \in DOMAIN t : s[x] # t[y]
    BY <1>6 DEF Items
  <2>1. CASE i \in DOMAIN s /\ u[i] = s[i]
    <3>1. j \in DOMAIN s /\ u[j] = s[j]
      BY <1>4, <2>0, <2>1
    <3> QED
      BY <1>6, <2>1, <3>1 DEF Apart
  <2>2. CASE i - Len(s) \in DOMAIN t /\ u[i] = t[i - Len(s)]
    <3>1. j - Len(s) \in DOMAIN t /\ u[j] = t[j - Len(s)]
      BY <1>4, <2>0, <2>2
    <3>2. i - Len(s) = j - Len(s)
      BY <1>6, <2>2, <3>1 DEF Apart
    <3> QED
      BY <3>2, <1>1
  <2> QED
    BY <1>4, <2>1, <2>2
<1> QED
  BY <1>1, <1>5, <1>6 DEF u

\* What is left of a sequence behind its n-th item.
LEMMA CutEnd ==
    ASSUME NEW S, NEW s \in Seq(S), NEW n \in 0..Len(s)
    PROVE  LET rest == SubSeq(s, n + 1, Len(s))
           IN  /\ rest \in Seq(S) /\ Len(rest) = Len(s) - n /\ DOMAIN rest = 1..(Len(s) - n)
               /\ \A i \in 1..(Len(s) - n) : rest[i] = s[n + i]
<1> DEFINE rest == SubSeq(s, n + 1, Len(s))
<1>1. Len(s) \in Nat /\ DOMAIN s = 1..Len(s) /\ n \in Nat
  BY LenProperties
<1>2. \A i \in (n + 1)..Len(s) : s[i] \in S
  BY <1>1
<1>3. /\ rest \in Seq(S) /\ Len(rest) = IF n + 1 <= Len(s) THEN Len(s) - (n + 1) + 1 ELSE 0
      /\ \A i \in 1..(Len(s) - (n + 1) + 1) : rest[i] = s[(n + 1) + i - 1]
  <2>1. n + 1 \in Int /\ Len(s) \in Int
    BY <1>1
  <2> HIDE DEF rest
  <2> QED
    BY <1>2, <2>1, SubSeqProperties DEF rest
<1> HIDE DEF rest
<1>4. \A i \in 1..(Len(s) - n) : (n + 1) + i - 1 = n + i /\ i \in 1..(Len(s) - (n + 1) + 1)
  BY <1>1
<1>5. Len(rest) = Len(s) - n
  <2> SUFFICES ASSUME NEW l \in Nat, l = Len(s) PROVE Len(rest) = l - n
    BY <1>1
  <2>1. n \in Nat /\ n <= l /\ Len(rest) = IF n + 1 <= l THEN l - (n + 1) + 1 ELSE 0
    BY <1>1, <1>3
  <2> QED
    BY <2>1
<1>6. DOMAIN rest = 1..(Len(s) - n)
  BY <1>3, <1>5
<1> QED
  BY <1>3, <1>4, <1>5, <1>6 DEF rest

\* What is cut off the front of a sequence of different items is not in the rest.
LEMMA CutItems ==
    ASSUME NEW S, NEW s \in Seq(S), NEW n \in 0..Len(s), Apart(s)
    PROVE  LET front == SubSeq(s, 1, n)
               rest == SubSeq(s, n + 1, Len(s))
           IN  /\ front \in Seq(S) /\ rest \in Seq(S) /\ Apart(rest)
               /\ Len(front) = n /\ Len(rest) = Len(s) - n
               /\ Items(rest) = Items(s) \ Items(front) /\ Items(front) \subseteq Items(s)
<1> DEFINE front == SubSeq(s, 1, n)
           rest == SubSeq(s, n + 1, Len(s))
<1>1. Len(s) \in Nat /\ DOMAIN s = 1..Len(s) /\ n \in Nat
  BY LenProperties
<1>2. front \in Seq(S) /\ Len(front) = n /\ DOMAIN front = 1..n /\ \A i \in 1..n : front[i] = s[i]
  BY <1>1
<1>3. /\ rest \in Seq(S) /\ Len(rest) = Len(s) - n /\ DOMAIN rest = 1..(Len(s) - n)
      /\ \A i \in 1..(Len(s) - n) : rest[i] = s[n + i]
  BY CutEnd
<1> HIDE DEF front, rest
<1>4. \A i \in DOMAIN rest : n + i \in DOMAIN s /\ rest[i] = s[n + i] /\ n + i > n /\ i \in Int
  BY <1>1, <1>3
<1>5. \A i \in DOMAIN s : i > n => i - n \in DOMAIN rest /\ rest[i - n] = s[i]
  <2> SUFFICES ASSUME NEW i \in DOMAIN s, i > n PROVE i - n \in DOMAIN rest /\ rest[i - n] = s[i]
    OBVIOUS
  <2>1. i - n \in 1..(Len(s) - n) /\ n + (i - n) = i
    BY <1>1
  <2> QED
    BY <2>1, <1>3
<1>6. \A i \in DOMAIN front : i \in DOMAIN s /\ front[i] = s[i] /\ i <= n
  BY <1>1, <1>2
<1>7. \A i \in DOMAIN s : i <= n => i \in DOMAIN front
  BY <1>1, <1>2
<1>8. Apart(rest)
  <2> SUFFICES ASSUME NEW i \in DOMAIN rest, NEW j \in DOMAIN rest, rest[i] = rest[j] PROVE i = j
    BY DEF Apart
  <2>1. n + i = n + j
    BY <1>4 DEF Apart
  <2> QED
    BY <1>1, <1>4, <2>1
<1>9. Items(front) \subseteq Items(s)
  BY <1>6 DEF Items
<1>10. Items(rest) \subseteq Items(s) \ Items(front)
  <2> SUFFICES ASSUME NEW i \in DOMAIN rest, NEW j \in DOMAIN front, rest[i] = front[j] PROVE FALSE
    BY <1>4 DEF Items
  <2>1. n + i = j
    BY <1>4, <1>6 DEF Apart
  <2> QED
    BY <1>1, <1>4, <1>6, <2>1
<1>11. Items(s) \ Items(front) \subseteq Items(rest)
  <2> SUFFICES ASSUME NEW i \in DOMAIN s, s[i] \notin Items(front) PROVE s[i] \in Items(rest)
    BY DEF Items
  <2>1. i > n
    BY <1>1, <1>6, <1>7 DEF Items
  <2> QED
    BY <2>1, <1>5 DEF Items
<1> QED
  BY <1>2, <1>3, <1>8, <1>9, <1>10, <1>11 DEF front, rest

-----------------------------------------------------------------------------
(* What the reorder buffer takes in.                                       *)

Decoded == [gen : Nat, pts : Nat]

\* A set of naturals that holds 0 and every successor is all of them.
LEMMA SetInduction ==
    ASSUME NEW T, T \subseteq Nat, 0 \in T, \A n \in T : n + 1 \in T
    PROVE  T = Nat
<1> DEFINE R == OpToRel(<, Nat)
<1>1. SUFFICES ASSUME T # Nat PROVE FALSE
  OBVIOUS
<1>2. IsWellFoundedOn(R, Nat)
  BY NatLessThanWellFounded
<1>3. \A x, y \in Nat : x < y => <<x, y>> \in R
  BY DEF OpToRel
<1> HIDE DEF R
<1>4. PICK n \in Nat \ T : \A y \in Nat \ T : <<y, n>> \notin R
  BY <1>1, <1>2, WFMin
<1>5. n # 0 /\ n - 1 \in Nat /\ n - 1 < n /\ n \in Nat /\ (n - 1) + 1 = n
  OBVIOUS
<1>6. <<n - 1, n>> \in R
  BY <1>3, <1>5
<1>7. n - 1 \in T
  BY <1>4, <1>5, <1>6, Zenon
<1> QED
  BY <1>5, <1>7

\* How many elements a sequence has that satisfy a test: none to all.
LEMMA PointInside ==
    ASSUME NEW S, NEW s \in Seq(S), NEW which \in SUBSET DOMAIN s
    PROVE  PartitionPoint(which) \in 0..Len(s) /\ PartitionPoint(which) + 1 \in 1..(Len(s) + 1)
<1>1. Len(s) \in Nat /\ DOMAIN s = 1..Len(s)
  BY LenProperties
<1>2. IsFiniteSet(1..Len(s)) /\ Cardinality(1..Len(s)) = Len(s)
  <2>1. 1 \in Int /\ Len(s) \in Int
    BY <1>1
  <2>2. IsFiniteSet(1..Len(s)) /\ Cardinality(1..Len(s)) = IF 1 > Len(s) THEN 0 ELSE Len(s) - 1 + 1
    BY <2>1, FS_Interval
  <2> QED
    BY <1>1, <2>2
<1>3. IsFiniteSet(which) /\ Cardinality(which) <= Len(s)
  BY <1>1, <1>2, FS_Subset
<1>4. Cardinality(which) \in Nat
  BY <1>3, FS_CardinalityType
<1> QED
  BY <1>1, <1>3, <1>4 DEF PartitionPoint

\* A frame is put in at its place.
LEMMA PutInOrder ==
    ASSUME NEW q \in Seq(Decoded), NEW f \in Decoded
    PROVE  /\ InOrder(f, q) \in Seq(Decoded) /\ Len(InOrder(f, q)) = Len(q) + 1
           /\ Items(InOrder(f, q)) = Items(q) \union {f}
           /\ Apart(q) /\ f \notin Items(q) => Apart(InOrder(f, q))
<1> DEFINE k == PartitionPoint({i \in DOMAIN q : q[i].pts <= f.pts}) + 1
<1>1. k \in 1..(Len(q) + 1)
  BY PointInside
<1>2. InOrder(f, q) = InsertAt(q, k, f)
  BY DEF InOrder
<1> HIDE DEF k
<1> QED
  BY <1>1, <1>2, InsertedItems

\* The n-th value of the buffer while the samples go in.
TakenIn(queue, samples, g, n) ==
    IF n = 0 THEN queue
    ELSE IF samples[n].pts \in Unreadable THEN g[n - 1]
    ELSE InOrder(samples[n], g[n - 1])

Solved(queue, samples, g, m) == g = [n \in 0..m |-> TakenIn(queue, samples, g, n)]

\* The recursion over the samples has a solution, which Queued takes.
LEMMA QueuedSolved ==
    ASSUME NEW queue, NEW samples, Len(samples) \in Nat
    PROVE  \E g : /\ Solved(queue, samples, g, Len(samples))
                  /\ Queued(queue, samples) = g[Len(samples)]
<1> DEFINE T == {m \in Nat : \E g : Solved(queue, samples, g, m)}
<1>1. 0 \in T
  <2> DEFINE g == [n \in 0..0 |-> queue]
  <2>1. Solved(queue, samples, g, 0)
    BY DEF TakenIn, Solved
  <2> QED
    BY <2>1
<1>2. ASSUME NEW m \in T PROVE m + 1 \in T
  <2>1. PICK g : Solved(queue, samples, g, m)
    OBVIOUS
  <2>2. m \in Nat
    OBVIOUS
  <2> DEFINE h == [n \in 0..(m + 1) |-> IF n <= m THEN g[n] ELSE TakenIn(queue, samples, g, m + 1)]
  <2>3. \A n \in 0..m : h[n] = g[n] /\ g[n] = TakenIn(queue, samples, g, n)
    <3>1. \A n \in 0..m : h[n] = g[n]
      BY <2>2
    <3>2. g = [n \in 0..m |-> TakenIn(queue, samples, g, n)]
      BY <2>1 DEF Solved
    <3> HIDE DEF h
    <3>3. \A n \in 0..m : g[n] = TakenIn(queue, samples, g, n)
      BY <3>2
    <3> QED
      BY <3>1, <3>3
  <2>4. h[m + 1] = TakenIn(queue, samples, g, m + 1)
    BY <2>2
  <2>5. ASSUME NEW n \in 0..(m + 1) PROVE h[n] = TakenIn(queue, samples, h, n)
    <3>1. n # 0 => n - 1 \in 0..m
      BY <2>2
    <3>2. h[n] = TakenIn(queue, samples, g, n)
      <4>1. CASE n \in 0..m
        BY <2>3, <4>1
      <4>2. CASE n = m + 1
        BY <2>4, <4>2
      <4> QED
        BY <2>2, <4>1, <4>2
    <3>3. n # 0 => h[n - 1] = g[n - 1]
      BY <2>3, <3>1
    <3> HIDE DEF h
    <3> QED
      BY <3>2, <3>3 DEF TakenIn
  <2>6. Solved(queue, samples, h, m + 1)
    <3>1. h = [n \in 0..(m + 1) |-> h[n]]
      OBVIOUS
    <3> HIDE DEF h
    <3> QED
      BY <2>5, <3>1 DEF Solved
  <2>7. \E k : Solved(queue, samples, k, m + 1)
    BY <2>6
  <2> QED
    BY <2>2, <2>7
<1>3. T = Nat
  <2>1. T \subseteq Nat
    OBVIOUS
  <2> HIDE DEF T
  <2> QED
    BY <1>1, <1>2, <2>1, SetInduction
<1>4. \E g : Solved(queue, samples, g, Len(samples))
  BY <1>3
<1> DEFINE q == CHOOSE g : Solved(queue, samples, g, Len(samples))
<1>5. Queued(queue, samples) = q[Len(samples)]
  BY DEF Queued, Solved, TakenIn
<1>6. Solved(queue, samples, q, Len(samples))
  BY <1>4
<1> QED
  BY <1>5, <1>6

\* The buffer gains what can be used of the samples, nothing twice.
LEMMA QueuedItems ==
    ASSUME NEW queue \in Seq(Decoded), NEW samples \in Seq(Decoded),
           Apart(queue), Apart(samples), Items(queue) \intersect Items(samples) = {}
    PROVE  LET q == Queued(queue, samples)
           IN  /\ q \in Seq(Decoded) /\ Apart(q)
               /\ Items(q) \subseteq Items(queue) \union Items(samples)
               /\ Len(q) - Len(queue) \in 0..Len(samples)
<1>1. Len(samples) \in Nat /\ DOMAIN samples = 1..Len(samples) /\ Len(queue) \in Nat
  BY LenProperties
<1>2. PICK g : Solved(queue, samples, g, Len(samples)) /\ Queued(queue, samples) = g[Len(samples)]
  BY <1>1, QueuedSolved
<1>3. /\ g[0] = queue
      /\ \A n \in 1..Len(samples) :
           g[n] = IF samples[n].pts \in Unreadable THEN g[n - 1] ELSE InOrder(samples[n], g[n - 1])
  <2>1. g = [n \in 0..Len(samples) |-> TakenIn(queue, samples, g, n)]
    BY <1>2 DEF Solved
  <2>2. \A n \in 0..Len(samples) : g[n] = TakenIn(queue, samples, g, n)
    BY <2>1
  <2> QED
    BY <1>1, <2>2 DEF TakenIn
<1> DEFINE Before(n) == {samples[i] : i \in 1..n}
           P(n) == /\ g[n] \in Seq(Decoded) /\ Apart(g[n])
                   /\ Items(g[n]) \subseteq Items(queue) \union Before(n)
                   /\ Len(g[n]) - Len(queue) \in 0..n
           T == {n \in Nat : n <= Len(samples) => P(n)}
<1>4. 0 \in T
  BY <1>1, <1>3
<1>5. ASSUME NEW n \in T PROVE n + 1 \in T
  <2> SUFFICES ASSUME n + 1 <= Len(samples) PROVE P(n + 1)
    OBVIOUS
  <2>1. n \in Nat /\ P(n) /\ n + 1 \in 1..Len(samples) /\ (n + 1) - 1 = n
    BY <1>1
  <2>2. /\ g[n] \in Seq(Decoded) /\ Apart(g[n])
        /\ Items(g[n]) \subseteq Items(queue) \union Before(n)
        /\ Len(g[n]) - Len(queue) \in 0..n
    BY <2>1
  <2>3. Before(n + 1) = Before(n) \union {samples[n + 1]}
    <3>1. 1..(n + 1) = (1..n) \union {n + 1}
      BY <2>1
    <3> QED
      BY <3>1
  <2>4. samples[n + 1] \in Decoded /\ samples[n + 1] \notin Items(queue)
    <3>1. n + 1 \in DOMAIN samples
      BY <1>1, <2>1
    <3>2. samples[n + 1] \in Items(samples)
      BY <3>1 DEF Items
    <3>3. samples[n + 1] \in Decoded
      BY <1>1, <3>1, ElementOfSeq
    <3> QED
      BY <3>2, <3>3
  <2>5. samples[n + 1] \notin Before(n)
    <3> SUFFICES ASSUME NEW i \in 1..n, samples[i] = samples[n + 1] PROVE FALSE
      OBVIOUS
    <3>1. i \in DOMAIN samples /\ n + 1 \in DOMAIN samples /\ i # n + 1
      BY <1>1, <2>1
    <3> QED
      BY <3>1 DEF Apart
  <2>6. Len(g[n]) \in Nat
    BY <2>2, LenProperties
  <2> HIDE DEF Before
  <2>7. CASE samples[n + 1].pts \in Unreadable
    <3>1. g[n + 1] = g[n]
      BY <1>3, <2>1, <2>7
    <3>2. Len(g[n]) - Len(queue) \in 0..(n + 1)
      BY <1>1, <2>1, <2>2, <2>6
    <3> QED
      BY <2>2, <2>3, <3>1, <3>2
  <2>8. CASE samples[n + 1].pts \notin Unreadable
    <3>1. g[n + 1] = InOrder(samples[n + 1], g[n])
      BY <1>3, <2>1, <2>8
    <3>2. samples[n + 1] \notin Items(g[n])
      BY <2>2, <2>4, <2>5
    <3>3. /\ g[n + 1] \in Seq(Decoded) /\ Len(g[n + 1]) = Len(g[n]) + 1
          /\ Items(g[n + 1]) = Items(g[n]) \union {samples[n + 1]} /\ Apart(g[n + 1])
      <4> DEFINE q == g[n]
                 f == samples[n + 1]
      <4>1. q \in Seq(Decoded) /\ f \in Decoded /\ Apart(q) /\ f \notin Items(q)
        BY <2>2, <2>4, <3>2
      <4>2. g[n + 1] = InOrder(f, q)
        BY <3>1
      <4> HIDE DEF q, f
      <4>3. /\ InOrder(f, q) \in Seq(Decoded) /\ Len(InOrder(f, q)) = Len(q) + 1
            /\ Items(InOrder(f, q)) = Items(q) \union {f} /\ Apart(InOrder(f, q))
        BY <4>1, PutInOrder
      <4> QED
        BY <4>2, <4>3 DEF q, f
    <3>4. Len(g[n + 1]) - Len(queue) \in 0..(n + 1)
      BY <1>1, <2>1, <2>2, <2>6, <3>3
    <3> QED
      BY <2>2, <2>3, <3>3, <3>4
  <2> QED
    BY <2>7, <2>8
<1>6. T = Nat
  <2>1. T \subseteq Nat
    OBVIOUS
  <2> HIDE DEF T
  <2> QED
    BY <1>4, <1>5, <2>1, SetInduction
<1>7. P(Len(samples))
  BY <1>1, <1>6
<1>8. Before(Len(samples)) = Items(samples)
  BY <1>1 DEF Items
<1> QED
  BY <1>2, <1>7, <1>8
-----------------------------------------------------------------------------
(* Where the frames are.                                                   *)

\* What waits to be handed over - in the codec, behind it, in the reorder buffer -
\* is all different, of this generation, from chunks that were fed, and not out.
Distinct(held, samples, queue, out, gen, fed) ==
    /\ held \in Seq(Decoded) /\ samples \in Seq(Decoded) /\ queue \in Seq(Decoded)
    /\ Apart(held) /\ Apart(samples) /\ Apart(queue)
    /\ Items(held) \intersect Items(samples) = {}
    /\ Items(held) \intersect Items(queue) = {}
    /\ Items(samples) \intersect Items(queue) = {}
    /\ \A f \in Items(held) \union Items(samples) \union Items(queue) :
         f \notin out /\ f.gen = gen /\ f.pts \in fed

\* The frames that were handed over: the guest holds them or has scheduled them.
Shown(s) == [i \in DOMAIN s |-> s[i].frame]
OutOf(held, s) == held \union Items(Shown(s))
Out == OutOf(player.frames, scheduled)
Pushed == {Stream[i] : i \in 1..(player.next - 1)}
Count(out, since) == Cardinality({f \in out : f.gen >= since})

Presentations == [due : Nat, surface : Nat, frame : Decoded]
Players == [next : Nat \ {0}, finished : BOOLEAN, frames : SUBSET Decoded, pos : Nat, gen : Nat]

FramesTyped ==
    /\ DOMAIN decoder = DOMAIN Closed /\ decoder.open \in BOOLEAN
    /\ decoder.cap \in Nat /\ decoder.inFlight \in Int /\ decoder.since \in 0..player.gen
    /\ DOMAIN codec = DOMAIN Idle
    /\ player \in Players /\ IsFiniteSet(player.frames)
    /\ scheduled \in Seq(Presentations) /\ handle \in Nat /\ nextId \in Nat

\* A frame that is out is of this generation only while its decoder is open.
FramesOut ==
    /\ Apart(Shown(scheduled)) /\ player.frames \intersect Items(Shown(scheduled)) = {}
    /\ \A f \in Out :
         f.gen <= player.gen /\ (f.gen = player.gen => decoder.open /\ f.pts \in Pushed)

FramesComing ==
    /\ Distinct(codec.held, codec.samples, pending, Out, player.gen, Pushed)
    /\ ~decoder.open => codec.held = <<>> /\ codec.samples = <<>> /\ pending = <<>>

\* The books: what is in the buffer and what is out.  The lane that decodes inside
\* the call keeps nothing back.
Booked ==
    decoder.open =>
        /\ decoder.inFlight = Len(pending) + Count(Out, decoder.since)
        /\ decoder.cap = 0 => decoder.inFlight = 0
        /\ codec.lane = "libvpx" =>
               /\ codec.held = <<>> /\ codec.samples = <<>>
               /\ decoder.cap # 0 => decoder.inFlight <= decoder.cap

FramesInv == FramesTyped /\ FramesOut /\ FramesComing /\ Booked

\* Nothing waits.
LEMMA NothingComes ==
    ASSUME NEW out, NEW gen, NEW fed
    PROVE  Distinct(<<>>, <<>>, <<>>, out, gen, fed)
<1>1. <<>> \in Seq(Decoded) /\ Items(<<>>) = {} /\ Apart(<<>>)
  BY EmptySeq DEF Items, Apart
<1> QED
  BY <1>1 DEF Distinct

\* The samples go into the reorder buffer.
LEMMA TakenInDistinct ==
    ASSUME NEW h, NEW s, NEW q, NEW out, NEW gen, NEW fed, Distinct(h, s, q, out, gen, fed)
    PROVE  /\ Distinct(h, <<>>, Queued(q, s), out, gen, fed)
           /\ Len(Queued(q, s)) - Len(q) \in 0..Len(s)
<1>1. <<>> \in Seq(Decoded) /\ Items(<<>>) = {} /\ Apart(<<>>)
  BY EmptySeq DEF Items, Apart
<1>2. /\ Queued(q, s) \in Seq(Decoded) /\ Apart(Queued(q, s))
      /\ Items(Queued(q, s)) \subseteq Items(q) \union Items(s)
      /\ Len(Queued(q, s)) - Len(q) \in 0..Len(s)
  <2>1. /\ q \in Seq(Decoded) /\ s \in Seq(Decoded) /\ Apart(q) /\ Apart(s)
        /\ Items(q) \intersect Items(s) = {}
    BY DEF Distinct
  <2> QED
    BY <2>1, QueuedItems
<1> DEFINE t == Queued(q, s)
<1> HIDE DEF t
<1>3. t \in Seq(Decoded) /\ Apart(t) /\ Items(t) \subseteq Items(q) \union Items(s)
  BY <1>2 DEF t
<1>4. Distinct(h, <<>>, t, out, gen, fed)
  BY <1>1, <1>3 DEF Distinct
<1> QED
  BY <1>2, <1>4 DEF t

\* A chunk is fed: the codec keeps its frame, has it ready, or makes none of it.
LEMMA PushedDistinct ==
    ASSUME NEW h, NEW s, NEW q, NEW out, NEW gen, NEW fed, Distinct(h, s, q, out, gen, fed),
           NEW e \in Decoded, e.gen = gen, e.pts \notin fed,
           \A f \in out : f.gen = gen => f.pts \in fed
    PROVE  LET more == fed \union {e.pts}
           IN  /\ Distinct(Append(h, e), s, q, out, gen, more)
               /\ Distinct(h, Append(s, e), q, out, gen, more)
               /\ Distinct(h, s, q, out, gen, more)
<1> DEFINE more == fed \union {e.pts}
<1>1. e \notin out /\ e \notin Items(h) \union Items(s) \union Items(q)
  BY DEF Distinct
<1>2. h \in Seq(Decoded) /\ s \in Seq(Decoded)
  BY DEF Distinct
<1>3. /\ Append(h, e) \in Seq(Decoded) /\ Items(Append(h, e)) = Items(h) \union {e}
      /\ Append(s, e) \in Seq(Decoded) /\ Items(Append(s, e)) = Items(s) \union {e}
      /\ Apart(Append(h, e)) /\ Apart(Append(s, e))
  <2>1. Apart(h) /\ Apart(s)
    BY DEF Distinct
  <2> QED
    BY <1>1, <1>2, <2>1, AppendedItems
<1> DEFINE h2 == Append(h, e)
           s2 == Append(s, e)
<1>4. /\ h2 \in Seq(Decoded) /\ Items(h2) = Items(h) \union {e} /\ Apart(h2)
      /\ s2 \in Seq(Decoded) /\ Items(s2) = Items(s) \union {e} /\ Apart(s2)
  BY <1>3
<1>5. e.gen = gen /\ e.pts \in more /\ fed \subseteq more
  OBVIOUS
<1> HIDE DEF h2, s2, more
<1>6. Distinct(h2, s, q, out, gen, more)
  BY <1>1, <1>4, <1>5 DEF Distinct
<1>7. Distinct(h, s2, q, out, gen, more)
  BY <1>1, <1>4, <1>5 DEF Distinct
<1>8. Distinct(h, s, q, out, gen, more)
  BY <1>5 DEF Distinct
<1> QED
  BY <1>6, <1>7, <1>8 DEF h2, s2, more

\* The pipeline drains.
LEMMA DrainedDistinct ==
    ASSUME NEW h, NEW s, NEW q, NEW out, NEW gen, NEW fed, Distinct(h, s, q, out, gen, fed)
    PROVE  Distinct(<<>>, s \o h, q, out, gen, fed)
<1>1. <<>> \in Seq(Decoded) /\ Items(<<>>) = {} /\ Apart(<<>>)
  BY EmptySeq DEF Items, Apart
<1>2. /\ h \in Seq(Decoded) /\ s \in Seq(Decoded) /\ Apart(h) /\ Apart(s)
      /\ Items(s) \intersect Items(h) = {}
  BY DEF Distinct
<1> DEFINE t == s \o h
<1>3. t \in Seq(Decoded) /\ Items(t) = Items(s) \union Items(h) /\ Apart(t)
  BY <1>2, JoinedItems
<1> HIDE DEF t
<1>4. Distinct(<<>>, t, q, out, gen, fed)
  BY <1>1, <1>3 DEF Distinct
<1> QED
  BY <1>4 DEF t

\* The codec's callback queues the frame that is first.
LEMMA StreamedDistinct ==
    ASSUME NEW h, NEW s, NEW q, NEW out, NEW gen, NEW fed,
           Distinct(h, s, q, out, gen, fed), h # <<>>
    PROVE  Distinct(Tail(h), Append(s, Head(h)), q, out, gen, fed)
<1>1. h \in Seq(Decoded) /\ s \in Seq(Decoded) /\ Apart(h) /\ Apart(s)
  BY DEF Distinct
<1> DEFINE t == Tail(h)
           e == Head(h)
           s2 == Append(s, e)
<1>2. /\ t \in Seq(Decoded) /\ Items(h) = Items(t) \union {e} /\ Apart(t) /\ e \notin Items(t)
  BY <1>1, TailItems
<1>3. e \in Decoded
  BY <1>1, HeadTailProperties
<1>4. e \notin Items(s)
  BY <1>2 DEF Distinct
<1> HIDE DEF t, e
<1>5. s2 \in Seq(Decoded) /\ Items(s2) = Items(s) \union {e} /\ Apart(s2)
  BY <1>1, <1>3, <1>4, AppendedItems
<1> HIDE DEF s2
<1>6. Distinct(t, s2, q, out, gen, fed)
  BY <1>2, <1>5 DEF Distinct
<1> QED
  BY <1>6 DEF t, e, s2

\* The first frame of the buffer is handed over.
LEMMA TakenDistinct ==
    ASSUME NEW h, NEW s, NEW q, NEW out, NEW gen, NEW fed,
           Distinct(h, s, q, out, gen, fed), q # <<>>
    PROVE  /\ Distinct(h, s, Tail(q), out \union {Head(q)}, gen, fed)
           /\ Len(Tail(q)) = Len(q) - 1
           /\ Head(q) \in Decoded /\ Head(q) \notin out /\ Head(q).gen = gen /\ Head(q).pts \in fed
<1>1. q \in Seq(Decoded) /\ Apart(q)
  BY DEF Distinct
<1> DEFINE t == Tail(q)
           e == Head(q)
<1>2. /\ t \in Seq(Decoded) /\ Items(q) = Items(t) \union {e} /\ Apart(t) /\ e \notin Items(t)
      /\ Len(t) = Len(q) - 1
  BY <1>1, TailItems
<1>3. e \in Decoded
  BY <1>1, HeadTailProperties
<1> HIDE DEF t, e
<1>4. e \notin out /\ e.gen = gen /\ e.pts \in fed /\ e \notin Items(h) \union Items(s)
  BY <1>2 DEF Distinct
<1>5. Distinct(h, s, t, out \union {e}, gen, fed)
  BY <1>2, <1>4 DEF Distinct
<1> QED
  BY <1>2, <1>3, <1>4, <1>5 DEF t, e

\* Frames that were out come back.
LEMMA FewerDistinct ==
    ASSUME NEW h, NEW s, NEW q, NEW out, NEW gen, NEW fed, Distinct(h, s, q, out, gen, fed),
           NEW fewer \in SUBSET out
    PROVE  Distinct(h, s, q, fewer, gen, fed)
BY DEF Distinct

-----------------------------------------------------------------------------
(* Counting.                                                               *)

\* What is counted is finite.
LEMMA CountIsNumber ==
    ASSUME NEW out, IsFiniteSet(out), NEW since
    PROVE  Count(out, since) \in Nat /\ IsFiniteSet({f \in out : f.gen >= since})
<1>1. IsFiniteSet({f \in out : f.gen >= since})
  BY FS_Subset
<1> QED
  BY <1>1, FS_CardinalityType DEF Count

\* One more frame.
LEMMA CountOneMore ==
    ASSUME NEW out, IsFiniteSet(out), NEW since, NEW e, e \notin out, e.gen >= since
    PROVE  Count(out \union {e}, since) = Count(out, since) + 1
<1> DEFINE S == {f \in out : f.gen >= since}
<1>1. {f \in out \union {e} : f.gen >= since} = S \union {e}
  OBVIOUS
<1>2. IsFiniteSet(S) /\ e \notin S
  BY CountIsNumber
<1> HIDE DEF S
<1>3. Cardinality(S \union {e}) = Cardinality(S) + 1
  BY <1>2, FS_AddElement
<1> QED
  BY <1>1, <1>3 DEF Count, S

\* Those that came back, and those that are out still, are those that were out.
LEMMA CountBack ==
    ASSUME NEW out, IsFiniteSet(out), NEW since, NEW back \in SUBSET out
    PROVE  /\ Count(out \ back, since) = Count(out, since) - Count(back, since)
           /\ Count(back, since) \in Nat
<1> DEFINE S == {f \in back : f.gen >= since}
           T == {f \in out \ back : f.gen >= since}
<1>1. {f \in out : f.gen >= since} = S \union T /\ S \intersect T = {}
  OBVIOUS
<1>2. IsFiniteSet(back) /\ IsFiniteSet(out \ back)
  BY FS_Subset
<1>3. IsFiniteSet(S) /\ IsFiniteSet(T)
  BY <1>2, CountIsNumber
<1>4. Count(back, since) = Cardinality(S) /\ Count(out \ back, since) = Cardinality(T)
      /\ Count(out, since) = Cardinality(S \union T)
  BY <1>1 DEF Count
<1> HIDE DEF S, T
<1>5. Cardinality(S \union T) = Cardinality(S) + Cardinality(T) - 0
  BY <1>1, <1>3, FS_Union, FS_EmptySet
<1>6. Cardinality(S) \in Nat /\ Cardinality(T) \in Nat
  BY <1>3, FS_CardinalityType
<1> QED
  BY <1>4, <1>5, <1>6

\* What is shown, presentation by presentation.
LEMMA ShownItems ==
    ASSUME NEW s \in Seq(Presentations)
    PROVE  /\ Shown(s) \in Seq(Decoded) /\ Len(Shown(s)) = Len(s) /\ IsFiniteSet(Items(Shown(s)))
           /\ Len(s) \in Nat /\ DOMAIN s = 1..Len(s)
           /\ \A i \in DOMAIN s : Shown(s)[i] = s[i].frame
<1>1. Len(s) \in Nat /\ DOMAIN s = 1..Len(s) /\ \A i \in DOMAIN s : s[i] \in Presentations
  BY LenProperties, ElementOfSeq
<1>2. \A i \in DOMAIN s : s[i].frame \in Decoded
  BY <1>1 DEF Presentations
<1>3. Shown(s) \in [1..Len(s) -> Decoded]
  BY <1>1, <1>2 DEF Shown
<1>4. Shown(s) \in Seq(Decoded) /\ Len(Shown(s)) = Len(s)
  BY <1>1, <1>3, SeqDef
<1>5. IsFiniteSet(1..Len(s))
  <2>1. 1 \in Int /\ Len(s) \in Int
    BY <1>1
  <2> QED
    BY <2>1, FS_Interval
<1>6. IsFiniteSet(Items(Shown(s)))
  <2> DEFINE t == Shown(s)
  <2>1. t \in [1..Len(s) -> Decoded]
    BY <1>3
  <2> HIDE DEF t
  <2>2. t \in Surjection(1..Len(s), Items(t))
    BY <2>1 DEF Surjection, Items
  <2>3. IsFiniteSet(Items(t))
    BY <1>5, <2>2, FS_Surjection
  <2> QED
    BY <2>3 DEF t
<1> QED
  BY <1>1, <1>4, <1>6 DEF Shown

\* Where every presentation is of another frame, they are counted by their frames.
LEMMA CountShown ==
    ASSUME NEW s \in Seq(Presentations), Apart(Shown(s)), NEW since
    PROVE  Cardinality({i \in DOMAIN s : s[i].frame.gen >= since}) = Count(Items(Shown(s)), since)
<1> DEFINE S == {i \in DOMAIN s : s[i].frame.gen >= since}
           T == {f \in Items(Shown(s)) : f.gen >= since}
           b == [i \in S |-> s[i].frame]
<1>1. /\ Shown(s) \in Seq(Decoded) /\ Len(Shown(s)) = Len(s)
      /\ Len(s) \in Nat /\ DOMAIN s = 1..Len(s)
      /\ \A i \in DOMAIN s : Shown(s)[i] = s[i].frame
  BY ShownItems
<1>2. DOMAIN Shown(s) = DOMAIN s
  BY DEF Shown
<1>3. IsFiniteSet(S)
  <2>1. 1 \in Int /\ Len(s) \in Int /\ S \subseteq 1..Len(s)
    BY <1>1
  <2> HIDE DEF S
  <2>2. IsFiniteSet(1..Len(s))
    BY <2>1, FS_Interval
  <2> QED
    BY <2>1, <2>2, FS_Subset
<1>4. \A i \in S : b[i] \in T
  BY <1>1, <1>2 DEF Items
<1>5. \A i, j \in S : b[i] = b[j] => i = j
  BY <1>1, <1>2 DEF Apart
<1>6. \A f \in T : \E i \in S : b[i] = f
  BY <1>1, <1>2 DEF Items
<1> HIDE DEF T
<1>7. b \in Bijection(S, T)
  <2>1. b \in [S -> T]
    BY <1>4
  <2> HIDE DEF b, S
  <2> QED
    BY <2>1, <1>5, <1>6 DEF Bijection, Injection, IsInjective, Surjection
<1> HIDE DEF S, b
<1>8. Cardinality(T) = Cardinality(S)
  BY <1>3, <1>7, FS_Bijection DEF ExistsBijection
<1> QED
  BY <1>8 DEF S, T, Count

-----------------------------------------------------------------------------
(* What the steps do to the frames.                                        *)

\* What is assumed of the stream and the budget.
LEMMA VideoNumbers ==
    /\ Stream \in Seq(Nat) /\ Len(Stream) \in Nat /\ DOMAIN Stream = 1..Len(Stream)
    /\ \A i \in 1..Len(Stream) : Stream[i] \in Nat
    /\ \A i, j \in 1..Len(Stream) : Stream[i] = Stream[j] => i = j
    /\ Budget \in Nat /\ Floor \in Nat /\ Floor > 0
    /\ Max2(Budget, Floor) \in Nat /\ Max2(Budget, Floor) > 0
<1>1. Stream \in Seq(Nat) /\ \A i, j \in DOMAIN Stream : Stream[i] = Stream[j] => i = j
  BY Constants DEF ConstantsOK
<1>2. Budget \in Nat /\ Floor \in Nat /\ Reorder \in Nat /\ Cushion \in Nat
      /\ Cushion > Reorder /\ Floor >= Cushion
  BY Constants DEF ConstantsOK
<1>3. Len(Stream) \in Nat /\ DOMAIN Stream = 1..Len(Stream)
  BY <1>1, LenProperties
<1>4. \A i \in 1..Len(Stream) : Stream[i] \in Nat
  BY <1>1, <1>3, ElementOfSeq
<1>5. Floor > 0 /\ Max2(Budget, Floor) \in Nat /\ Max2(Budget, Floor) > 0
  BY <1>2 DEF Max2
<1> QED
  BY <1>1, <1>2, <1>3, <1>4, <1>5

\* What is out is finite and made of frames.
LEMMA OutIsFinite ==
    ASSUME FramesTyped
    PROVE  IsFiniteSet(Out) /\ Out \subseteq Decoded
<1>1. player.frames \subseteq Decoded /\ IsFiniteSet(player.frames)
  BY DEF FramesTyped, Players
<1>2. IsFiniteSet(Items(Shown(scheduled))) /\ Shown(scheduled) \in Seq(Decoded)
  BY ShownItems DEF FramesTyped
<1>3. Items(Shown(scheduled)) \subseteq Decoded
  BY <1>2, LenProperties, ElementOfSeq DEF Items
<1>4. IsFiniteSet(player.frames \union Items(Shown(scheduled)))
  BY <1>1, <1>2, FS_Union
<1> QED
  BY <1>1, <1>3, <1>4 DEF Out, OutOf

\* Frames, books and generation are as they were.
LEMMA SameFrames ==
    ASSUME FramesInv, UNCHANGED <<codec, player, pending, scheduled>>,
           handle' \in Nat, nextId' \in Nat,
           DOMAIN decoder' = DOMAIN decoder,
           decoder'.open = decoder.open, decoder'.cap = decoder.cap,
           decoder'.inFlight = decoder.inFlight, decoder'.since = decoder.since
    PROVE  FramesInv'
<1>1. Out' = Out /\ Pushed' = Pushed
  BY DEF Out, Pushed
<1>2. FramesTyped'
  BY DEF FramesInv, FramesTyped
<1>3. FramesOut'
  BY <1>1 DEF FramesInv, FramesOut
<1>4. FramesComing'
  BY <1>1 DEF FramesInv, FramesComing
<1>5. Booked'
  BY <1>1 DEF FramesInv, Booked
<1> QED
  BY <1>2, <1>3, <1>4, <1>5 DEF FramesInv

\* Surfaces come, go and are attached without a frame moving.
LEMMA ScreenKeepsFrames == FramesInv /\ (OpenSurface \/ DropSurface \/ Attach) => FramesInv'
<1> SUFFICES ASSUME FramesInv, OpenSurface \/ DropSurface \/ Attach PROVE FramesInv'
  OBVIOUS
<1>1. handle \in Nat /\ nextId \in Nat /\ DOMAIN decoder = DOMAIN Closed
  BY DEF FramesInv, FramesTyped
<1>2. CASE OpenSurface
  BY <1>1, <1>2, SameFrames DEF OpenSurface
<1>3. CASE DropSurface
  BY <1>1, <1>3, SameFrames DEF DropSurface
<1>4. CASE Attach
  <2>1. /\ DOMAIN decoder' = DOMAIN decoder /\ decoder'.open = decoder.open
        /\ decoder'.cap = decoder.cap /\ decoder'.inFlight = decoder.inFlight
        /\ decoder'.since = decoder.since
    BY <1>1, <1>4 DEF Attach, Closed
  <2>2. UNCHANGED <<codec, player, pending, scheduled, handle, nextId>>
    BY <1>4 DEF Attach, screen
  <2> QED
    BY <1>1, <2>1, <2>2, SameFrames
<1> QED
  BY <1>2, <1>3, <1>4

\* Time passes: the deadlines come nearer, the frames stay what they are.
LEMMA TickKeepsFrames == FramesInv /\ Tick => FramesInv'
<1> SUFFICES ASSUME FramesInv, Tick PROVE FramesInv'
  OBVIOUS
<1>1. /\ player \in Players /\ scheduled \in Seq(Presentations)
      /\ IsFiniteSet(player.frames) /\ handle \in Nat /\ nextId \in Nat
  BY DEF FramesInv, FramesTyped
<1>2. /\ player' \in Players /\ player'.frames = player.frames /\ player'.gen = player.gen
      /\ player'.next = player.next
  BY <1>1 DEF Tick, Players
<1>3. UNCHANGED <<decoder, codec, pending, handle, nextId>>
  BY DEF Tick, screen
<1>4. /\ Len(scheduled) \in Nat /\ DOMAIN scheduled = 1..Len(scheduled)
      /\ \A i \in DOMAIN scheduled : scheduled[i] \in Presentations
  BY <1>1, LenProperties, ElementOfSeq
<1>5. ASSUME NEW i \in DOMAIN scheduled
      PROVE  /\ [scheduled[i] EXCEPT !.due = IF @ = 0 THEN 0 ELSE @ - 1] \in Presentations
             /\ [scheduled[i] EXCEPT !.due = IF @ = 0 THEN 0 ELSE @ - 1].frame = scheduled[i].frame
  BY <1>4 DEF Presentations
<1>6. scheduled' = [i \in 1..Len(scheduled) |->
                      [scheduled[i] EXCEPT !.due = IF @ = 0 THEN 0 ELSE @ - 1]]
  BY <1>4 DEF Tick
<1>7. scheduled' \in [1..Len(scheduled) -> Presentations]
  BY <1>4, <1>5, <1>6
<1>8. scheduled' \in Seq(Presentations)
  BY <1>4, <1>7, SeqDef
<1>9. Shown(scheduled') = Shown(scheduled)
  BY <1>4, <1>5, <1>6 DEF Shown
<1>10. Out' = Out /\ Pushed' = Pushed
  BY <1>2, <1>9 DEF Out, OutOf, Pushed
<1>11. FramesTyped'
  BY <1>1, <1>2, <1>3, <1>8 DEF FramesInv, FramesTyped
<1>12. FramesOut'
  BY <1>2, <1>3, <1>9, <1>10 DEF FramesInv, FramesOut
<1>13. FramesComing'
  BY <1>2, <1>3, <1>10 DEF FramesInv, FramesComing
<1>14. Booked'
  BY <1>3, <1>10 DEF FramesInv, Booked
<1> QED
  BY <1>11, <1>12, <1>13, <1>14 DEF FramesInv

\* A decoder opens: of this generation nothing is out yet.
LEMMA OpenKeepsFrames == FramesInv /\ (\E accel \in Accels : Open(accel)) => FramesInv'
<1> SUFFICES ASSUME FramesInv, NEW accel \in Accels, Open(accel) PROVE FramesInv'
  OBVIOUS
<1>1. /\ player \in Players /\ decoder.open \in BOOLEAN
      /\ DOMAIN decoder = DOMAIN Closed /\ ~decoder.open
  BY DEF FramesInv, FramesTyped, Open
<1>2. UNCHANGED <<player, pending, scheduled, handle, nextId>>
  BY DEF Open, screen
<1>3. /\ decoder'.open /\ decoder'.since = player.gen /\ decoder'.cap = 0 /\ decoder'.inFlight = 0
      /\ decoder'.open \in BOOLEAN /\ DOMAIN decoder' = DOMAIN Closed
  BY DEF Open, Closed
<1>4. codec'.held = <<>> /\ codec'.samples = <<>> /\ DOMAIN codec' = DOMAIN Idle
  BY DEF Open, Idle
<1>5. pending = <<>>
  BY <1>1 DEF FramesInv, FramesComing
<1>6. Out' = Out /\ Pushed' = Pushed
  BY <1>2 DEF Out, OutOf, Pushed
<1>7. FramesTyped'
  <2>1. player.gen \in Nat
    BY <1>1 DEF Players
  <2> QED
    BY <1>2, <1>3, <1>4, <2>1 DEF FramesInv, FramesTyped
<1>8. FramesOut'
  BY <1>1, <1>2, <1>3, <1>6 DEF FramesInv, FramesOut
<1>9. FramesComing'
  BY <1>2, <1>3, <1>4, <1>5, <1>6, NothingComes DEF FramesComing
<1>10. Count(Out, player.gen) = 0
  <2>1. \A f \in Out : f.gen < player.gen
    <3> SUFFICES ASSUME NEW f \in Out PROVE f.gen < player.gen
      OBVIOUS
    <3>1. f.gen \in Nat /\ player.gen \in Nat /\ f.gen <= player.gen /\ f.gen # player.gen
      BY <1>1, OutIsFinite DEF FramesInv, FramesOut, Decoded, Players
    <3> QED
      BY <3>1
  <2>2. {f \in Out : f.gen >= player.gen} = {}
    <3> SUFFICES ASSUME NEW f \in Out, f.gen >= player.gen PROVE FALSE
      OBVIOUS
    <3>1. f.gen \in Nat /\ player.gen \in Nat
      BY <1>1, OutIsFinite DEF FramesInv, Decoded, Players
    <3> QED
      BY <2>1, <3>1
  <2> QED
    BY <2>2, FS_EmptySet DEF Count
<1>11. Booked'
  BY <1>2, <1>3, <1>4, <1>5, <1>6, <1>10 DEF Booked
<1> QED
  BY <1>7, <1>8, <1>9, <1>11 DEF FramesInv

\* The codec's own thread.
LEMMA StreamKeepsFrames == FramesInv /\ StreamingThread => FramesInv'
<1> SUFFICES ASSUME FramesInv, StreamingThread PROVE FramesInv'
  OBVIOUS
<1>1. UNCHANGED <<decoder, player, pending, scheduled, handle, nextId>>
  BY DEF StreamingThread, screen
<1>2. DOMAIN codec = DOMAIN Idle
  BY DEF FramesInv, FramesTyped
<1>3. /\ codec'.held = Tail(codec.held) /\ codec'.samples = Append(codec.samples, Head(codec.held))
      /\ codec'.lane = codec.lane /\ DOMAIN codec' = DOMAIN Idle /\ codec.lane # "libvpx"
  BY <1>2 DEF StreamingThread, Idle
<1>4. codec.held # <<>>
  <2>1. Reorder \in Nat
    BY Constants DEF ConstantsOK
  <2>2. Len(codec.held) > 0
    <3>1. Len(codec.held) \in Nat
      BY LenProperties DEF FramesInv, FramesComing, Distinct
    <3> QED
      BY <2>1, <3>1 DEF StreamingThread
  <2> QED
    BY <2>2
<1>5. Out' = Out /\ Pushed' = Pushed
  BY <1>1 DEF Out, OutOf, Pushed
<1>6. FramesTyped'
  BY <1>1, <1>3 DEF FramesInv, FramesTyped
<1>7. FramesOut'
  BY <1>1, <1>5 DEF FramesInv, FramesOut
<1>8. FramesComing'
  <2>1. Distinct(codec'.held, codec'.samples, pending, Out, player.gen, Pushed)
    BY <1>3, <1>4, StreamedDistinct DEF FramesInv, FramesComing
  <2>2. decoder.open
    BY DEF StreamingThread
  <2> QED
    BY <1>1, <1>5, <2>1, <2>2 DEF FramesComing
<1>9. Booked'
  BY <1>1, <1>3, <1>5 DEF FramesInv, Booked
<1> QED
  BY <1>6, <1>7, <1>8, <1>9 DEF FramesInv
\* queue_decoded: what was out is out, and what waited is in the buffer or unusable.
LEMMA QueueKeepsFrames ==
    ASSUME FramesInv, decoder.open, NEW c, DOMAIN c = DOMAIN Idle, QueueDecoded(c),
           player' \in Players, player'.frames = player.frames, player'.gen = player.gen,
           Pushed \subseteq Pushed', UNCHANGED <<scheduled, handle, nextId>>,
           Distinct(c.held, c.samples, pending, Out, player.gen, Pushed'),
           c.lane = "libvpx" =>
               /\ codec.lane = "libvpx" /\ c.held = <<>>
               /\ Len(c.samples) <= 1 /\ (Len(c.samples) = 1 => ~Full)
    PROVE  FramesInv'
<1> DEFINE queue == Queued(pending, c.samples)
           came == Len(queue) - Len(pending)
<1>1. /\ Distinct(c.held, <<>>, queue, Out, player.gen, Pushed')
      /\ came \in 0..Len(c.samples)
  BY TakenInDistinct
<1>2. Len(pending) \in Nat /\ Len(c.samples) \in Nat /\ Len(queue) \in Nat
  BY <1>1, LenProperties DEF Distinct
<1>3. pending' = queue /\ decoder' = Counting(came) /\ codec' = [c EXCEPT !.samples = <<>>]
  BY DEF QueueDecoded
<1> HIDE DEF queue
<1>4. /\ DOMAIN decoder = DOMAIN Closed /\ decoder.cap \in Nat /\ decoder.inFlight \in Int
      /\ decoder.since \in 0..player.gen
  BY DEF FramesInv, FramesTyped
<1>5. CapOf(came) \in Nat /\ (CapOf(came) = 0 => decoder.cap = 0 /\ came = 0)
      /\ (decoder.cap # 0 => CapOf(came) = decoder.cap)
  BY <1>1, <1>2, <1>4, VideoNumbers DEF CapOf
<1>6. /\ decoder'.open /\ decoder'.cap = CapOf(came) /\ decoder'.inFlight = decoder.inFlight + came
      /\ decoder'.since = decoder.since /\ DOMAIN decoder' = DOMAIN Closed
  BY <1>3, <1>4 DEF Counting, Closed
<1>7. /\ codec'.held = c.held /\ codec'.samples = <<>> /\ codec'.lane = c.lane
      /\ DOMAIN codec' = DOMAIN Idle
  BY <1>3 DEF Idle
<1>8. Out' = Out
  BY DEF Out, OutOf
<1>9. FramesTyped'
  <2>1. decoder'.inFlight \in Int /\ decoder'.open \in BOOLEAN
    BY <1>1, <1>2, <1>4, <1>6
  <2>2. /\ scheduled \in Seq(Presentations) /\ handle \in Nat /\ nextId \in Nat
        /\ IsFiniteSet(player.frames)
    BY DEF FramesInv, FramesTyped
  <2> QED
    BY <1>4, <1>5, <1>6, <1>7, <2>1, <2>2 DEF FramesTyped
<1>10. FramesOut'
  BY <1>6, <1>8 DEF FramesInv, FramesOut
<1>11. FramesComing'
  BY <1>1, <1>3, <1>6, <1>7, <1>8 DEF FramesComing
<1>12. Booked'
  <2>1. Count(Out, decoder.since) \in Nat
    BY OutIsFinite, CountIsNumber DEF FramesInv
  <2>2. /\ decoder.inFlight = Len(pending) + Count(Out, decoder.since)
        /\ decoder.cap = 0 => decoder.inFlight = 0
    BY DEF FramesInv, Booked
  <2>3. /\ decoder'.inFlight = Len(queue) + Count(Out, decoder.since)
        /\ decoder'.cap = 0 => decoder'.inFlight = 0
    BY <1>1, <1>2, <1>4, <1>5, <1>6, <2>1, <2>2
  <2>4. ASSUME c.lane = "libvpx" PROVE decoder'.cap # 0 => decoder'.inFlight <= decoder'.cap
    <3>1. decoder.cap # 0 => decoder.inFlight <= decoder.cap
      BY <2>4 DEF FramesInv, Booked
    <3>2. came \in 0..1 /\ (came = 1 => decoder.cap = 0 \/ decoder.inFlight < decoder.cap)
      <4>1. /\ Len(c.samples) <= 1
            /\ (Len(c.samples) = 1 => decoder.cap = 0 \/ ~(decoder.inFlight >= decoder.cap))
        BY <2>4 DEF Full
      <4> DEFINE len == Len(c.samples)
      <4>2. /\ len <= 1 /\ len \in Nat /\ came \in 0..len
            /\ (len = 1 => decoder.cap = 0 \/ ~(decoder.inFlight >= decoder.cap))
        BY <1>1, <1>2, <4>1
      <4> HIDE DEF came, len
      <4>3. came \in 0..1 /\ (came = 1 => len = 1)
        BY <4>2
      <4>4. decoder.inFlight \in Int /\ decoder.cap \in Int
        BY <1>4
      <4>5. ~(decoder.inFlight >= decoder.cap) => decoder.inFlight < decoder.cap
        BY <4>4
      <4> QED
        BY <4>2, <4>3, <4>5
    <3>3. CASE decoder.cap = 0
      BY <1>5, <1>6, <2>2, <3>2, <3>3
    <3>4. CASE decoder.cap # 0
      BY <1>4, <1>5, <1>6, <3>1, <3>2, <3>4
    <3> QED
      BY <3>3, <3>4
  <2> QED
    BY <1>3, <1>6, <1>7, <1>8, <2>3, <2>4 DEF Booked
<1> QED
  BY <1>9, <1>10, <1>11, <1>12 DEF FramesInv

\* The probe changes the lane at most, and never to or from the one inside the call.
LEMMA ProbedSame ==
    ASSUME DOMAIN codec = DOMAIN Idle
    PROVE  /\ DOMAIN Probed = DOMAIN Idle
           /\ Probed.held = codec.held /\ Probed.samples = codec.samples
           /\ Probed.lane = "libvpx" => codec.lane = "libvpx"
BY DEF Probed, Idle

\* A chunk is pushed.
LEMMA SubmitKeepsFrames == FramesInv /\ Submit => FramesInv'
<1> SUFFICES ASSUME FramesInv, Submit PROVE FramesInv'
  OBVIOUS
<1>1. /\ player \in Players /\ DOMAIN codec = DOMAIN Idle /\ decoder.open /\ ~Full
      /\ player.next \in 1..Len(Stream) /\ player.gen \in Nat /\ player.next \in Nat
  BY VideoNumbers DEF FramesInv, FramesTyped, Submit, Players
<1>2. UNCHANGED <<scheduled, handle, nextId>>
  BY DEF Submit, screen
<1>3. player' = [player EXCEPT !.next = @ + 1]
  BY DEF Submit
<1>4. /\ player' \in Players /\ player'.frames = player.frames /\ player'.gen = player.gen
      /\ player'.next = player.next + 1
  BY <1>1, <1>3 DEF Players
<1> DEFINE pts == Stream[player.next]
           more == Pushed \union {pts}
<1>5. Pushed' = more
  BY <1>1, <1>4 DEF Pushed
<1>6. pts \notin Pushed /\ pts \in Nat
  BY <1>1, VideoNumbers DEF Pushed
<1> DEFINE e == Frame(pts)
<1>7. e \in Decoded /\ e.gen = player.gen /\ e.pts = pts
  BY <1>1, <1>6 DEF Frame, Decoded
<1> HIDE DEF e, pts
<1>8. /\ Distinct(Append(codec.held, e), codec.samples, pending, Out, player.gen, more)
      /\ Distinct(codec.held, Append(codec.samples, e), pending, Out, player.gen, more)
      /\ Distinct(codec.held, codec.samples, pending, Out, player.gen, more)
  <2>1. Distinct(codec.held, codec.samples, pending, Out, player.gen, Pushed)
    BY DEF FramesInv, FramesComing
  <2>2. \A f \in Out : f.gen = player.gen => f.pts \in Pushed
    BY DEF FramesInv, FramesOut
  <2>3. e.pts \notin Pushed
    BY <1>6, <1>7
  <2> QED
    BY <1>7, <2>1, <2>2, <2>3, PushedDistinct
<1> HIDE DEF more
<1>9. Pushed \subseteq Pushed'
  BY <1>5 DEF more
<1>10. CASE Declined
  <2>1. codec' = Probed /\ UNCHANGED <<decoder, pending>>
    BY <1>10 DEF Submit
  <2>2. /\ DOMAIN codec' = DOMAIN Idle /\ codec'.held = codec.held /\ codec'.samples = codec.samples
        /\ codec'.lane = "libvpx" => codec.lane = "libvpx"
    BY <1>1, <2>1, ProbedSame
  <2>3. Out' = Out
    BY <1>2, <1>4 DEF Out, OutOf
  <2>4. FramesTyped'
    BY <1>2, <1>4, <2>1, <2>2 DEF FramesInv, FramesTyped
  <2>5. FramesOut'
    BY <1>2, <1>4, <1>9, <2>1, <2>3 DEF FramesInv, FramesOut
  <2>6. FramesComing'
    BY <1>1, <1>4, <1>5, <1>8, <2>1, <2>2, <2>3 DEF FramesComing
  <2>7. Booked'
    BY <2>1, <2>2, <2>3 DEF FramesInv, Booked
  <2> QED
    BY <2>4, <2>5, <2>6, <2>7 DEF FramesInv
<1>11. CASE ~Declined
  <2> DEFINE c == Fed(Probed, e)
  <2>1. QueueDecoded(c)
    BY <1>11 DEF Submit, e, pts
  <2>2. /\ DOMAIN Probed = DOMAIN Idle /\ Probed.held = codec.held /\ Probed.samples = codec.samples
        /\ Probed.lane = "libvpx" => codec.lane = "libvpx"
    BY <1>1, ProbedSame
  <2>3. DOMAIN c = DOMAIN Idle /\ c.lane = Probed.lane
    BY <2>2 DEF Fed, Idle
  <2>4. CASE Probed.lane = "libvpx"
    <3>1. c.held = codec.held /\ c.samples = Append(codec.samples, e)
      BY <2>2, <2>4 DEF Fed, Idle
    <3>2. codec.lane = "libvpx" /\ codec.held = <<>> /\ codec.samples = <<>>
      BY <1>1, <2>2, <2>4 DEF FramesInv, Booked
    <3>3. Len(c.samples) = 1
      BY <3>1, <3>2
    <3> HIDE DEF c
    <3>4. Distinct(c.held, c.samples, pending, Out, player.gen, Pushed')
      BY <1>5, <1>8, <3>1
    <3>5. c.held = <<>> /\ Len(c.samples) <= 1
      BY <3>1, <3>2, <3>3
    <3> QED
      BY <1>1, <1>2, <1>4, <1>9, <2>1, <2>3, <3>2, <3>4, <3>5, QueueKeepsFrames
  <2>5. CASE Probed.lane # "libvpx" /\ Probed.eos
    <3>1. c.held = codec.held /\ c.samples = codec.samples
      BY <2>2, <2>5 DEF Fed
    <3> HIDE DEF c
    <3> QED
      BY <1>1, <1>2, <1>4, <1>5, <1>8, <1>9, <2>1, <2>3, <2>5, <3>1, QueueKeepsFrames
  <2>6. CASE Probed.lane # "libvpx" /\ ~Probed.eos
    <3>1. c.held = Append(codec.held, e) /\ c.samples = codec.samples
      BY <2>2, <2>6 DEF Fed, Idle
    <3> HIDE DEF c
    <3> QED
      BY <1>1, <1>2, <1>4, <1>5, <1>8, <1>9, <2>1, <2>3, <2>6, <3>1, QueueKeepsFrames
  <2> QED
    BY <2>4, <2>5, <2>6
<1> QED
  BY <1>10, <1>11

\* The stream ends.
LEMMA FinishKeepsFrames == FramesInv /\ Finish => FramesInv'
<1> SUFFICES ASSUME FramesInv, Finish PROVE FramesInv'
  OBVIOUS
<1>1. player \in Players /\ DOMAIN codec = DOMAIN Idle /\ decoder.open
  BY DEF FramesInv, FramesTyped, Finish
<1>2. UNCHANGED <<scheduled, handle, nextId>>
  BY DEF Finish, screen
<1>3. /\ player' \in Players /\ player'.frames = player.frames /\ player'.gen = player.gen
      /\ player'.next = player.next
  BY <1>1 DEF Finish, Players
<1>4. Pushed' = Pushed
  BY <1>3 DEF Pushed
<1> DEFINE drained == [codec EXCEPT !.held = <<>>, !.samples = @ \o codec.held]
<1>5. PICK c : /\ QueueDecoded(c)
               /\ c = [codec EXCEPT !.eos = TRUE] \/ c = [drained EXCEPT !.eos = TRUE]
  BY DEF Finish
<1>6. /\ DOMAIN c = DOMAIN Idle /\ c.lane = codec.lane
      /\ \/ c.held = codec.held /\ c.samples = codec.samples
         \/ c.held = <<>> /\ c.samples = codec.samples \o codec.held
  BY <1>1, <1>5 DEF Idle
<1>7. Distinct(codec.held, codec.samples, pending, Out, player.gen, Pushed)
  BY DEF FramesInv, FramesComing
<1>8. Distinct(c.held, c.samples, pending, Out, player.gen, Pushed)
  BY <1>6, <1>7, DrainedDistinct
<1>9. c.lane = "libvpx" => codec.lane = "libvpx" /\ c.held = <<>> /\ c.samples = <<>>
  <2>1. codec.lane = "libvpx" => codec.held = <<>> /\ codec.samples = <<>>
    BY <1>1 DEF FramesInv, Booked
  <2>2. <<>> \o <<>> = <<>>
    OBVIOUS
  <2> QED
    BY <1>6, <2>1, <2>2
<1>10. c.lane = "libvpx" => Len(c.samples) = 0
  BY <1>9
<1>11. Distinct(c.held, c.samples, pending, Out, player.gen, Pushed') /\ Pushed \subseteq Pushed'
  BY <1>4, <1>8
<1>12. c.lane = "libvpx" =>
           /\ codec.lane = "libvpx" /\ c.held = <<>>
           /\ Len(c.samples) <= 1 /\ (Len(c.samples) = 1 => ~Full)
  BY <1>9, <1>10
<1>13. QueueDecoded(c) /\ DOMAIN c = DOMAIN Idle
  BY <1>5, <1>6
<1> HIDE DEF drained
<1> QED
  BY <1>1, <1>2, <1>3, <1>11, <1>12, <1>13, QueueKeepsFrames

\* The generation ends: nothing waits, and what is out is of before.
LEMMA NewGeneration ==
    ASSUME FramesInv, codec'.held = <<>>, codec'.samples = <<>>, pending' = <<>>,
           DOMAIN codec' = DOMAIN Idle,
           player' = [player EXCEPT !.next = 1, !.finished = FALSE, !.pos = 0, !.gen = @ + 1],
           UNCHANGED <<scheduled, handle, nextId>>
    PROVE  /\ FramesOut' /\ FramesComing' /\ Out' = Out /\ player' \in Players
           /\ player'.gen = player.gen + 1 /\ player'.frames = player.frames /\ player.gen \in Nat
<1>1. player \in Players
  BY DEF FramesInv, FramesTyped
<1>2. /\ player' \in Players /\ player'.gen = player.gen + 1 /\ player'.frames = player.frames
      /\ player.gen \in Nat
  <2>1. player.gen \in Nat /\ player.gen + 1 \in Nat /\ 1 \in Nat \ {0} /\ 0 \in Nat
    BY <1>1 DEF Players
  <2> QED
    BY <1>1, <2>1 DEF Players
<1>3. Out' = Out
  BY <1>2 DEF Out, OutOf
<1>4. \A f \in Out : f.gen <= player'.gen /\ f.gen # player'.gen
  <2> SUFFICES ASSUME NEW f \in Out PROVE f.gen <= player'.gen /\ f.gen # player'.gen
    OBVIOUS
  <2>1. f.gen \in Nat /\ f.gen <= player.gen
    BY OutIsFinite DEF FramesInv, FramesOut, Decoded
  <2> QED
    BY <1>2, <2>1
<1>5. FramesOut'
  BY <1>2, <1>3, <1>4 DEF FramesInv, FramesOut
<1>6. FramesComing'
  BY NothingComes DEF FramesComing
<1> QED
  BY <1>2, <1>3, <1>5, <1>6

\* A seek.
LEMMA SeekKeepsFrames == FramesInv /\ Seek => FramesInv'
<1> SUFFICES ASSUME FramesInv, Seek PROVE FramesInv'
  OBVIOUS
<1>1. /\ DOMAIN codec = DOMAIN Idle /\ DOMAIN decoder = DOMAIN Closed /\ decoder.open
      /\ decoder.open \in BOOLEAN /\ decoder.cap \in Nat /\ decoder.inFlight \in Int
      /\ decoder.since \in 0..player.gen /\ scheduled \in Seq(Presentations)
      /\ handle \in Nat /\ nextId \in Nat /\ IsFiniteSet(player.frames)
  BY DEF FramesInv, FramesTyped, Seek
<1>2. /\ codec'.held = <<>> /\ codec'.samples = <<>> /\ codec'.lane = codec.lane
      /\ DOMAIN codec' = DOMAIN Idle /\ pending' = <<>>
  BY <1>1 DEF Seek, Idle
<1>3. UNCHANGED <<scheduled, handle, nextId>>
  BY DEF Seek, screen
<1>4. player' = [player EXCEPT !.next = 1, !.finished = FALSE, !.pos = 0, !.gen = @ + 1]
  BY DEF Seek
<1>5. /\ FramesOut' /\ FramesComing' /\ Out' = Out /\ player' \in Players
      /\ player'.gen = player.gen + 1 /\ player'.frames = player.frames /\ player.gen \in Nat
  BY <1>2, <1>3, <1>4, NewGeneration
<1>6. /\ decoder'.open /\ decoder'.cap = decoder.cap /\ decoder'.since = decoder.since
      /\ decoder'.inFlight = decoder.inFlight - Len(pending) /\ DOMAIN decoder' = DOMAIN Closed
  BY <1>1 DEF Seek, Reset, Closed
<1>7. Len(pending) \in Nat
  BY LenProperties DEF FramesInv, FramesComing, Distinct
<1>8. FramesTyped'
  <2>1. decoder'.inFlight \in Int /\ decoder'.since \in 0..player'.gen
    BY <1>1, <1>5, <1>6, <1>7
  <2> QED
    BY <1>1, <1>2, <1>3, <1>5, <1>6, <2>1 DEF FramesTyped
<1>9. Booked'
  <2>1. Count(Out, decoder.since) \in Nat
    BY OutIsFinite, CountIsNumber DEF FramesInv
  <2>2. /\ decoder.inFlight = Len(pending) + Count(Out, decoder.since)
        /\ decoder.cap = 0 => decoder.inFlight = 0
        /\ codec.lane = "libvpx" => (decoder.cap # 0 => decoder.inFlight <= decoder.cap)
    BY <1>1 DEF FramesInv, Booked
  <2>3. /\ decoder'.inFlight = Count(Out, decoder.since)
        /\ decoder.cap = 0 => decoder'.inFlight = 0
        /\ decoder.inFlight <= decoder.cap => decoder'.inFlight <= decoder.cap
    BY <1>1, <1>6, <1>7, <2>1, <2>2
  <2>4. decoder'.inFlight = Len(pending') + Count(Out', decoder'.since)
    <3>1. Len(<<>>) = 0
      OBVIOUS
    <3> QED
      BY <1>2, <1>5, <1>6, <2>1, <2>3, <3>1
  <2> QED
    BY <1>2, <1>6, <2>2, <2>3, <2>4 DEF Booked
<1> QED
  BY <1>5, <1>8, <1>9 DEF FramesInv

\* The decoder closes: what is out outlives it.
LEMMA CloseKeepsFrames == FramesInv /\ Close => FramesInv'
<1> SUFFICES ASSUME FramesInv, Close PROVE FramesInv'
  OBVIOUS
<1>1. /\ scheduled \in Seq(Presentations) /\ handle \in Nat /\ nextId \in Nat
      /\ IsFiniteSet(player.frames)
  BY DEF FramesInv, FramesTyped
<1>2. codec'.held = <<>> /\ codec'.samples = <<>> /\ DOMAIN codec' = DOMAIN Idle /\ pending' = <<>>
  BY DEF Close, Idle
<1>3. UNCHANGED <<scheduled, handle, nextId>>
  BY DEF Close
<1>4. player' = [player EXCEPT !.next = 1, !.finished = FALSE, !.pos = 0, !.gen = @ + 1]
  BY DEF Close
<1>5. /\ FramesOut' /\ FramesComing' /\ Out' = Out /\ player' \in Players
      /\ player'.gen = player.gen + 1 /\ player'.frames = player.frames /\ player.gen \in Nat
  BY <1>2, <1>3, <1>4, NewGeneration
<1>6. /\ decoder'.open = FALSE /\ decoder'.open \in BOOLEAN
      /\ decoder'.cap = 0 /\ decoder'.since = 0
      /\ decoder'.inFlight = 0 /\ DOMAIN decoder' = DOMAIN Closed
  BY DEF Close, Closed
<1>7. FramesTyped'
  <2>1. /\ decoder'.inFlight \in Int /\ decoder'.since \in 0..player'.gen
        /\ decoder'.cap \in Nat /\ decoder'.open \in BOOLEAN
    <3>1. player'.gen \in Nat
      BY <1>5
    <3>2. 0 \in 0..player'.gen
      BY <3>1
    <3> QED
      BY <1>6, <3>2
  <2>2. IsFiniteSet(player'.frames) /\ scheduled' \in Seq(Presentations)
    BY <1>1, <1>3, <1>5
  <2> QED
    BY <1>1, <1>2, <1>3, <1>5, <1>6, <2>1, <2>2 DEF FramesTyped
<1>8. Booked'
  BY <1>6 DEF Booked
<1> QED
  BY <1>5, <1>7, <1>8 DEF FramesInv

\* Frames come back: they are neither out nor on the books.
LEMMA BackKeepsFrames ==
    ASSUME FramesInv, NEW back \in SUBSET Out, Releasing(back), Out' = Out \ back,
           UNCHANGED <<codec, pending, handle, nextId>>,
           player' \in Players, player'.gen = player.gen, player'.next = player.next,
           IsFiniteSet(player'.frames), scheduled' \in Seq(Presentations),
           Apart(Shown(scheduled')), player'.frames \intersect Items(Shown(scheduled')) = {}
    PROVE  FramesInv'
<1> DEFINE owned == {f \in back : Owned(f)}
<1>1. /\ DOMAIN codec = DOMAIN Idle /\ DOMAIN decoder = DOMAIN Closed
      /\ decoder.open \in BOOLEAN /\ decoder.cap \in Nat /\ decoder.inFlight \in Int
      /\ decoder.since \in 0..player.gen /\ handle \in Nat /\ nextId \in Nat
  BY DEF FramesInv, FramesTyped
<1>2. /\ decoder'.open = decoder.open /\ decoder'.cap = decoder.cap
      /\ decoder'.since = decoder.since
      /\ decoder'.inFlight = decoder.inFlight - Cardinality(owned)
      /\ DOMAIN decoder' = DOMAIN Closed
  BY <1>1 DEF Releasing, Closed
<1>3. Cardinality(owned) \in Nat
  <2>1. IsFiniteSet(Out)
    BY OutIsFinite DEF FramesInv
  <2>2. owned \subseteq Out
    OBVIOUS
  <2> HIDE DEF owned
  <2> QED
    BY <2>1, <2>2, FS_Subset, FS_CardinalityType
<1>4. Pushed' = Pushed
  BY DEF Pushed
<1>5. FramesTyped'
  <2>1. decoder'.inFlight \in Int
    BY <1>1, <1>2, <1>3
  <2> QED
    BY <1>1, <1>2, <2>1 DEF FramesTyped
<1>6. FramesOut'
  BY <1>2, <1>4 DEF FramesInv, FramesOut
<1>7. FramesComing'
  <2>1. Distinct(codec.held, codec.samples, pending, Out, player.gen, Pushed)
    BY DEF FramesInv, FramesComing
  <2>2. Out \ back \in SUBSET Out
    OBVIOUS
  <2>3. Distinct(codec.held, codec.samples, pending, Out \ back, player.gen, Pushed)
    BY <2>1, <2>2, FewerDistinct
  <2> QED
    BY <1>2, <1>4, <2>3 DEF FramesInv, FramesComing
<1>8. ASSUME decoder.open PROVE Booked'
  <2>1. owned = {f \in back : f.gen >= decoder.since}
    BY <1>8 DEF Owned
  <2>2. Cardinality(owned) = Count(back, decoder.since)
    BY <2>1 DEF Count
  <2>3. /\ Count(Out \ back, decoder.since) = Count(Out, decoder.since) - Count(back, decoder.since)
        /\ Count(back, decoder.since) \in Nat
    BY OutIsFinite, CountBack DEF FramesInv
  <2>4. Count(Out, decoder.since) \in Nat /\ Count(Out \ back, decoder.since) \in Nat
    <3>1. IsFiniteSet(Out) /\ IsFiniteSet(Out \ back)
      BY OutIsFinite, FS_Subset DEF FramesInv
    <3> QED
      BY <3>1, CountIsNumber
  <2>5. Len(pending) \in Nat
    BY LenProperties DEF FramesInv, FramesComing, Distinct
  <2>6. /\ decoder.inFlight = Len(pending) + Count(Out, decoder.since)
        /\ decoder.cap = 0 => decoder.inFlight = 0
    BY <1>8 DEF FramesInv, Booked
  <2>7. /\ decoder'.inFlight = Len(pending) + Count(Out \ back, decoder.since)
        /\ decoder.cap = 0 => decoder'.inFlight = 0
        /\ decoder.inFlight <= decoder.cap => decoder'.inFlight <= decoder.cap
    BY <1>1, <1>2, <2>2, <2>3, <2>4, <2>5, <2>6
  <2> QED
    BY <1>2, <1>8, <2>7 DEF FramesInv, Booked
<1>9. Booked'
  BY <1>2, <1>8 DEF Booked
<1> QED
  BY <1>5, <1>6, <1>7, <1>9 DEF FramesInv

\* The first frame goes to the guest.
LEMMA TakeKeepsFrames == FramesInv /\ Take => FramesInv'
<1> SUFFICES ASSUME FramesInv, Take PROVE FramesInv'
  OBVIOUS
<1> DEFINE queue == Queued(pending, codec.samples)
           came == Len(queue) - Len(pending)
<1>1. /\ player \in Players /\ DOMAIN codec = DOMAIN Idle /\ DOMAIN decoder = DOMAIN Closed
      /\ decoder.open /\ decoder.open \in BOOLEAN /\ decoder.cap \in Nat /\ decoder.inFlight \in Int
      /\ decoder.since \in 0..player.gen /\ player.gen \in Nat /\ scheduled \in Seq(Presentations)
      /\ handle \in Nat /\ nextId \in Nat /\ IsFiniteSet(player.frames)
  BY DEF FramesInv, FramesTyped, Take, Players
<1>2. UNCHANGED <<scheduled, handle, nextId>>
  BY DEF Take, screen
<1>3. Distinct(codec.held, codec.samples, pending, Out, player.gen, Pushed)
  BY DEF FramesInv, FramesComing
<1>4. Distinct(codec.held, <<>>, queue, Out, player.gen, Pushed) /\ came \in 0..Len(codec.samples)
  BY <1>3, TakenInDistinct
<1>5. Len(pending) \in Nat /\ Len(codec.samples) \in Nat /\ Len(queue) \in Nat
  BY <1>3, <1>4, LenProperties DEF Distinct
<1>6. /\ decoder' = Counting(came) /\ codec' = [codec EXCEPT !.samples = <<>>]
      /\ IF queue = <<>> THEN UNCHANGED <<pending, player>>
         ELSE /\ pending' = Tail(queue)
              /\ player' = [player EXCEPT !.frames = @ \union {Head(queue)}]
  BY DEF Take
<1>7. codec.lane = "libvpx" => codec.held = <<>> /\ codec.samples = <<>>
  BY <1>1 DEF FramesInv, Booked
<1>8. codec.lane = "libvpx" => Len(codec.samples) = 0
  BY <1>7
<1>9. CASE queue = <<>>
  <2>1. pending = queue
    <3>1. Len(queue) = 0
      BY <1>9
    <3>2. Len(pending) = 0
      BY <1>4, <1>5, <3>1
    <3>3. pending \in Seq(Decoded)
      BY <1>3 DEF Distinct
    <3> QED
      BY <1>9, <3>2, <3>3, EmptySeq
  <2>2. QueueDecoded(codec)
    BY <1>6, <1>9, <2>1 DEF QueueDecoded
  <2>3. player' = player
    BY <1>6, <1>9
  <2>4. Pushed' = Pushed
    BY <2>3 DEF Pushed
  <2>5. codec.lane = "libvpx" =>
            /\ codec.lane = "libvpx" /\ codec.held = <<>>
            /\ Len(codec.samples) <= 1 /\ (Len(codec.samples) = 1 => ~Full)
    BY <1>7, <1>8
  <2>6. /\ player' \in Players /\ player'.frames = player.frames /\ player'.gen = player.gen
        /\ Pushed \subseteq Pushed'
        /\ Distinct(codec.held, codec.samples, pending, Out, player.gen, Pushed')
    BY <1>1, <1>3, <2>3, <2>4
  <2> HIDE DEF queue
  <2> QED
    BY <1>1, <1>2, <2>2, <2>5, <2>6, QueueKeepsFrames
<1>10. CASE queue # <<>>
  <2> DEFINE e == Head(queue)
             rest == Tail(queue)
  <2>1. pending' = rest /\ player' = [player EXCEPT !.frames = @ \union {e}]
    BY <1>6, <1>10
  <2>2. /\ Distinct(codec.held, <<>>, rest, Out \union {e}, player.gen, Pushed)
        /\ Len(rest) = Len(queue) - 1
        /\ e \in Decoded /\ e \notin Out /\ e.gen = player.gen /\ e.pts \in Pushed
    BY <1>4, <1>10, TakenDistinct
  <2>3. Len(rest) \in Nat
    BY <2>2, LenProperties DEF Distinct
  <2> HIDE DEF queue, e, rest
  <2>4. /\ player' \in Players /\ player'.frames = player.frames \union {e}
        /\ player'.gen = player.gen /\ player'.next = player.next
    BY <1>1, <2>1, <2>2 DEF Players
  <2>5. Out' = Out \union {e} /\ Pushed' = Pushed
    BY <1>2, <2>4 DEF Out, OutOf, Pushed
  <2>6. CapOf(came) \in Nat /\ (CapOf(came) = 0 => decoder.cap = 0 /\ came = 0)
        /\ (decoder.cap # 0 => CapOf(came) = decoder.cap)
    BY <1>1, <1>4, <1>5, VideoNumbers DEF CapOf
  <2>7. /\ decoder'.open /\ decoder'.open \in BOOLEAN /\ decoder'.cap = CapOf(came)
        /\ decoder'.inFlight = decoder.inFlight + came
        /\ decoder'.since = decoder.since /\ DOMAIN decoder' = DOMAIN Closed
    BY <1>1, <1>6 DEF Counting, Closed
  <2>8. /\ codec'.held = codec.held /\ codec'.samples = <<>> /\ codec'.lane = codec.lane
        /\ DOMAIN codec' = DOMAIN Idle
    BY <1>1, <1>6 DEF Idle
  <2>9. FramesTyped'
    <3>1. decoder'.inFlight \in Int
      BY <1>1, <1>4, <1>5, <2>7
    <3>2. IsFiniteSet(player'.frames)
      <4>1. IsFiniteSet(player.frames \union {e})
        BY <1>1, FS_AddElement
      <4> QED
        BY <2>4, <4>1
    <3>3. decoder'.cap \in Nat /\ decoder'.since \in 0..player'.gen
      BY <1>1, <2>4, <2>6, <2>7
    <3> QED
      BY <1>1, <1>2, <2>4, <2>7, <2>8, <3>1, <3>2, <3>3 DEF FramesTyped
  <2>10. FramesOut'
    <3>1. e \notin Items(Shown(scheduled))
      BY <2>2 DEF Out, OutOf
    <3>2. \A f \in Out \union {e} :
            f.gen <= player.gen /\ (f.gen = player.gen => decoder'.open /\ f.pts \in Pushed)
      BY <1>1, <2>2, <2>7 DEF FramesInv, FramesOut
    <3> QED
      BY <1>2, <2>4, <2>5, <3>1, <3>2 DEF FramesInv, FramesOut
  <2>11. FramesComing'
    BY <2>1, <2>2, <2>4, <2>5, <2>7, <2>8 DEF FramesComing
  <2>12. Booked'
    <3>1. Count(Out, decoder.since) \in Nat
      BY OutIsFinite, CountIsNumber DEF FramesInv
    <3>2. Count(Out \union {e}, decoder.since) = Count(Out, decoder.since) + 1
      <4>1. e.gen >= decoder.since
        BY <1>1, <2>2
      <4> QED
        BY <2>2, <4>1, OutIsFinite, CountOneMore DEF FramesInv
    <3>3. /\ decoder.inFlight = Len(pending) + Count(Out, decoder.since)
          /\ decoder.cap = 0 => decoder.inFlight = 0
          /\ codec.lane = "libvpx" => (decoder.cap # 0 => decoder.inFlight <= decoder.cap)
      BY <1>1 DEF FramesInv, Booked
    <3>4. decoder'.inFlight = Len(rest) + Count(Out \union {e}, decoder.since)
      BY <1>1, <1>4, <1>5, <2>2, <2>3, <2>7, <3>1, <3>2, <3>3
    <3>5. decoder'.cap # 0
      <4> SUFFICES ASSUME decoder.cap = 0, came = 0 PROVE FALSE
        BY <2>6, <2>7
      <4>1. Len(pending) = 0
        BY <1>5, <3>1, <3>3
      <4> QED
        BY <1>5, <2>2, <2>3, <4>1
    <3>6. ASSUME codec.lane = "libvpx" PROVE decoder'.inFlight <= decoder'.cap
      <4>1. came = 0
        BY <1>4, <1>5, <1>8, <3>6
      <4>2. decoder.cap # 0
        BY <2>6, <2>7, <3>5, <4>1 DEF CapOf
      <4> QED
        BY <1>1, <2>6, <2>7, <3>3, <3>6, <4>1, <4>2
    <3> QED
      BY <1>7, <2>1, <2>5, <2>7, <2>8, <3>4, <3>5, <3>6 DEF Booked
  <2> QED
    BY <2>9, <2>10, <2>11, <2>12 DEF FramesInv
<1> QED
  BY <1>9, <1>10

\* The guest drops a frame.
LEMMA DiscardKeepsFrames == FramesInv /\ Discard => FramesInv'
<1> SUFFICES ASSUME FramesInv, Discard PROVE FramesInv'
  OBVIOUS
<1>1. PICK f \in player.frames : player' = [player EXCEPT !.frames = @ \ {f}] /\ Releasing({f})
  BY DEF Discard
<1>2. UNCHANGED <<codec, pending, scheduled, handle, nextId>>
  BY DEF Discard, screen
<1>3. player \in Players /\ IsFiniteSet(player.frames) /\ scheduled \in Seq(Presentations)
  BY DEF FramesInv, FramesTyped
<1>4. /\ player' \in Players /\ player'.gen = player.gen /\ player'.next = player.next
      /\ player'.frames = player.frames \ {f}
  BY <1>1, <1>3 DEF Players
<1>5. IsFiniteSet(player'.frames)
  BY <1>3, <1>4, FS_Subset
<1>6. /\ Apart(Shown(scheduled)) /\ player.frames \intersect Items(Shown(scheduled)) = {}
  BY DEF FramesInv, FramesOut
<1>7. {f} \in SUBSET Out /\ Out' = Out \ {f}
  BY <1>1, <1>2, <1>4, <1>6 DEF Out, OutOf
<1>8. /\ scheduled' \in Seq(Presentations) /\ Apart(Shown(scheduled'))
      /\ player'.frames \intersect Items(Shown(scheduled')) = {}
  BY <1>2, <1>3, <1>4, <1>6
<1> QED
  BY <1>1, <1>2, <1>4, <1>5, <1>7, <1>8, BackKeepsFrames

\* A frame is painted at once, or has its place among the scheduled ones.
LEMMA PresentKeepsFrames == FramesInv /\ Present => FramesInv'
<1> SUFFICES ASSUME FramesInv, Present PROVE FramesInv'
  OBVIOUS
<1> DEFINE sooner(f) == {i \in DOMAIN scheduled : scheduled[i].due <= Ahead(f)}
           entry(f) == [due |-> Ahead(f), surface |-> handle, frame |-> f]
<1>1. PICK f \in player.frames :
        /\ player' = [player EXCEPT !.frames = @ \ {f}]
        /\ IF Ahead(f) = 0
             THEN Releasing({f}) /\ UNCHANGED scheduled
             ELSE /\ scheduled' = InsertAt(scheduled, PartitionPoint(sooner(f)) + 1, entry(f))
                  /\ UNCHANGED decoder
  BY DEF Present
<1>2. UNCHANGED <<codec, pending, handle, nextId>>
  BY DEF Present
<1>3. /\ player \in Players /\ IsFiniteSet(player.frames) /\ scheduled \in Seq(Presentations)
      /\ handle \in Nat /\ nextId \in Nat
  BY DEF FramesInv, FramesTyped
<1>4. /\ player' \in Players /\ player'.gen = player.gen /\ player'.next = player.next
      /\ player'.frames = player.frames \ {f}
  BY <1>1, <1>3 DEF Players
<1>5. IsFiniteSet(player'.frames)
  BY <1>3, <1>4, FS_Subset
<1>6. /\ Apart(Shown(scheduled)) /\ player.frames \intersect Items(Shown(scheduled)) = {}
  BY DEF FramesInv, FramesOut
<1>7. CASE Ahead(f) = 0
  <2>1. {f} \in SUBSET Out /\ Out' = Out \ {f}
    BY <1>1, <1>4, <1>6, <1>7 DEF Out, OutOf
  <2>2. /\ scheduled' \in Seq(Presentations) /\ Apart(Shown(scheduled'))
        /\ player'.frames \intersect Items(Shown(scheduled')) = {}
    BY <1>1, <1>3, <1>4, <1>6, <1>7
  <2> QED
    BY <1>1, <1>2, <1>4, <1>5, <1>7, <2>1, <2>2, BackKeepsFrames
<1>8. CASE Ahead(f) # 0
  <2> DEFINE k == PartitionPoint(sooner(f)) + 1
             e == entry(f)
             s == scheduled'
  <2>1. f \in Decoded
    BY <1>3 DEF Players
  <2>2. Ahead(f) \in Nat
    <3>1. f.pts \in Nat /\ player.pos \in Nat
      BY <1>3, <2>1 DEF Decoded, Players
    <3> QED
      BY <3>1 DEF Ahead
  <2>3. e \in Presentations /\ e.frame = f
    BY <1>3, <2>1, <2>2 DEF Presentations
  <2>4. k \in 1..(Len(scheduled) + 1)
    <3>1. sooner(f) \in SUBSET DOMAIN scheduled
      OBVIOUS
    <3> QED
      BY <1>3, <3>1, PointInside
  <2>5. s = InsertAt(scheduled, k, e) /\ UNCHANGED decoder
    BY <1>1, <1>8
  <2> HIDE DEF k, e, s
  <2>6. s \in Seq(Presentations) /\ Len(s) = Len(scheduled) + 1 /\ Opened(scheduled, k, e, s)
    BY <1>3, <2>3, <2>4, <2>5, Inserted
  <2>7. /\ Shown(scheduled) \in Seq(Decoded) /\ Len(Shown(scheduled)) = Len(scheduled)
        /\ Len(scheduled) \in Nat /\ DOMAIN scheduled = 1..Len(scheduled)
        /\ \A i \in DOMAIN scheduled : Shown(scheduled)[i] = scheduled[i].frame
    BY <1>3, ShownItems
  <2>8. /\ Shown(s) \in Seq(Decoded) /\ Len(Shown(s)) = Len(s)
        /\ DOMAIN s = 1..Len(s)
        /\ \A i \in DOMAIN s : Shown(s)[i] = s[i].frame
    BY <2>6, ShownItems
  <2>9. Opened(Shown(scheduled), k, f, Shown(s))
    <3> SUFFICES ASSUME NEW j \in 1..(Len(scheduled) + 1)
                 PROVE  Shown(s)[j] = IF j < k THEN Shown(scheduled)[j]
                                      ELSE IF j = k THEN f ELSE Shown(scheduled)[j - 1]
      BY <2>7 DEF Opened
    <3>1. Shown(s)[j] = s[j].frame
      BY <2>6, <2>8
    <3>2. s[j] = IF j < k THEN scheduled[j] ELSE IF j = k THEN e ELSE scheduled[j - 1]
      BY <2>6 DEF Opened
    <3>3. CASE j < k
      <4>1. j \in DOMAIN scheduled
        BY <2>4, <2>7, <3>3
      <4> QED
        BY <2>7, <3>1, <3>2, <3>3, <4>1
    <3>4. CASE j = k
      <4>1. ~(j < k)
        BY <2>4, <3>4
      <4> QED
        BY <2>3, <3>1, <3>2, <3>4, <4>1
    <3>5. CASE j > k
      <4>1. j - 1 \in DOMAIN scheduled /\ ~(j < k) /\ j # k
        BY <2>4, <2>7, <3>5
      <4> QED
        BY <2>7, <3>1, <3>2, <4>1
    <3> QED
      BY <2>4, <2>7, <3>3, <3>4, <3>5
  <2>10. Items(Shown(s)) = Items(Shown(scheduled)) \union {f} /\ Apart(Shown(s))
    <3> DEFINE a == Shown(scheduled)
               b == Shown(s)
    <3>1. /\ a \in Seq(Decoded) /\ b \in Seq(Decoded) /\ Len(b) = Len(a) + 1
          /\ k \in 1..(Len(a) + 1) /\ Opened(a, k, f, b)
      BY <2>4, <2>6, <2>7, <2>8, <2>9
    <3>2. Apart(a) /\ f \notin Items(a)
      BY <1>1, <1>6
    <3> HIDE DEF a, b
    <3>3. Items(b) = Items(a) \union {f} /\ Apart(b)
      BY <3>1, <3>2, OpenedItems
    <3> QED
      BY <3>3 DEF a, b
  <2>11. Out' = Out /\ Pushed' = Pushed
    <3>1. Out' = (player.frames \ {f}) \union (Items(Shown(scheduled)) \union {f})
      BY <1>4, <2>10 DEF Out, OutOf, s
    <3> QED
      BY <1>1, <1>4, <3>1 DEF Out, OutOf, Pushed
  <2>12. FramesTyped'
    BY <1>2, <1>3, <1>4, <1>5, <2>5, <2>6 DEF FramesInv, FramesTyped, s
  <2>13. FramesOut'
    <3>1. Apart(Shown(scheduled')) /\ Items(Shown(scheduled')) = Items(Shown(scheduled)) \union {f}
      BY <2>10 DEF s
    <3> QED
      BY <1>4, <1>6, <2>5, <2>11, <3>1 DEF FramesInv, FramesOut
  <2>14. FramesComing'
    BY <1>2, <1>4, <2>5, <2>11 DEF FramesInv, FramesComing
  <2>15. Booked'
    BY <1>2, <2>5, <2>11 DEF FramesInv, Booked
  <2> QED
    BY <2>12, <2>13, <2>14, <2>15 DEF FramesInv
<1> QED
  BY <1>7, <1>8

\* The frames of a part of the presentations are that part of their frames.
LEMMA ShownCut ==
    ASSUME NEW s \in Seq(Presentations), NEW n \in 0..Len(s)
    PROVE  /\ SubSeq(s, 1, n) \in Seq(Presentations)
           /\ SubSeq(s, n + 1, Len(s)) \in Seq(Presentations)
           /\ Shown(SubSeq(s, 1, n)) = SubSeq(Shown(s), 1, n)
           /\ Shown(SubSeq(s, n + 1, Len(s))) = SubSeq(Shown(s), n + 1, Len(s))
<1>1. /\ Shown(s) \in Seq(Decoded) /\ Len(Shown(s)) = Len(s)
      /\ Len(s) \in Nat /\ DOMAIN s = 1..Len(s) /\ n \in Nat
      /\ \A i \in DOMAIN s : Shown(s)[i] = s[i].frame
  BY ShownItems
<1> DEFINE a == SubSeq(s, 1, n)
           b == SubSeq(s, n + 1, Len(s))
           t == Shown(s)
           c == SubSeq(t, 1, n)
           d == SubSeq(t, n + 1, Len(s))
<1> HIDE DEF a, b, t, c, d
<1>2. /\ a \in Seq(Presentations) /\ DOMAIN a = 1..n /\ \A i \in 1..n : a[i] = s[i]
      /\ DOMAIN c = 1..n /\ \A i \in 1..n : c[i] = t[i]
  <2>1. t \in Seq(Decoded) /\ Len(t) = Len(s)
    BY <1>1 DEF t
  <2>2. a \in Seq(Presentations) /\ DOMAIN a = 1..n /\ \A i \in 1..n : a[i] = s[i]
    BY <1>1 DEF a
  <2>3. DOMAIN c = 1..n /\ \A i \in 1..n : c[i] = t[i]
    BY <1>1, <2>1 DEF c
  <2> QED
    BY <2>2, <2>3
<1>3. /\ b \in Seq(Presentations) /\ DOMAIN b = 1..(Len(s) - n)
      /\ \A i \in 1..(Len(s) - n) : b[i] = s[n + i]
  BY <1>1, CutEnd DEF b
<1>4. DOMAIN d = 1..(Len(s) - n) /\ \A i \in 1..(Len(s) - n) : d[i] = t[n + i]
  <2>1. t \in Seq(Decoded) /\ Len(t) = Len(s)
    BY <1>1 DEF t
  <2>2. SubSeq(t, n + 1, Len(t)) = d
    BY <2>1 DEF d
  <2> QED
    BY <1>1, <2>1, <2>2, CutEnd
<1>5. \A i \in 1..Len(s) : t[i] = s[i].frame
  BY <1>1 DEF t
<1>6. Shown(a) = c
  <2>1. Shown(a) = [i \in 1..n |-> t[i]]
    BY <1>1, <1>2, <1>5 DEF Shown
  <2>2. c = [i \in 1..n |-> t[i]]
    BY <1>2 DEF c
  <2> QED
    BY <2>1, <2>2
<1>7. Shown(b) = d
  <2>1. \A i \in 1..(Len(s) - n) : n + i \in 1..Len(s)
    BY <1>1
  <2>2. Shown(b) = [i \in 1..(Len(s) - n) |-> t[n + i]]
    BY <1>3, <1>5, <2>1 DEF Shown
  <2>3. d = [i \in 1..(Len(s) - n) |-> t[n + i]]
    BY <1>4 DEF d
  <2> QED
    BY <2>2, <2>3
<1> QED
  BY <1>2, <1>3, <1>6, <1>7 DEF a, b, c, d, t

\* The due frames leave the queue: one of them is painted, all are released.
LEMMA CompositeKeepsFrames == FramesInv /\ Composite => FramesInv'
<1> SUFFICES ASSUME FramesInv, Composite PROVE FramesInv'
  OBVIOUS
<1> DEFINE n == DueCount
           rest == SubSeq(scheduled, n + 1, Len(scheduled))
<1>1. scheduled' = rest /\ Releasing({Due[i].frame : i \in DOMAIN Due})
  BY DEF Composite
<1>2. UNCHANGED <<codec, player, pending, handle, nextId>>
  BY DEF Composite
<1>3. player \in Players /\ IsFiniteSet(player.frames) /\ scheduled \in Seq(Presentations)
  BY DEF FramesInv, FramesTyped
<1>4. n \in 0..Len(scheduled)
  <2>1. {i \in DOMAIN scheduled : scheduled[i].due = 0} \in SUBSET DOMAIN scheduled
    OBVIOUS
  <2> QED
    BY <1>3, <2>1, PointInside DEF DueCount
<1>5. /\ rest \in Seq(Presentations) /\ Shown(Due) = SubSeq(Shown(scheduled), 1, n)
      /\ Shown(rest) = SubSeq(Shown(scheduled), n + 1, Len(scheduled))
  BY <1>3, <1>4, ShownCut DEF Due
<1>6. /\ Apart(Shown(scheduled)) /\ player.frames \intersect Items(Shown(scheduled)) = {}
  BY DEF FramesInv, FramesOut
<1>7. Shown(scheduled) \in Seq(Decoded) /\ Len(Shown(scheduled)) = Len(scheduled)
  BY <1>3, ShownItems
<1> DEFINE back == Items(Shown(Due))
<1> HIDE DEF n, rest
<1>8. /\ Apart(Shown(rest)) /\ Items(Shown(rest)) = Items(Shown(scheduled)) \ back
      /\ back \subseteq Items(Shown(scheduled))
  <2> DEFINE t == Shown(scheduled)
  <2>1. t \in Seq(Decoded) /\ n \in 0..Len(t) /\ Apart(t) /\ Len(t) = Len(scheduled)
    BY <1>4, <1>6, <1>7
  <2>2. Shown(Due) = SubSeq(t, 1, n) /\ Shown(rest) = SubSeq(t, n + 1, Len(t))
    BY <1>5, <2>1
  <2> HIDE DEF t
  <2>3. /\ Apart(SubSeq(t, n + 1, Len(t))) /\ Items(SubSeq(t, 1, n)) \subseteq Items(t)
        /\ Items(SubSeq(t, n + 1, Len(t))) = Items(t) \ Items(SubSeq(t, 1, n))
    BY <2>1, CutItems
  <2> QED
    BY <2>2, <2>3 DEF t
<1>9. {Due[i].frame : i \in DOMAIN Due} = back
  BY DEF Shown, Items
<1> HIDE DEF back
<1>10. back \in SUBSET Out /\ Out' = Out \ back
  BY <1>1, <1>2, <1>6, <1>8 DEF Out, OutOf
<1>11. /\ scheduled' \in Seq(Presentations) /\ Apart(Shown(scheduled'))
       /\ player'.frames \intersect Items(Shown(scheduled')) = {}
  BY <1>1, <1>2, <1>5, <1>6, <1>8
<1>12. /\ player' \in Players /\ player'.gen = player.gen /\ player'.next = player.next
       /\ IsFiniteSet(player'.frames)
  BY <1>2, <1>3
<1> QED
  BY <1>1, <1>2, <1>9, <1>10, <1>11, <1>12, BackKeepsFrames

-----------------------------------------------------------------------------
(* The books are right.                                                    *)

\* At first there is no frame.
LEMMA FramesStart == Init => FramesInv
<1> SUFFICES ASSUME Init PROVE FramesInv
  OBVIOUS
<1>1. /\ decoder = Closed /\ codec = Idle /\ player = Stopped /\ pending = <<>> /\ scheduled = <<>>
      /\ handle = 0 /\ nextId = 1
  BY DEF Init
<1>2. Shown(scheduled) = <<>> /\ Items(Shown(scheduled)) = {} /\ Apart(Shown(scheduled))
  BY <1>1 DEF Shown, Items, Apart
<1>3. player.frames = {} /\ player.gen = 0 /\ player \in Players
  BY <1>1 DEF Stopped, Players
<1>4. Out = {}
  BY <1>2, <1>3 DEF Out, OutOf
<1>5. FramesTyped
  <2>1. /\ decoder.open \in BOOLEAN /\ decoder.cap \in Nat /\ decoder.inFlight \in Int
        /\ decoder.since \in 0..player.gen
    BY <1>1, <1>3 DEF Closed
  <2>2. scheduled \in Seq(Presentations)
    BY <1>1, EmptySeq
  <2>3. IsFiniteSet(player.frames)
    BY <1>3, FS_EmptySet
  <2>4. /\ DOMAIN decoder = DOMAIN Closed /\ DOMAIN codec = DOMAIN Idle
        /\ handle \in Nat /\ nextId \in Nat
    BY <1>1
  <2> QED
    BY <1>3, <2>1, <2>2, <2>3, <2>4 DEF FramesTyped
<1>6. FramesOut
  BY <1>2, <1>3, <1>4 DEF FramesOut
<1>7. FramesComing
  BY <1>1, NothingComes DEF FramesComing, Idle
<1>8. Booked
  BY <1>1 DEF Booked, Closed
<1> QED
  BY <1>5, <1>6, <1>7, <1>8 DEF FramesInv

\* Every step keeps the frames where they belong, and the books right.
LEMMA FramesStep == FramesInv /\ [Next]_vars => FramesInv'
<1> SUFFICES ASSUME FramesInv, [Next]_vars PROVE FramesInv'
  OBVIOUS
<1>1. CASE UNCHANGED vars
  <2>1. handle \in Nat /\ nextId \in Nat
    BY DEF FramesInv, FramesTyped
  <2>2. /\ UNCHANGED <<codec, player, pending, scheduled>> /\ handle' \in Nat /\ nextId' \in Nat
        /\ decoder' = decoder
    BY <1>1, <2>1 DEF vars
  <2> QED
    BY <2>2, SameFrames
<1>2. CASE Playback
  BY <1>2, StreamKeepsFrames, SubmitKeepsFrames, FinishKeepsFrames, TakeKeepsFrames,
     ScreenKeepsFrames, PresentKeepsFrames, DiscardKeepsFrames, CompositeKeepsFrames,
     TickKeepsFrames DEF Playback
<1>3. CASE (\E accel \in Accels : Open(accel)) \/ Seek \/ Close \/ DropSurface \/ Attach
  BY <1>3, OpenKeepsFrames, SeekKeepsFrames, CloseKeepsFrames, ScreenKeepsFrames
<1> QED
  BY <1>1, <1>2, <1>3 DEF Next

\* Those the guest holds and those it scheduled, counted apart.
LEMMA OutIsBoth ==
    ASSUME FramesInv, NEW since
    PROVE  Count(Out, since) = Count(player.frames, since)
               + Cardinality({i \in DOMAIN scheduled : scheduled[i].frame.gen >= since})
<1>1. /\ IsFiniteSet(player.frames) /\ IsFiniteSet(Out)
      /\ scheduled \in Seq(Presentations) /\ Apart(Shown(scheduled))
      /\ player.frames \intersect Items(Shown(scheduled)) = {}
  BY OutIsFinite DEF FramesInv, FramesTyped, FramesOut
<1>2. /\ Out \ player.frames = Items(Shown(scheduled))
      /\ player.frames \in SUBSET Out
  BY <1>1 DEF Out, OutOf
<1>3. /\ Count(Out \ player.frames, since) = Count(Out, since) - Count(player.frames, since)
      /\ Count(player.frames, since) \in Nat
  BY <1>1, <1>2, CountBack
<1>4. Cardinality({i \in DOMAIN scheduled : scheduled[i].frame.gen >= since})
        = Count(Out \ player.frames, since)
  BY <1>1, <1>2, CountShown
<1>5. Count(Out, since) \in Nat
  BY <1>1, CountIsNumber
<1> QED
  BY <1>3, <1>4, <1>5

\* The number of frames in flight is the number of frames the decoder has out or in
\* its buffer, through seeks, drops, frames that cannot be read and frames that
\* outlive their decoder; back-pressure keeps a software decoder within its budget.
THEOREM FramesAreBooked == HostSpec => []InFlightCounted
<1>1. FramesInv => InFlightCounted
  <2> SUFFICES ASSUME FramesInv PROVE InFlightCounted
    OBVIOUS
  <2>1. ASSUME decoder.open
        PROVE  decoder.inFlight =
                 Len(pending) + Cardinality({f \in player.frames : Owned(f)})
                 + Cardinality({i \in DOMAIN scheduled : Owned(scheduled[i].frame)})
    <3>1. Cardinality({f \in player.frames : Owned(f)}) = Count(player.frames, decoder.since)
      BY <2>1 DEF Owned, Count
    <3>2. {i \in DOMAIN scheduled : Owned(scheduled[i].frame)}
            = {i \in DOMAIN scheduled : scheduled[i].frame.gen >= decoder.since}
      BY <2>1 DEF Owned
    <3>3. decoder.inFlight = Len(pending) + Count(Out, decoder.since)
      BY <2>1 DEF FramesInv, Booked
    <3>4. Count(Out, decoder.since) = Count(player.frames, decoder.since)
            + Cardinality({i \in DOMAIN scheduled : scheduled[i].frame.gen >= decoder.since})
      BY OutIsBoth
    <3> DEFINE a == Count(player.frames, decoder.since)
               b == Cardinality({i \in DOMAIN scheduled : scheduled[i].frame.gen >= decoder.since})
    <3>5. Len(pending) \in Nat /\ Count(Out, decoder.since) \in Nat /\ a \in Nat
      <4>1. pending \in Seq(Decoded) /\ IsFiniteSet(player.frames) /\ IsFiniteSet(Out)
        BY OutIsFinite DEF FramesInv, FramesTyped, FramesComing, Distinct
      <4> QED
        BY <4>1, LenProperties, CountIsNumber
    <3>6. b \in Nat
      <4>1. Shown(scheduled) \in Seq(Decoded) /\ IsFiniteSet(Items(Shown(scheduled)))
        BY ShownItems DEF FramesInv, FramesTyped
      <4>2. b = Count(Items(Shown(scheduled)), decoder.since)
        BY CountShown DEF FramesInv, FramesTyped, FramesOut
      <4> QED
        BY <4>1, <4>2, CountIsNumber
    <3> HIDE DEF a, b
    <3>7. decoder.inFlight = Len(pending) + a + b
      BY <3>3, <3>4, <3>5, <3>6 DEF a, b
    <3> QED
      BY <3>1, <3>2, <3>7 DEF a, b
  <2>2. InFlightIsExact
    BY <2>1 DEF InFlightIsExact
  <2>3. SoftwareStaysInBudget
    BY DEF SoftwareStaysInBudget, FramesInv, Booked
  <2> QED
    BY <2>2, <2>3 DEF InFlightCounted
<1> QED
  BY <1>1, FramesStart, FramesStep, PartsRun, PTL DEF Spec

-----------------------------------------------------------------------------
(* A call's encoder.                                                       *)

Chunks == [seq : Nat, key : BOOLEAN]

\* Pictures come in order and each is sent at most once; a keyframe that was asked
\* for is still forced; a caller that is gone has joined its thread.
CallInv ==
    /\ shot \in Nat /\ latest \in Nat /\ lastSeq \in Nat /\ chunk \in Chunks
    /\ force \in BOOLEAN /\ asked \in BOOLEAN
    /\ latest <= shot /\ lastSeq <= shot /\ chunk.seq <= lastSeq
    /\ latest = 0 \/ lastSeq < latest
    /\ asked => force
    /\ caller = "closed" => thread \in {"none", "gone"}

\* A step keeps the numbers in order, and a caller's next chunk is a newer one, a
\* keyframe if one was asked for.
LEMMA CallStep ==
    ASSUME CallInv, [Call!Next]_(Call!vars)
    PROVE  CallInv' /\ (chunk' # chunk /\ caller' = caller
                          => chunk'.seq > chunk.seq /\ (asked => chunk'.key))
<1>1. CASE Call!Open
  <2>1. chunk' = [seq |-> 0, key |-> FALSE] /\ caller' # caller /\ caller' = "open"
        /\ shot' = 0 /\ latest' = 0 /\ lastSeq' = 0
        /\ force' \in BOOLEAN /\ asked' \in BOOLEAN /\ ~asked'
    BY <1>1 DEF Call!Open, Call!NoChunk
  <2>2. chunk' \in Chunks /\ chunk'.seq = 0
    BY <2>1 DEF Chunks
  <2> QED
    BY <2>1, <2>2 DEF CallInv
<1>2. CASE Call!RequestKeyframe
  BY <1>2 DEF CallInv, Call!RequestKeyframe
<1>3. CASE Call!NextChunk
  <2>1. PICK ok \in BOOLEAN, ownKey \in BOOLEAN :
           LET key == force \/ ownKey \/ chunk = Call!NoChunk
           IN  /\ force' = (~ok /\ force)
               /\ chunk' = IF ok THEN [seq |-> latest, key |-> key] ELSE chunk
               /\ asked' = (asked /\ ~(ok /\ key))
    BY <1>3 DEF Call!NextChunk, Call!Restored
  <2> DEFINE key == force \/ ownKey \/ chunk = Call!NoChunk
  <2>2. /\ latest # 0 /\ latest' = 0 /\ lastSeq' = latest /\ key \in BOOLEAN
        /\ UNCHANGED <<caller, thread, shot>> /\ (force => key)
    BY <1>3 DEF Call!NextChunk, Call!Taken, CallInv
  <2>3. CASE ok
    <3>1. /\ force' = FALSE /\ chunk' = [seq |-> latest, key |-> key]
          /\ asked' = (asked /\ ~key)
      BY <2>1, <2>3
    <3> HIDE DEF key
    <3>2. chunk'.seq = latest /\ chunk'.key = key /\ chunk' \in Chunks
      BY <2>2, <3>1 DEF CallInv, Chunks
    <3>3. /\ force' \in BOOLEAN /\ asked' \in BOOLEAN /\ ~asked'
          /\ asked => chunk'.key
      BY <2>2, <3>1, <3>2, Zenon DEF CallInv
    <3>4. /\ latest \in Nat /\ latest <= shot /\ lastSeq < latest /\ chunk.seq <= lastSeq
          /\ lastSeq \in Nat /\ chunk.seq \in Nat /\ shot \in Nat
          /\ caller = "closed" => thread \in {"none", "gone"}
      BY <2>2 DEF CallInv, Chunks
    <3> HIDE DEF CallInv
    <3>5. CallInv'
      BY <2>2, <3>2, <3>3, <3>4 DEF CallInv
    <3>6. chunk'.seq > chunk.seq
      BY <3>2, <3>4
    <3> QED
      BY <3>3, <3>5, <3>6
  <2>4. CASE ~ok
    <3>1. chunk' = chunk /\ force' = force /\ asked' = asked
      BY <2>1, <2>4 DEF CallInv
    <3>2. force' \in BOOLEAN /\ asked' \in BOOLEAN /\ (asked' => force')
      BY <3>1, Zenon DEF CallInv
    <3>3. /\ latest <= shot /\ shot \in Nat /\ latest \in Nat /\ chunk' \in Chunks
          /\ chunk'.seq <= lastSeq /\ lastSeq < latest /\ lastSeq \in Nat
          /\ caller = "closed" => thread \in {"none", "gone"}
      BY <2>2, <3>1 DEF CallInv
    <3>4. chunk'.seq \in Nat
      BY <3>3 DEF Chunks
    <3> HIDE DEF CallInv
    <3>5. CallInv'
      BY <2>2, <3>2, <3>3, <3>4 DEF CallInv
    <3> QED
      BY <3>1, <3>5
  <2> QED
    BY <2>3, <2>4
<1>4. CASE Call!DropBegins
  BY <1>4 DEF CallInv, Call!DropBegins
<1>5. CASE Call!DropEnds
  BY <1>5 DEF CallInv, Call!DropEnds, Call!Joined
<1>6. CASE Call!Poll
  BY <1>6 DEF CallInv, Call!Poll
<1>7. CASE Call!Captured
  BY <1>7 DEF CallInv, Call!Captured
<1>8. CASE UNCHANGED Call!vars
  BY <1>8 DEF CallInv, Call!vars
<1> QED
  BY <1>1, <1>2, <1>3, <1>4, <1>5, <1>6, <1>7, <1>8 DEF Call!Next, Call!CaptureThread

\* A caller gets ever newer pictures, the keyframe it asked for before any other
\* chunk, and leaves no camera behind, for any number of pictures and calls.
THEOREM CallsAreServed == HostSpec => CallIsServed
<1>1. Call!Init => CallInv
  <2> SUFFICES ASSUME Call!Init PROVE CallInv
    OBVIOUS
  <2>1. chunk \in Chunks /\ chunk.seq = 0
    BY DEF Call!Init, Call!NoChunk, Chunks
  <2>2. shot = 0 /\ latest = 0 /\ lastSeq = 0 /\ thread = "none"
    BY DEF Call!Init
  <2>3. force \in BOOLEAN /\ asked \in BOOLEAN /\ ~asked
    BY Zenon DEF Call!Init
  <2> QED
    BY <2>1, <2>2, <2>3 DEF CallInv
<1>2. CallInv /\ [Call!Next]_(Call!vars) => CallInv'
  BY CallStep
<1>3. CallInv /\ [Call!Next]_(Call!vars) =>
         [(chunk' # chunk /\ caller' = caller)
            => /\ chunk'.seq > chunk.seq
               /\ asked => chunk'.key]_(Call!vars)
  BY CallStep
<1>4. CallInv => Call!CameraIsReleased
  BY DEF CallInv, Call!CameraIsReleased
<1> QED
  BY <1>1, <1>2, <1>3, <1>4, PartsRun, PTL
     DEF Call!Spec, CallIsServed, Call!ChunksServeTheCall

-----------------------------------------------------------------------------
(* The codec's buffers.                                                    *)

Held == [dec : Nat, idx : Outputs, nth : Nat, stale : BOOLEAN]
Pools == [inputs : Int, queue : Seq({"frame", "eos"}),
          out : [Outputs -> {"free", "frame", "eos", "client"}]]

\* A frame taken since the codec had its buffers last.
Current(f) == f.dec = dec.born /\ ~f.stale

\* A frame's codec is the open one or one before it, and only the open one can be
\* asked.  What is out a current frame names; and unless the codec has taken back
\* what the guest still held, every frame of it is current, and names a buffer of
\* its own that is out.
BufferInv ==
    /\ frames \subseteq Held /\ pool \in Pools
    /\ dec.born \in Nat /\ dec.open \in BOOLEAN /\ dec.kept \in BOOLEAN
    /\ DOMAIN dec = DOMAIN Phone!NoDecoder
    /\ alive = IF dec.open THEN {dec.born} ELSE {}
    /\ \A f \in frames : f.dec <= dec.born
    /\ \A i \in Outputs :
         pool.out[i] = "client" => dec.open /\ \E f \in frames : Current(f) /\ f.idx = i
    /\ dec.open /\ ~dec.kept =>
         \A f \in Phone!Mine :
           /\ ~f.stale /\ pool.out[f.idx] = "client"
           /\ \A g \in Phone!Mine : g.idx = f.idx => g = f

\* A fresh pool has nothing out.
LEMMA FreshPool ==
    /\ Phone!Fresh \in Pools
    /\ \A i \in Outputs : Phone!Fresh.out[i] = "free"
<1>1. Inputs \in Nat
  BY Constants DEF Phone!ConstantsOK
<1>2. <<>> \in Seq({"frame", "eos"})
  OBVIOUS
<1> QED
  BY <1>1, <1>2 DEF Phone!Fresh, Pools

\* A chunk goes in: an input buffer less, and another queue.
LEMMA PoolMoved ==
    ASSUME pool \in Pools, NEW queue \in Seq({"frame", "eos"})
    PROVE  LET moved == [pool EXCEPT !.inputs = @ - 1, !.queue = queue]
           IN  moved \in Pools /\ moved.out = pool.out
<1>1. PICK n \in Int : n = pool.inputs - 1
  BY DEF Pools
<1>2. /\ [pool EXCEPT !.inputs = n, !.queue = queue] \in Pools
      /\ [pool EXCEPT !.inputs = n, !.queue = queue].out = pool.out
  BY DEF Pools
<1> QED
  BY <1>1, <1>2

\* The codec takes every buffer back: nothing is out, and what frames the guest
\* has it has kept.
LEMMA TakenBack ==
    ASSUME BufferInv, Phone!TakesBack, alive' = alive, dec'.open = dec.open,
           dec'.born = dec.born, DOMAIN dec' = DOMAIN dec,
           dec'.kept = (dec.kept \/ Phone!Mine # {})
    PROVE  BufferInv'
<1>1. pool' \in Pools /\ \A i \in Outputs : pool'.out[i] = "free"
  BY FreshPool DEF Phone!TakesBack
<1>2. ASSUME NEW f \in frames'
      PROVE  \E g \in frames : f.dec = g.dec /\ f \in Held /\ (g \notin Phone!Mine => f = g)
  <2>1. PICK g \in frames : f = IF g \in Phone!Mine THEN [g EXCEPT !.stale = TRUE] ELSE g
    BY <1>2 DEF Phone!TakesBack, Phone!Outdated
  <2>2. g \in Held
    BY DEF BufferInv
  <2>3. [g EXCEPT !.stale = TRUE] \in Held /\ [g EXCEPT !.stale = TRUE].dec = g.dec
    BY <2>2 DEF Held
  <2> QED
    BY <2>1, <2>2, <2>3
<1>3. frames' \subseteq Held /\ \A f \in frames' : f.dec <= dec'.born
  BY <1>2 DEF BufferInv
<1>4. dec'.kept \in BOOLEAN /\ (~dec'.kept => Phone!Mine = {})
  BY DEF BufferInv
<1>5. ~dec'.kept => Phone!Mine' = {}
  BY <1>2, <1>4 DEF Phone!Mine
<1> QED
  BY <1>1, <1>3, <1>4, <1>5 DEF BufferInv, Phone!NoDecoder

\* Giving a frame back, by dropping or by presenting it.
LEMMA Released ==
    ASSUME BufferInv, NEW f \in frames, Phone!Release(f), UNCHANGED <<dec, alive>>
    PROVE  BufferInv'
<1>1. /\ f \in Held /\ f.idx \in Outputs /\ frames' = frames \ {f}
      /\ frames' \subseteq Held /\ \A g \in frames' : g.dec <= dec.born
      /\ Phone!Mine' = Phone!Mine \ {f}
  BY DEF BufferInv, Held, Phone!Release, Phone!Mine
<1>2. CASE Phone!Releases(f)
  <2>1. pool' = [pool EXCEPT !.out[f.idx] = "free"] /\ dec.open /\ f \in Phone!Mine
    BY <1>2 DEF Phone!Release, Phone!Releases, BufferInv, Phone!Mine
  <2>2. /\ pool' \in Pools
        /\ \A i \in Outputs : pool'.out[i] = IF i = f.idx THEN "free" ELSE pool.out[i]
    BY <2>1, <1>1 DEF BufferInv, Pools
  <2>3. ASSUME NEW i \in Outputs, pool'.out[i] = "client"
        PROVE  \E g \in frames' : Current(g) /\ g.idx = i
    BY <1>1, <2>2, <2>3 DEF BufferInv
  <2>4. ASSUME ~dec.kept, NEW g \in Phone!Mine'
        PROVE  /\ ~g.stale /\ pool'.out[g.idx] = "client"
               /\ \A h \in Phone!Mine' : h.idx = g.idx => h = g
    <3>1. g \in Phone!Mine /\ g # f /\ g.idx # f.idx
      BY <1>1, <2>1, <2>4 DEF BufferInv
    <3>2. g.idx \in Outputs
      BY <3>1 DEF Phone!Mine, BufferInv, Held
    <3> QED
      BY <1>1, <2>1, <2>2, <2>4, <3>1, <3>2 DEF BufferInv
  <2> QED
    BY <1>1, <2>1, <2>2, <2>3, <2>4 DEF BufferInv, Current, Phone!NoDecoder
<1>3. CASE ~Phone!Releases(f)
  <2>1. pool' = pool
    BY <1>3 DEF Phone!Release
  <2>2. ASSUME NEW i \in Outputs, pool.out[i] = "client"
        PROVE  \E g \in frames' : Current(g) /\ g.idx = i
    <3>1. PICK g \in frames : Current(g) /\ g.idx = i /\ dec.open
      BY <2>2 DEF BufferInv
    <3>2. g # f
      BY <1>3, <2>2, <3>1 DEF Phone!Releases, Current, BufferInv
    <3> QED
      BY <1>1, <3>1, <3>2
  <2> QED
    BY <1>1, <2>1, <2>2 DEF BufferInv, Current, Phone!NoDecoder
<1> QED
  BY <1>2, <1>3

\* A step that gives out nothing and takes nothing back.
LEMMA SameOut ==
    ASSUME BufferInv, UNCHANGED <<dec, alive, frames>>, pool' \in Pools,
           \A i \in Outputs : pool'.out[i] = "client" <=> pool.out[i] = "client"
    PROVE  BufferInv'
<1>1. \A f \in Phone!Mine : f.idx \in Outputs
  BY DEF BufferInv, Held, Phone!Mine
<1> QED
  BY <1>1 DEF BufferInv, Current, Phone!Mine, Phone!NoDecoder

\* A step keeps the buffers with who has them.
LEMMA BufferStep == BufferInv /\ [Phone!Next]_(Phone!vars) => BufferInv'
<1> SUFFICES ASSUME BufferInv, [Phone!Next]_(Phone!vars) PROVE BufferInv'
  OBVIOUS
<1> USE DEF Phone!codecVars
<1>1. ASSUME UNCHANGED <<dec, alive, pool, frames>> PROVE BufferInv'
  BY <1>1 DEF BufferInv, Current, Phone!Mine, Phone!NoDecoder
<1>2. ASSUME NEW deg \in Turns, Phone!Turn(deg) PROVE BufferInv'
  BY <1>1, <1>2 DEF Phone!Turn
<1>3. ASSUME NEW r, NEW cvo, NEW id,
             Phone!OpenSurface(r, cvo) \/ Phone!Move(id, r, cvo) \/ Phone!DropSurface(id)
      PROVE  BufferInv'
  BY <1>1, <1>3 DEF Phone!OpenSurface, Phone!Move, Phone!DropSurface
<1>4. ASSUME NEW r, NEW sensor,
             Phone!EncOpen(r, sensor) \/ Phone!EncNext \/ Phone!EncMove(r) \/ Phone!EncClose
      PROVE  BufferInv'
  BY <1>1, <1>4 DEF Phone!EncOpen, Phone!EncNext, Phone!EncMove, Phone!EncClose
\* Steps of the codec.
<1>5. ASSUME NEW id \in handles, Phone!Attach(id) PROVE BufferInv'
  <2> DEFINE bound == [dec EXCEPT !.attached = id]
             restarted == [bound EXCEPT !.ended = FALSE, !.kept = dec.kept \/ Phone!Mine # {}]
  <2>1. alive' = alive
        /\ \/ dec' = bound /\ UNCHANGED <<pool, frames>>
           \/ /\ dec' \in {[restarted EXCEPT !.slot = registry[id].slot, !.started = TRUE],
                           [restarted EXCEPT !.started = FALSE]}
              /\ Phone!TakesBack
    BY <1>5 DEF Phone!Attach
  <2>2. CASE dec' = bound /\ UNCHANGED <<pool, frames>>
    <3>1. /\ dec'.open = dec.open /\ dec'.born = dec.born /\ dec'.kept = dec.kept
          /\ DOMAIN dec' = DOMAIN Phone!NoDecoder
      BY <2>2 DEF BufferInv, Phone!NoDecoder
    <3> QED
      BY <2>1, <2>2, <3>1 DEF BufferInv, Current, Phone!Mine, Phone!NoDecoder
  <2>3. CASE /\ dec' \in {[restarted EXCEPT !.slot = registry[id].slot, !.started = TRUE],
                           [restarted EXCEPT !.started = FALSE]}
             /\ Phone!TakesBack
    <3>1. PICK kept : kept = (dec.kept \/ Phone!Mine # {})
      OBVIOUS
    <3>2. /\ dec'.open = dec.open /\ dec'.born = dec.born /\ dec'.kept = kept
          /\ DOMAIN dec' = DOMAIN dec
      BY <2>3, <3>1 DEF BufferInv, Phone!NoDecoder
    <3> QED
      BY <2>1, <2>3, <3>1, <3>2, TakenBack
  <2> QED
    BY <2>1, <2>2, <2>3
<1>6. CASE Phone!Open
  <2>1. /\ dec'.open = TRUE /\ dec'.born = dec.born + 1 /\ dec'.kept = FALSE
        /\ DOMAIN dec' = DOMAIN Phone!NoDecoder
    BY <1>6 DEF Phone!Open, Phone!NoDecoder
  <2>2. alive' = {dec.born + 1} /\ pool' = Phone!Fresh /\ frames' = frames
    BY <1>6 DEF Phone!Open, BufferInv
  <2>3. \A f \in frames : f.dec <= dec.born + 1 /\ f.dec # dec.born + 1
    BY DEF BufferInv, Held
  <2>4. dec.born + 1 \in Nat /\ frames \subseteq Held
    BY DEF BufferInv
  <2>5. Phone!Mine' = {}
    BY <2>1, <2>2, <2>3 DEF Phone!Mine
  <2> QED
    BY <2>1, <2>2, <2>3, <2>4, <2>5, FreshPool DEF BufferInv, Phone!NoDecoder
<1>7. CASE Phone!Close
  <2>1. /\ dec'.open = FALSE /\ dec'.born = dec.born /\ dec'.kept = FALSE
        /\ DOMAIN dec' = DOMAIN Phone!NoDecoder
    BY <1>7 DEF Phone!Close, Phone!NoDecoder
  <2>2. alive' = {} /\ pool' = Phone!Fresh /\ frames' = frames
    BY <1>7 DEF Phone!Close, Phone!Killed, BufferInv
  <2> QED
    BY <2>1, <2>2, FreshPool DEF BufferInv, Phone!NoDecoder
<1>8. CASE Phone!Reset
  <2>1. PICK kept : kept = (dec.kept \/ Phone!Mine # {})
    OBVIOUS
  <2>2. /\ dec'.open = dec.open /\ dec'.born = dec.born /\ dec'.kept = kept
        /\ DOMAIN dec' = DOMAIN dec
    BY <1>8, <2>1 DEF Phone!Reset, BufferInv, Phone!NoDecoder
  <2> QED
    BY <1>8, <2>1, <2>2, TakenBack DEF Phone!Reset
<1>9. ASSUME NEW size, Phone!Submit(size) PROVE BufferInv'
  <2>1. pool' \in Pools /\ pool'.out = pool.out /\ UNCHANGED <<dec, alive, frames>>
    <3>1. PICK queue \in {pool.queue, Append(pool.queue, "frame")} :
             pool' = [pool EXCEPT !.inputs = @ - 1, !.queue = queue]
      BY <1>9, Zenon DEF Phone!Submit
    <3>2. queue \in Seq({"frame", "eos"})
      BY <3>1 DEF BufferInv, Pools
    <3>3. pool' \in Pools /\ pool'.out = pool.out
      BY <3>1, <3>2, PoolMoved DEF BufferInv
    <3> QED
      BY <3>3, <1>9 DEF Phone!Submit
  <2> QED
    BY <2>1 DEF BufferInv, Current, Phone!Mine, Phone!NoDecoder
<1>10. CASE Phone!Finish
  <2>1. pool' \in Pools /\ pool'.out = pool.out /\ UNCHANGED <<alive, frames>>
    <3>1. pool' = [pool EXCEPT !.inputs = @ - 1, !.queue = Append(pool.queue, "eos")]
      BY <1>10, Zenon DEF Phone!Finish
    <3>2. Append(pool.queue, "eos") \in Seq({"frame", "eos"})
      BY DEF BufferInv, Pools
    <3>3. pool' \in Pools /\ pool'.out = pool.out
      BY <3>1, <3>2, PoolMoved DEF BufferInv
    <3> QED
      BY <3>3, <1>10 DEF Phone!Finish
  <2>2. /\ dec'.open = dec.open /\ dec'.born = dec.born /\ dec'.kept = dec.kept
        /\ DOMAIN dec' = DOMAIN Phone!NoDecoder
    BY <1>10 DEF Phone!Finish, BufferInv, Phone!NoDecoder
  <2> QED
    BY <2>1, <2>2 DEF BufferInv, Current, Phone!Mine, Phone!NoDecoder
<1>11. CASE Phone!Decode
  <2>1. PICK i \in Outputs :
           /\ pool.out[i] = "free"
           /\ pool' = [inputs |-> pool.inputs + 1, queue |-> Tail(pool.queue),
                       out |-> [pool.out EXCEPT ![i] = Head(pool.queue)]]
    BY <1>11 DEF Phone!Decode
  <2>2. Head(pool.queue) \in {"frame", "eos"} /\ Tail(pool.queue) \in Seq({"frame", "eos"})
    BY <1>11 DEF Phone!Decode, BufferInv, Pools
  <2>3. /\ pool' \in Pools
        /\ \A j \in Outputs : pool'.out[j] = "client" <=> pool.out[j] = "client"
    BY <2>1, <2>2 DEF BufferInv, Pools
  <2> QED
    BY <2>3, <1>11, SameOut DEF Phone!Decode
<1>12. CASE Phone!Take
  <2>1. PICK i \in Outputs :
           \/ /\ pool.out[i] = "frame"
              /\ pool' = [pool EXCEPT !.out[i] = "client"]
              /\ \E n \in Phone!Unused(i) :
                   frames' = frames \cup
                     {[dec |-> dec.born, idx |-> i, nth |-> n, stale |-> FALSE]}
           \/ /\ pool.out[i] = "eos"
              /\ pool' = [pool EXCEPT !.out[i] = "free"]
              /\ UNCHANGED frames
    BY <1>12 DEF Phone!Take, Phone!Recycled
  <2>2. dec.open /\ UNCHANGED <<dec, alive>>
    BY <1>12 DEF Phone!Take
  <2>3. CASE pool.out[i] = "frame"
    <3>1. PICK n \in Phone!Unused(i) :
             /\ pool' = [pool EXCEPT !.out[i] = "client"]
             /\ frames' = frames \cup
                  {[dec |-> dec.born, idx |-> i, nth |-> n, stale |-> FALSE]}
      BY <2>1, <2>3
    <3> DEFINE new == [dec |-> dec.born, idx |-> i, nth |-> n, stale |-> FALSE]
    <3>2. /\ new \in Held /\ new.dec = dec.born /\ new.idx = i /\ ~new.stale
          /\ frames' = frames \cup {new}
      BY <3>1 DEF BufferInv, Held, Phone!Unused
    <3> HIDE DEF new
    <3>3. /\ pool' \in Pools
          /\ \A j \in Outputs : pool'.out[j] = IF j = i THEN "client" ELSE pool.out[j]
      BY <3>1 DEF BufferInv, Pools
    <3>4. /\ frames' \subseteq Held /\ Phone!Mine' = Phone!Mine \cup {new}
          /\ \A f \in frames' : f.dec <= dec.born
      BY <2>2, <3>2 DEF BufferInv, Phone!Mine
    <3>5. ASSUME NEW j \in Outputs, pool'.out[j] = "client"
          PROVE  \E f \in frames' : Current(f) /\ f.idx = j
      <4>1. CASE j = i
        BY <3>2, <4>1 DEF Current
      <4>2. CASE j # i
        BY <3>2, <3>3, <3>5, <4>2 DEF BufferInv
      <4> QED
        BY <4>1, <4>2
    <3>6. ASSUME ~dec.kept, NEW f \in Phone!Mine'
          PROVE  /\ ~f.stale /\ pool'.out[f.idx] = "client"
                 /\ \A g \in Phone!Mine' : g.idx = f.idx => g = f
      <4>1. ASSUME NEW g \in Phone!Mine PROVE /\ g.idx \in Outputs /\ g.idx # i /\ ~g.stale
                                             /\ pool.out[g.idx] = "client"
        BY <2>2, <2>3, <3>6 DEF BufferInv, Held, Phone!Mine
      <4>2. \A g, h \in Phone!Mine : g.idx = h.idx => g = h
        BY <2>2, <3>6 DEF BufferInv
      <4> QED
        BY <3>2, <3>3, <3>4, <4>1, <4>2
    <3>7. \A j \in Outputs :
            pool'.out[j] = "client"
              => dec'.open /\ \E f \in frames' : (f.dec = dec'.born /\ ~f.stale) /\ f.idx = j
      BY <2>2, <3>5 DEF Current
    <3>8. /\ dec'.born \in Nat /\ dec'.open \in BOOLEAN /\ dec'.kept \in BOOLEAN
          /\ alive' = (IF dec'.open THEN {dec'.born} ELSE {})
          /\ DOMAIN dec' = DOMAIN Phone!NoDecoder
      BY <2>2 DEF BufferInv
    <3>9. \A f \in frames' : f.dec <= dec'.born
      BY <2>2, <3>4
    <3> QED
      BY <2>2, <3>3, <3>4, <3>6, <3>7, <3>8, <3>9 DEF BufferInv, Current, Phone!NoDecoder
  <2>4. CASE pool.out[i] # "frame"
    <3>1. pool.out[i] = "eos" /\ pool' = [pool EXCEPT !.out[i] = "free"] /\ UNCHANGED frames
      BY <2>1, <2>4
    <3>2. /\ pool' \in Pools
          /\ \A j \in Outputs : pool'.out[j] = "client" <=> pool.out[j] = "client"
      BY <3>1 DEF BufferInv, Pools
    <3> QED
      BY <2>2, <3>1, <3>2, SameOut
  <2> QED
    BY <2>3, <2>4
<1>13. ASSUME NEW f \in frames, NEW id \in handles, Phone!Discard(f) \/ Phone!Present(f, id)
       PROVE  BufferInv'
  BY <1>13, Released DEF Phone!Discard, Phone!Present
<1>14. ASSUME NEW f \in frames, Phone!Discard(f) PROVE BufferInv'
  BY <1>14, Released DEF Phone!Discard
<1>15. CASE UNCHANGED Phone!vars
  BY <1>1, <1>15 DEF Phone!vars
<1> QED
  BY <1>2, <1>3, <1>4, <1>5, <1>6, <1>7, <1>8, <1>9, <1>10, <1>11, <1>12, <1>13, <1>14, <1>15
     DEF Phone!Next, Phone!Drain

\* A buffer the codec has given out is named by a frame that the guest has taken
\* since and can give back; and while the guest keeps no frame across a flush, the
\* buffers out are the ones its frames name - for any number of buffers, frames
\* and codecs, and any order of calls.
THEOREM BuffersComeBack == HostSpec => []BuffersAreAccounted
<1>1. Phone!Init => BufferInv
  <2> SUFFICES ASSUME Phone!Init PROVE BufferInv
    OBVIOUS
  <2>1. dec.born = 0 /\ ~dec.open /\ dec.open \in BOOLEAN /\ dec.kept \in BOOLEAN
        /\ DOMAIN dec = DOMAIN Phone!NoDecoder
    BY DEF Phone!Init, Phone!NoDecoder
  <2>2. alive = {} /\ frames = {} /\ pool = Phone!Fresh
    BY DEF Phone!Init
  <2>3. pool \in Pools /\ \A i \in Outputs : pool.out[i] # "client"
    BY <2>2, FreshPool
  <2> QED
    BY <2>1, <2>2, <2>3 DEF BufferInv
<1>2. BufferInv => BuffersAreAccounted
  <2> SUFFICES ASSUME BufferInv PROVE BuffersAreAccounted
    OBVIOUS
  <2>1. \A f \in frames : f.idx \in Outputs
    BY DEF BufferInv, Held
  <2> QED
    BY <2>1 DEF BufferInv, Current, Phone!Mine, BuffersAreAccounted, Phone!IndicesAccounted
<1> QED
  BY <1>1, <1>2, BufferStep, PartsRun, PTL DEF Phone!Spec

-----------------------------------------------------------------------------
(* The slots and their owners.                                             *)

Degrees == {0, 90, 180, 270}
SlotStates == [for : Nat, rect : Phone!Rect, deg : Int, at : Nat, picture : Nat]
Registered == [slot : Slots, rect : Rects, cvo : Degrees, gen : Nat]
Previews == [open : BOOLEAN, slot : Slots \union {0}, rect : Rects \union {Phone!NoRect},
             gen : Nat, sensor : [orientation : Degrees, front : BOOLEAN]]

PlaceTypes ==
    /\ facing \in [deg : Degrees, gen : Nat] /\ slots \in [Slots -> SlotStates]
    /\ registry \in [DOMAIN registry -> Registered] /\ DOMAIN registry \subseteq 1..(nextSurf - 1)
    /\ nextSurf \in 1..(MaxEmbedded + 1) /\ handles \subseteq 0..MaxEmbedded
    /\ enc \in Previews /\ (enc.slot # 0 => enc.open)

\* Nothing is from after now, no picture from after its place.
NothingAhead ==
    /\ \A id \in DOMAIN registry : registry[id].gen <= facing.gen
    /\ enc.gen <= facing.gen
    /\ \A s \in Slots : slots[s].picture <= slots[s].at /\ slots[s].at <= facing.gen

\* A slot is the self-view's or a registered surface's, which finds it there, as
\* recent as it believes.
SlotsAreKnown ==
    \A s \in Slots : slots[s].for \notin {0, Phone!Preview} =>
        /\ slots[s].for \in DOMAIN registry /\ registry[slots[s].for].slot = s
        /\ registry[slots[s].for].gen = facing.gen => slots[s].at = facing.gen

PlaceInv == PlaceTypes /\ NothingAhead /\ SlotsAreKnown

Put(s, r, content) ==
    /\ slots[s].rect = Phone!MapRectToPanel(r, facing.deg)
    /\ slots[s].deg = (content + facing.deg) % 360

\* Who has a slot to himself finds it where he asked for it last.
Seated ==
    /\ \A id \in DOMAIN registry :
         Phone!Keeps(id) /\ registry[id].gen = facing.gen
           => Put(registry[id].slot, registry[id].rect, registry[id].cvo)
    /\ enc.slot # 0 => enc.rect \in Rects
    /\ enc.slot # 0 /\ Phone!KeepsView /\ enc.gen = facing.gen
         => Put(enc.slot, enc.rect, Phone!Upright(enc.sensor))

\* Who has asked for a slot and got one has it.
Housed ==
    /\ \A id \in DOMAIN registry : slots[registry[id].slot].for = id
    /\ enc.slot # 0 => slots[enc.slot].for = Phone!Preview

\* No guest asks for an empty rectangle.
RealRects == \A r \in Rects : r.w > 0 /\ r.h > 0

\* What is assumed of the constants.
LEMMA RectTypes ==
    /\ Rects \subseteq Phone!Rect /\ Phone!NoRect \in Phone!Rect
    /\ Panel[1] \in Nat /\ Panel[2] \in Nat /\ 0 \notin Slots /\ Phone!Preview = MaxEmbedded + 1
    /\ MaxEmbedded \in Nat /\ Turns \subseteq Degrees /\ Contents \subseteq Degrees
    /\ Sensors \subseteq [orientation : Degrees, front : BOOLEAN]
BY Constants DEF Phone!ConstantsOK, Phone!Rect, Phone!NoRect, Phone!Preview, Degrees

\* A rectangle of the guest is one of the panel.
LEMMA MapType ==
    ASSUME NEW r \in Phone!Rect, NEW d \in Degrees
    PROVE  Phone!MapRectToPanel(r, d) \in Phone!Rect
BY RectTypes DEF Phone!MapRectToPanel, Phone!Rect, Degrees

\* A camera's upright is a quarter turn.
LEMMA UprightType ==
    ASSUME NEW sensor \in [orientation : Degrees, front : BOOLEAN]
    PROVE  Phone!Upright(sensor) \in Degrees
BY DEF Phone!Upright, Degrees

\* What a geometry call does to the slots.
Moved(s, r, deg, moved) ==
    /\ moved \in [Slots -> SlotStates]
    /\ \A t \in Slots : moved[t].for = slots[t].for
    /\ \A t \in Slots : moved[t].picture = slots[t].picture
    /\ \A t \in Slots : moved[t].at = slots[t].at \/ moved[t].at = facing.gen
    /\ \A t \in Slots : t # s => moved[t] = slots[t]
    /\ s \in Slots /\ slots[s].for # 0 /\ r.w > 0 /\ r.h > 0 =>
         /\ moved[s].at = facing.gen
         /\ moved[s].rect = Phone!MapRectToPanel(r, facing.deg)
         /\ moved[s].deg = (deg + facing.deg) % 360

\* Placing a slot moves that slot only, and only its place.
LEMMA PlacedEffect ==
    ASSUME PlaceTypes, NEW s, NEW r \in Phone!Rect, NEW deg \in Degrees,
           NEW moved, moved = Phone!Placed(s, r, deg)
    PROVE  Moved(s, r, deg, moved)
<1> DEFINE m == Phone!MapRectToPanel(r, facing.deg)
           d == (deg + facing.deg) % 360
<1>1. m \in Phone!Rect /\ d \in Int /\ facing.gen \in Nat
  BY MapType DEF PlaceTypes, Degrees
<1>2. slots \in [Slots -> SlotStates] /\ r.w \in Nat /\ r.h \in Nat
  BY DEF PlaceTypes, Phone!Rect
<1>3. \/ moved = slots /\ (s = 0 \/ slots[s].for = 0 \/ r.w <= 0 \/ r.h <= 0)
      \/ moved = [slots EXCEPT ![s].rect = m, ![s].deg = d, ![s].at = facing.gen]
  BY DEF Phone!Placed
<1> HIDE DEF m, d
<1>4. CASE moved = slots /\ (s = 0 \/ slots[s].for = 0 \/ r.w <= 0 \/ r.h <= 0)
  BY <1>2, <1>4, RectTypes DEF Moved
<1>5. CASE moved = [slots EXCEPT ![s].rect = m, ![s].deg = d, ![s].at = facing.gen]
  <2>1. CASE s \in Slots
    <3>1. moved = [slots EXCEPT ![s] = [slots[s] EXCEPT !.rect = m, !.deg = d, !.at = facing.gen]]
      BY <1>5, <1>2, <2>1
    <3>0. slots[s] \in SlotStates
      BY <1>2, <2>1
    <3> DEFINE new == [slots[s] EXCEPT !.rect = m, !.deg = d, !.at = facing.gen]
    <3>2. /\ new \in SlotStates /\ new.for = slots[s].for /\ new.picture = slots[s].picture
          /\ new.at = facing.gen /\ new.rect = m /\ new.deg = d
      BY <1>1, <3>0 DEF SlotStates
    <3>3. moved = [slots EXCEPT ![s] = new]
      BY <3>1, <3>2
    <3> HIDE DEF new
    <3>4. moved \in [Slots -> SlotStates]
      BY <3>2, <3>3, <1>2
    <3> QED
      BY <3>2, <3>3, <3>4, <1>2, <2>1 DEF m, d, Moved
  <2>2. CASE s \notin Slots
    <3>1. moved = slots
      BY <1>5, <1>2, <2>2
    <3> QED
      BY <3>1, <1>2, <2>2 DEF Moved
  <2> QED
    BY <2>1, <2>2
<1> QED
  BY <1>3, <1>4, <1>5

\* What releasing a slot does.
LEMMA DestroyedEffect ==
    ASSUME PlaceTypes, NEW s, slots' = Phone!Destroyed(s)
    PROVE  /\ slots' \in [Slots -> SlotStates]
           /\ \A t \in Slots : slots'[t] = IF t = s THEN Phone!Free ELSE slots[t]
<1>1. Phone!Free \in SlotStates
  BY RectTypes DEF Phone!Free, SlotStates
<1> QED
  BY <1>1, RectTypes DEF Phone!Destroyed, PlaceTypes

\* The slots with a new one, for who.
Created(s, who, r, deg) ==
    [slots EXCEPT ![s] = [for |-> who, rect |-> Phone!MapRectToPanel(r, facing.deg),
                          deg |-> (deg + facing.deg) % 360, at |-> facing.gen, picture |-> 0]]

\* It was free, and its place is the one asked for.
LEMMA CreatedEffect ==
    ASSUME PlaceTypes, NEW s \in Phone!FreeSlot, NEW who \in Nat, NEW r \in Phone!Rect,
           NEW deg \in Degrees, slots' = Created(s, who, r, deg)
    PROVE  /\ s \in Slots /\ slots[s].for = 0 /\ slots' \in [Slots -> SlotStates]
           /\ \A t \in Slots : t # s => slots'[t] = slots[t]
           /\ slots'[s].for = who /\ slots'[s].at = facing.gen /\ slots'[s].picture = 0
           /\ slots'[s].rect = Phone!MapRectToPanel(r, facing.deg)
           /\ slots'[s].deg = (deg + facing.deg) % 360
<1> DEFINE m == Phone!MapRectToPanel(r, facing.deg)
           d == (deg + facing.deg) % 360
           new == [for |-> who, rect |-> m, deg |-> d, at |-> facing.gen, picture |-> 0]
<1>1. m \in Phone!Rect /\ d \in Int /\ facing.gen \in Nat
  BY MapType DEF PlaceTypes, Degrees
<1>2. s \in Slots /\ slots[s].for = 0 /\ slots \in [Slots -> SlotStates]
  BY DEF Phone!FreeSlot, PlaceTypes
<1> HIDE DEF m, d
<1>3. /\ new \in SlotStates /\ new.for = who /\ new.at = facing.gen /\ new.picture = 0
      /\ new.rect = m /\ new.deg = d
  BY <1>1 DEF SlotStates
<1>4. slots' = [slots EXCEPT ![s] = new]
  BY DEF m, d, Created
<1> HIDE DEF new
<1>5. /\ slots' \in [Slots -> SlotStates] /\ slots'[s] = new
      /\ \A t \in Slots : t # s => slots'[t] = slots[t]
  BY <1>2, <1>3, <1>4
<1> QED
  BY <1>2, <1>3, <1>5 DEF m, d

\* A surface that had its slot to itself, and whose slot no one touches.
LEMMA StillSeated ==
    ASSUME Seated, UNCHANGED facing, NEW id \in DOMAIN registry, Phone!Keeps(id),
           registry'[id] = registry[id], slots'[registry[id].slot] = slots[registry[id].slot]
    PROVE  registry'[id].gen = facing'.gen
             => Put(registry[id].slot, registry[id].rect, registry[id].cvo)'
<1> SUFFICES ASSUME registry'[id].gen = facing'.gen
             PROVE  Put(registry[id].slot, registry[id].rect, registry[id].cvo)'
  OBVIOUS
<1>1. Put(registry[id].slot, registry[id].rect, registry[id].cvo)
  BY DEF Seated
<1> QED
  BY <1>1 DEF Put, Phone!MapRectToPanel

\* The self-view in the same case.
LEMMA ViewStillSeated ==
    ASSUME Seated, UNCHANGED <<facing, enc>>, enc.slot # 0, Phone!KeepsView,
           slots'[enc.slot] = slots[enc.slot]
    PROVE  enc'.gen = facing'.gen => Put(enc.slot, enc.rect, Phone!Upright(enc.sensor))'
<1> SUFFICES ASSUME enc'.gen = facing'.gen
             PROVE  Put(enc.slot, enc.rect, Phone!Upright(enc.sensor))'
  OBVIOUS
<1>1. Put(enc.slot, enc.rect, Phone!Upright(enc.sensor))
  BY DEF Seated
<1> QED
  BY <1>1 DEF Put, Phone!MapRectToPanel, Phone!Upright

\* What an action must keep.
PlacesKept == PlaceInv' /\ (Seated => Seated') /\ (Housed => Housed')

\* The device turns: every place is from before.
LEMMA TurnKeeps ==
    ASSUME PlaceInv, NEW deg \in Turns, Phone!Turn(deg)
    PROVE  PlacesKept
<1>1. /\ facing' = [deg |-> deg, gen |-> facing.gen + 1] /\ deg \in Degrees
      /\ UNCHANGED <<slots, registry, handles, nextSurf, enc>>
  BY RectTypes DEF Phone!Turn, Phone!surfaceVars
<1>2. facing' \in [deg : Degrees, gen : Nat] /\ facing'.gen = facing.gen + 1 /\ facing.gen \in Nat
  BY <1>1 DEF PlaceInv, PlaceTypes
<1>3. PlaceTypes'
  BY <1>1, <1>2 DEF PlaceInv, PlaceTypes
<1>4. /\ \A id \in DOMAIN registry : registry[id].gen \in Nat /\ registry[id].gen <= facing.gen
      /\ enc.gen \in Nat /\ enc.gen <= facing.gen
      /\ \A s \in Slots : /\ slots[s].picture <= slots[s].at /\ slots[s].at <= facing.gen
                          /\ slots[s].at \in Nat
  BY DEF PlaceInv, PlaceTypes, NothingAhead, Registered, Previews, SlotStates
<1>5. NothingAhead'
  BY <1>1, <1>2, <1>4 DEF NothingAhead
<1>6. (\A id \in DOMAIN registry : registry[id].gen # facing'.gen) /\ enc.gen # facing'.gen
  BY <1>2, <1>4
<1>7. SlotsAreKnown'
  BY <1>1, <1>6 DEF PlaceInv, SlotsAreKnown, Phone!Preview
<1>8. Seated => Seated'
  BY <1>1, <1>6 DEF Seated
<1>9. Housed => Housed'
  BY <1>1 DEF Housed, Phone!Preview
<1> QED
  BY <1>3, <1>5, <1>7, <1>8, <1>9 DEF PlaceInv, PlacesKept

\* A new surface is placed as it is asked for now.
LEMMA OpenKeeps ==
    ASSUME PlaceInv, NEW r \in Rects, NEW cvo \in Contents, Phone!OpenSurface(r, cvo)
    PROVE  PlacesKept
<1> USE DEF PlaceInv
<1>0. UNCHANGED <<facing, enc>> /\ nextSurf \in 1..MaxEmbedded
  BY RectTypes DEF Phone!OpenSurface, PlaceTypes, PlaceInv
<1>1. CASE Phone!FreeSlot = {}
  <2>1. handles' = handles \union {0} /\ UNCHANGED <<slots, registry, nextSurf>>
    BY <1>1 DEF Phone!OpenSurface
  <2>2. PlaceTypes'
    BY <2>1, <1>0, RectTypes DEF PlaceTypes
  <2>3. NothingAhead' /\ SlotsAreKnown' /\ (Seated => Seated') /\ (Housed => Housed')
    BY <2>1, <1>0 DEF NothingAhead, SlotsAreKnown, Seated, Housed, Put, Phone!Preview,
                      Phone!Keeps, Phone!KeepsView
  <2> QED
    BY <2>2, <2>3 DEF PlacesKept
<1>2. ASSUME NEW s \in Phone!FreeSlot,
             slots' = [slots EXCEPT
               ![s] = [for |-> nextSurf, rect |-> Phone!MapRectToPanel(r, facing.deg),
                       deg |-> (cvo + facing.deg) % 360, at |-> facing.gen, picture |-> 0]],
             registry' = [i \in DOMAIN registry \cup {nextSurf} |->
               IF i = nextSurf
                 THEN [slot |-> s, rect |-> r, cvo |-> cvo, gen |-> facing.gen]
                 ELSE registry[i]],
             handles' = handles \cup {nextSurf}, nextSurf' = nextSurf + 1
      PROVE  PlacesKept
  <2> DEFINE entry == [slot |-> s, rect |-> r, cvo |-> cvo, gen |-> facing.gen]
  <2>1. r \in Phone!Rect /\ cvo \in Degrees /\ nextSurf \in Nat /\ facing.gen \in Nat
    BY RectTypes, <1>0 DEF PlaceTypes
  <2>2. /\ s \in Slots /\ slots[s].for = 0 /\ slots' \in [Slots -> SlotStates]
        /\ \A t \in Slots : t # s => slots'[t] = slots[t]
        /\ slots'[s].for = nextSurf /\ slots'[s].at = facing.gen /\ slots'[s].picture = 0
        /\ slots'[s].rect = Phone!MapRectToPanel(r, facing.deg)
        /\ slots'[s].deg = (cvo + facing.deg) % 360
    <3>1. slots' = Created(s, nextSurf, r, cvo)
      BY <1>2 DEF Created
    <3> QED
      BY <3>1, <2>1, CreatedEffect
  <2>3. entry \in Registered /\ entry.slot = s /\ entry.rect = r /\ entry.cvo = cvo
        /\ entry.gen = facing.gen
    BY <2>1, <2>2 DEF Registered
  <2> HIDE DEF entry
  <2>4. /\ DOMAIN registry' = DOMAIN registry \union {nextSurf} /\ registry'[nextSurf] = entry
        /\ \A id \in DOMAIN registry : id # nextSurf => registry'[id] = registry[id]
    BY <1>2 DEF entry
  <2>5. nextSurf \notin DOMAIN registry
    BY <2>1 DEF PlaceTypes
  <2>6. PlaceTypes'
    <3>1. registry' \in [DOMAIN registry' -> Registered]
      BY <1>2, <2>3, <2>4 DEF PlaceTypes, entry
    <3>2. DOMAIN registry' \subseteq 1..(nextSurf' - 1) /\ nextSurf' \in 1..(MaxEmbedded + 1)
          /\ handles' \subseteq 0..MaxEmbedded
      BY <1>0, <1>2, <2>1, <2>4, RectTypes DEF PlaceTypes
    <3> QED
      BY <3>1, <3>2, <2>2, <1>0 DEF PlaceTypes
  <2>7. NothingAhead'
    BY <1>0, <2>1, <2>2, <2>3, <2>4, <2>5 DEF NothingAhead
  <2>8. SlotsAreKnown'
    <3> SUFFICES ASSUME NEW t \in Slots, slots'[t].for \notin {0, Phone!Preview}
                 PROVE  /\ slots'[t].for \in DOMAIN registry' /\ registry'[slots'[t].for].slot = t
                        /\ registry'[slots'[t].for].gen = facing.gen => slots'[t].at = facing.gen
      BY <1>0 DEF SlotsAreKnown, Phone!Preview
    <3>1. CASE t = s
      BY <3>1, <2>2, <2>3, <2>4
    <3>2. CASE t # s
      BY <3>2, <2>2, <2>4, <2>5 DEF SlotsAreKnown
    <3> QED
      BY <3>1, <3>2
  <2>9. ASSUME Seated PROVE Seated'
    <3>1. ASSUME NEW id \in DOMAIN registry', Phone!Keeps(id)'
          PROVE  registry'[id].gen = facing'.gen
                   => Put(registry[id].slot, registry[id].rect, registry[id].cvo)'
      <4>1. CASE id = nextSurf
        BY <4>1, <2>2, <2>3, <2>4, <1>0 DEF Put
      <4>2. CASE id # nextSurf
        <5>1. id \in DOMAIN registry /\ registry'[id] = registry[id]
          BY <4>2, <2>4
        <5>2. registry[id].slot \in Slots /\ slots'[registry[id].slot].for = id
          BY <5>1, <3>1 DEF Phone!Keeps, PlaceTypes, Registered
        <5>3. slots'[registry[id].slot] = slots[registry[id].slot]
          BY <5>2, <4>2, <2>2
        <5>4. Phone!Keeps(id)
          BY <5>1, <5>2, <5>3, <3>1, <2>4, <2>5, <1>0 DEF Phone!Keeps
        <5> QED
          BY <5>1, <5>3, <5>4, <2>9, <1>0, StillSeated
      <4> QED
        BY <4>1, <4>2
    <3>2. ASSUME enc.slot # 0, Phone!KeepsView'
          PROVE  enc'.gen = facing'.gen => Put(enc.slot, enc.rect, Phone!Upright(enc.sensor))'
      <4>1. enc.slot \in Slots /\ slots'[enc.slot].for = Phone!Preview
        BY <3>2, <1>0 DEF Phone!KeepsView, Phone!Preview, PlaceTypes, Previews
      <4>2. slots'[enc.slot] = slots[enc.slot]
        BY <4>1, <2>2, <1>0, RectTypes
      <4>3. Phone!KeepsView
        BY <4>1, <4>2, <3>2, <2>4, <2>5, <1>0 DEF Phone!KeepsView
      <4> QED
        BY <4>2, <4>3, <3>2, <2>9, <1>0, ViewStillSeated
    <3> QED
      BY <3>1, <3>2, <2>9, <1>0 DEF Seated
  <2>10. ASSUME Housed PROVE Housed'
    <3>1. ASSUME NEW id \in DOMAIN registry' PROVE slots'[registry'[id].slot].for = id
      <4>1. CASE id = nextSurf
        BY <4>1, <2>2, <2>3, <2>4
      <4>2. CASE id # nextSurf
        <5>1. id \in DOMAIN registry /\ registry'[id] = registry[id]
          BY <4>2, <2>4
        <5>2. registry[id].slot \in Slots /\ slots[registry[id].slot].for = id /\ id # 0
          BY <5>1, <2>10 DEF Housed, PlaceTypes, Registered
        <5> QED
          BY <5>1, <5>2, <2>2
      <4> QED
        BY <4>1, <4>2
    <3>2. enc.slot # 0 => slots'[enc.slot].for = Phone!Preview
      BY <2>2, <2>10, RectTypes DEF Housed, PlaceTypes, Previews
    <3> QED
      BY <3>1, <3>2, <1>0 DEF Housed, Phone!Preview
  <2> QED
    BY <2>6, <2>7, <2>8, <2>9, <2>10 DEF PlacesKept
<1> QED
  BY <1>1, <1>2, Zenon DEF Phone!OpenSurface

\* A step that moves nothing.
LEMMA SamePlaces ==
    ASSUME PlaceInv, UNCHANGED <<facing, slots, registry, handles, nextSurf, enc>>
    PROVE  PlacesKept
<1>1. PlaceTypes'
  BY DEF PlaceInv, PlaceTypes
<1>2. NothingAhead' /\ SlotsAreKnown'
  BY DEF PlaceInv, NothingAhead, SlotsAreKnown, Phone!Preview
<1>3. (Seated => Seated') /\ (Housed => Housed')
  BY DEF Seated, Housed, Put, Phone!Preview, Phone!Keeps, Phone!KeepsView
<1> QED
  BY <1>1, <1>2, <1>3 DEF PlaceInv, PlacesKept

\* A slot given back: nothing else moves, and without one nobody loses his.
LEMMA CloseKeeps ==
    ASSUME PlaceInv, Phone!Close
    PROVE  PlaceInv' /\ (Seated => Seated') /\ (Housed /\ dec.slot = 0 => Housed')
<1>1. UNCHANGED <<facing, registry, handles, nextSurf, enc>> /\ slots' = Phone!Destroyed(dec.slot)
  BY DEF Phone!Close, Phone!surfaceVars
<1>2. /\ slots' \in [Slots -> SlotStates]
      /\ \A t \in Slots : slots'[t] = IF t = dec.slot THEN Phone!Free ELSE slots[t]
  BY <1>1, DestroyedEffect DEF PlaceInv
<1>3. PlaceTypes'
  BY <1>1, <1>2 DEF PlaceInv, PlaceTypes
<1>4. NothingAhead'
  <2>1. facing.gen \in Nat
    BY DEF PlaceInv, PlaceTypes
  <2> QED
    BY <1>1, <1>2, <2>1 DEF PlaceInv, NothingAhead, Phone!Free
<1>5. SlotsAreKnown'
  BY <1>1, <1>2 DEF PlaceInv, SlotsAreKnown, Phone!Free, Phone!Preview
<1>6. ASSUME Seated PROVE Seated'
  <2>1. ASSUME NEW id \in DOMAIN registry, Phone!Keeps(id)'
        PROVE  registry'[id].gen = facing'.gen
                 => Put(registry[id].slot, registry[id].rect, registry[id].cvo)'
    <3>1. registry[id].slot \in Slots /\ slots'[registry[id].slot].for = id /\ id # 0
      BY <2>1, <1>1 DEF Phone!Keeps, PlaceInv, PlaceTypes, Registered
    <3>2. slots'[registry[id].slot] = slots[registry[id].slot]
      BY <3>1, <1>2 DEF Phone!Free
    <3>3. Phone!Keeps(id)
      BY <3>1, <3>2, <2>1, <1>1 DEF Phone!Keeps
    <3> QED
      BY <3>2, <3>3, <1>1, <1>6, StillSeated
  <2>2. ASSUME enc.slot # 0, Phone!KeepsView'
        PROVE  enc'.gen = facing'.gen => Put(enc.slot, enc.rect, Phone!Upright(enc.sensor))'
    <3>1. enc.slot \in Slots /\ slots'[enc.slot].for = Phone!Preview /\ Phone!Preview # 0
      BY <2>2, <1>1, RectTypes DEF Phone!KeepsView, Phone!Preview, PlaceInv, PlaceTypes, Previews
    <3>2. slots'[enc.slot] = slots[enc.slot]
      BY <3>1, <1>2 DEF Phone!Free
    <3>3. Phone!KeepsView
      BY <3>1, <3>2, <2>2, <1>1 DEF Phone!KeepsView
    <3> QED
      BY <3>2, <3>3, <2>2, <1>1, <1>6, ViewStillSeated
  <2> QED
    BY <2>1, <2>2, <1>1, <1>6 DEF Seated
<1>7. ASSUME Housed, dec.slot = 0 PROVE Housed'
  <2>1. slots' = slots
    BY <1>1, <1>7 DEF Phone!Destroyed
  <2> QED
    BY <1>1, <1>7, <2>1 DEF Housed, Phone!Preview
<1> QED
  BY <1>3, <1>4, <1>5, <1>6, <1>7 DEF PlaceInv

\* A surface goes, and its slot with it.
LEMMA DropKeeps ==
    ASSUME PlaceInv, NEW id \in handles, Phone!DropSurface(id)
    PROVE  PlacesKept
<1>1. /\ UNCHANGED <<facing, nextSurf, enc>> /\ handles' = handles \ {id}
      /\ \/ id \in DOMAIN registry /\ slots' = Phone!Destroyed(registry[id].slot)
            /\ registry' = [i \in DOMAIN registry \ {id} |-> registry[i]]
         \/ UNCHANGED <<slots, registry>>
  BY DEF Phone!DropSurface
<1>2. CASE UNCHANGED <<slots, registry>>
  <2>1. PlaceTypes'
    BY <1>1, <1>2 DEF PlaceInv, PlaceTypes
  <2>2. NothingAhead' /\ SlotsAreKnown' /\ (Seated => Seated') /\ (Housed => Housed')
    BY <1>1, <1>2 DEF PlaceInv, NothingAhead, SlotsAreKnown, Seated, Housed, Put, Phone!Preview,
                      Phone!Keeps, Phone!KeepsView
  <2> QED
    BY <2>1, <2>2 DEF PlaceInv, PlacesKept
<1>3. CASE /\ id \in DOMAIN registry /\ slots' = Phone!Destroyed(registry[id].slot)
           /\ registry' = [i \in DOMAIN registry \ {id} |-> registry[i]]
  <2> DEFINE s == registry[id].slot
  <2>1. s \in Slots /\ id # 0 /\ facing.gen \in Nat
    BY <1>3 DEF PlaceInv, PlaceTypes, Registered
  <2>2. /\ slots' \in [Slots -> SlotStates]
        /\ \A t \in Slots : slots'[t] = IF t = s THEN Phone!Free ELSE slots[t]
    BY <1>3, DestroyedEffect DEF PlaceInv
  <2>3. /\ DOMAIN registry' = DOMAIN registry \ {id}
        /\ \A j \in DOMAIN registry' : j # id /\ j \in DOMAIN registry /\ registry'[j] = registry[j]
    BY <1>3
  <2> HIDE DEF s
  <2>4. PlaceTypes'
    <3>1. /\ registry' \in [DOMAIN registry' -> Registered]
          /\ DOMAIN registry' \subseteq 1..(nextSurf - 1)
      BY <1>3, <2>3 DEF PlaceInv, PlaceTypes
    <3> QED
      BY <3>1, <1>1, <2>2 DEF PlaceInv, PlaceTypes
  <2>5. NothingAhead'
    BY <1>1, <2>1, <2>2, <2>3 DEF PlaceInv, NothingAhead, Phone!Free
  <2>6. SlotsAreKnown'
    <3> SUFFICES ASSUME NEW t \in Slots, slots'[t].for \notin {0, Phone!Preview}
                 PROVE  /\ slots'[t].for \in DOMAIN registry' /\ registry'[slots'[t].for].slot = t
                        /\ registry'[slots'[t].for].gen = facing.gen => slots'[t].at = facing.gen
      BY <1>1 DEF SlotsAreKnown, Phone!Preview
    <3>1. t # s /\ slots'[t] = slots[t]
      BY <2>2 DEF Phone!Free
    <3>2. /\ slots[t].for \in DOMAIN registry /\ registry[slots[t].for].slot = t
          /\ registry[slots[t].for].gen = facing.gen => slots[t].at = facing.gen
      BY <3>1 DEF PlaceInv, SlotsAreKnown
    <3>3. slots[t].for # id
      BY <3>1, <3>2 DEF s
    <3> QED
      BY <3>1, <3>2, <3>3, <2>3
  <2>7. ASSUME Seated PROVE Seated'
    <3>1. ASSUME NEW j \in DOMAIN registry', Phone!Keeps(j)'
          PROVE  registry'[j].gen = facing'.gen
                   => Put(registry[j].slot, registry[j].rect, registry[j].cvo)'
      <4>1. j \in DOMAIN registry /\ registry'[j] = registry[j] /\ j # id
        BY <2>3
      <4>2. registry[j].slot \in Slots /\ slots'[registry[j].slot].for = j /\ j # 0
        BY <4>1, <3>1 DEF Phone!Keeps, PlaceInv, PlaceTypes, Registered
      <4>3. registry[j].slot # s /\ slots'[registry[j].slot] = slots[registry[j].slot]
        BY <4>2, <2>2 DEF Phone!Free
      <4>4. Phone!Keeps(j)
        BY <4>1, <4>2, <4>3, <3>1, <2>3, <1>1 DEF Phone!Keeps, s
      <4> QED
        BY <4>1, <4>3, <4>4, <1>1, <2>7, StillSeated
    <3>2. ASSUME enc.slot # 0, Phone!KeepsView'
          PROVE  enc'.gen = facing'.gen => Put(enc.slot, enc.rect, Phone!Upright(enc.sensor))'
      <4>1. enc.slot \in Slots /\ slots'[enc.slot].for = Phone!Preview /\ Phone!Preview # 0
        BY <3>2, <1>1, RectTypes
           DEF Phone!KeepsView, Phone!Preview, PlaceInv, PlaceTypes, Previews
      <4>2. enc.slot # s /\ slots'[enc.slot] = slots[enc.slot]
        BY <4>1, <2>2 DEF Phone!Free
      <4>3. Phone!KeepsView
        BY <4>1, <4>2, <3>2, <2>3, <1>1 DEF Phone!KeepsView, s
      <4> QED
        BY <4>2, <4>3, <3>2, <1>1, <2>7, ViewStillSeated
    <3> QED
      BY <3>1, <3>2, <1>1, <2>7 DEF Seated
  <2>8. ASSUME Housed PROVE Housed'
    <3>1. slots[s].for = id /\ id # Phone!Preview
      BY <1>3, <2>8, RectTypes DEF Housed, s, PlaceInv, PlaceTypes
    <3>2. ASSUME NEW j \in DOMAIN registry' PROVE slots'[registry'[j].slot].for = j
      <4>1. j \in DOMAIN registry /\ registry'[j] = registry[j] /\ j # id
        BY <2>3
      <4>2. registry[j].slot \in Slots /\ slots[registry[j].slot].for = j
        BY <4>1, <2>8 DEF Housed, PlaceInv, PlaceTypes, Registered
      <4> QED
        BY <4>1, <4>2, <3>1, <2>2
    <3>3. enc.slot # 0 => slots'[enc.slot].for = Phone!Preview
      BY <3>1, <2>2, <2>8 DEF Housed, PlaceInv, PlaceTypes, Previews
    <3> QED
      BY <3>2, <3>3, <1>1 DEF Housed, Phone!Preview
  <2> QED
    BY <2>4, <2>5, <2>6, <2>7, <2>8 DEF PlaceInv, PlacesKept
<1> QED
  BY <1>1, <1>2, <1>3

\* A surface is placed anew.
LEMMA MoveKeeps ==
    ASSUME RealRects, PlaceInv, NEW id \in handles, NEW r \in Rects, NEW cvo \in Contents,
           Phone!Move(id, r, cvo)
    PROVE  PlacesKept
<1> DEFINE s == registry[id].slot
           entry == [registry[id] EXCEPT !.rect = r, !.cvo = cvo, !.gen = facing.gen]
<1>1. /\ id \in DOMAIN registry /\ UNCHANGED <<facing, handles, nextSurf, enc>>
      /\ registry' = [registry EXCEPT ![id].rect = r, ![id].cvo = cvo, ![id].gen = facing.gen]
      /\ slots' = Phone!Placed(s, r, cvo)
  BY DEF Phone!Move
<1>2. /\ registry[id] \in Registered /\ r \in Phone!Rect /\ cvo \in Degrees /\ facing.gen \in Nat
      /\ registry \in [DOMAIN registry -> Registered]
  BY <1>1, RectTypes DEF PlaceInv, PlaceTypes
<1>3. entry \in Registered /\ entry.slot = s /\ entry.rect = r /\ entry.cvo = cvo
      /\ entry.gen = facing.gen /\ s \in Slots
  BY <1>2 DEF Registered
<1>4. registry' = [registry EXCEPT ![id] = entry]
  BY <1>1, <1>2
<1> HIDE DEF entry, s
<1>5. /\ DOMAIN registry' = DOMAIN registry /\ registry'[id] = entry
      /\ \A j \in DOMAIN registry : j # id => registry'[j] = registry[j]
      /\ registry' \in [DOMAIN registry' -> Registered]
  BY <1>1, <1>2, <1>3, <1>4
<1>6. PICK moved : moved = slots'
  OBVIOUS
<1>7. moved = Phone!Placed(s, r, cvo) /\ PlaceTypes
  BY <1>1, <1>6 DEF PlaceInv
<1>8. /\ slots' \in [Slots -> SlotStates]
      /\ \A t \in Slots : slots'[t].for = slots[t].for
      /\ \A t \in Slots : slots'[t].picture = slots[t].picture
      /\ \A t \in Slots : slots'[t].at = slots[t].at \/ slots'[t].at = facing.gen
      /\ \A t \in Slots : t # s => slots'[t] = slots[t]
      /\ slots[s].for # 0 =>
                /\ slots'[s].at = facing.gen
                /\ slots'[s].rect = Phone!MapRectToPanel(r, facing.deg)
                /\ slots'[s].deg = (cvo + facing.deg) % 360
  <2>1. r.w > 0 /\ r.h > 0 /\ s # 0
    BY <1>3, RectTypes DEF RealRects
  <2>2. Moved(s, r, cvo, moved)
    BY <1>2, <1>7, PlacedEffect
  <2> QED
    BY <1>3, <1>6, <2>1, <2>2 DEF Moved
<1>9. PlaceTypes'
  BY <1>1, <1>5, <1>8 DEF PlaceInv, PlaceTypes
<1>10. NothingAhead'
  <2>1. \A t \in Slots : /\ slots[t].picture \in Nat /\ slots[t].at \in Nat
                         /\ slots[t].picture <= slots[t].at /\ slots[t].at <= facing.gen
    BY DEF PlaceInv, NothingAhead, PlaceTypes, SlotStates
  <2>2. \A t \in Slots : slots'[t].picture <= slots'[t].at /\ slots'[t].at <= facing.gen
    BY <1>2, <1>8, <2>1
  <2>3. \A j \in DOMAIN registry' : registry'[j].gen <= facing.gen
    BY <1>2, <1>3, <1>5 DEF PlaceInv, NothingAhead
  <2> QED
    BY <1>1, <2>2, <2>3 DEF PlaceInv, NothingAhead
<1>11. SlotsAreKnown'
  <2> SUFFICES ASSUME NEW t \in Slots, slots'[t].for \notin {0, Phone!Preview}
               PROVE  /\ slots'[t].for \in DOMAIN registry' /\ registry'[slots'[t].for].slot = t
                      /\ registry'[slots'[t].for].gen = facing.gen => slots'[t].at = facing.gen
    BY <1>1 DEF SlotsAreKnown, Phone!Preview
  <2>1. /\ slots'[t].for = slots[t].for
        /\ slots[t].for \in DOMAIN registry /\ registry[slots[t].for].slot = t
        /\ registry[slots[t].for].gen = facing.gen => slots[t].at = facing.gen
    BY <1>8 DEF PlaceInv, SlotsAreKnown
  <2>2. CASE slots[t].for = id
    <3>1. t = s /\ slots[s].for # 0
      BY <2>1, <2>2 DEF s
    <3> QED
      BY <3>1, <2>1, <2>2, <1>3, <1>5, <1>8
  <2>3. CASE slots[t].for # id
    BY <2>1, <2>3, <1>5, <1>8
  <2> QED
    BY <2>2, <2>3
<1>12. ASSUME Seated PROVE Seated'
  <2>1. ASSUME NEW j \in DOMAIN registry', Phone!Keeps(j)'
        PROVE  registry'[j].gen = facing'.gen
                 => Put(registry[j].slot, registry[j].rect, registry[j].cvo)'
    <3>1. CASE j = id
      <4>1. slots[s].for # 0
        BY <1>3, <1>5, <1>8, <2>1, <3>1, <1>1 DEF Phone!Keeps, PlaceInv, PlaceTypes
      <4> QED
        BY <3>1, <4>1, <1>1, <1>3, <1>5, <1>8 DEF Put
    <3>2. CASE j # id
      <4>1. j \in DOMAIN registry /\ registry'[j] = registry[j]
        BY <1>5, <3>2
      <4>2. registry[j].slot \in Slots /\ registry[j].slot # s
        BY <4>1, <2>1, <3>2, <1>1, <1>3, <1>5 DEF Phone!Keeps, PlaceInv, PlaceTypes, Registered
      <4>3. slots'[registry[j].slot] = slots[registry[j].slot]
        BY <4>2, <1>8
      <4>4. \A other \in DOMAIN registry : registry'[other].slot = registry[other].slot
        BY <1>3, <1>5 DEF s
      <4>5. Phone!Keeps(j)
        BY <4>1, <4>3, <4>4, <2>1, <1>1, <1>5 DEF Phone!Keeps
      <4> QED
        BY <4>1, <4>3, <4>5, <1>1, <1>12, StillSeated
    <3> QED
      BY <3>1, <3>2
  <2>2. ASSUME enc.slot # 0, Phone!KeepsView'
        PROVE  enc'.gen = facing'.gen => Put(enc.slot, enc.rect, Phone!Upright(enc.sensor))'
    <3>1. enc.slot \in Slots /\ enc.slot # s
      BY <2>2, <1>1, <1>3, <1>5 DEF Phone!KeepsView, PlaceInv, PlaceTypes, Previews
    <3>2. slots'[enc.slot] = slots[enc.slot]
      BY <3>1, <1>8
    <3>3. \A other \in DOMAIN registry : registry'[other].slot = registry[other].slot
      BY <1>3, <1>5 DEF s
    <3>4. Phone!KeepsView
      BY <3>2, <3>3, <2>2, <1>1, <1>5 DEF Phone!KeepsView, Phone!Preview
    <3> QED
      BY <3>2, <3>4, <2>2, <1>1, <1>12, ViewStillSeated
  <2> QED
    BY <2>1, <2>2, <1>1, <1>12 DEF Seated
<1>13. ASSUME Housed PROVE Housed'
  <2>1. \A j \in DOMAIN registry : registry'[j].slot = registry[j].slot
    BY <1>3, <1>5 DEF s
  <2>2. \A j \in DOMAIN registry : registry[j].slot \in Slots
    BY DEF PlaceInv, PlaceTypes, Registered
  <2> QED
    BY <2>1, <2>2, <1>1, <1>5, <1>8, <1>13
       DEF Housed, Phone!Preview, PlaceInv, PlaceTypes, Previews
<1> QED
  BY <1>9, <1>10, <1>11, <1>12, <1>13 DEF PlaceInv, PlacesKept

\* The self-view put where it belongs now.
LEMMA PreviewPlaced ==
    ASSUME RealRects, PlaceInv, UNCHANGED <<facing, registry, handles, nextSurf>>,
           enc' \in Previews, enc'.open = enc.open, enc'.slot = enc.slot,
           enc'.sensor = enc.sensor,
           enc'.gen = facing.gen, enc'.rect = enc.rect \/ enc'.rect \in Rects,
           slots' = Phone!Placed(enc.slot, enc'.rect, Phone!Upright(enc.sensor))
    PROVE  PlacesKept
<1>1. PICK s, r, c, moved :
         s = enc.slot /\ r = enc'.rect /\ c = Phone!Upright(enc.sensor) /\ moved = slots'
  OBVIOUS
<1>2. PlaceTypes /\ r \in Phone!Rect /\ c \in Degrees /\ facing.gen \in Nat
      /\ moved = Phone!Placed(s, r, c) /\ s \in Slots \union {0}
  BY <1>1, RectTypes, UprightType DEF PlaceInv, PlaceTypes, Previews
<1>3. Moved(s, r, c, moved)
  BY <1>2, PlacedEffect
<1>4. PlaceTypes'
  BY <1>1, <1>3 DEF PlaceInv, PlaceTypes, Moved
<1>5. NothingAhead'
  <2>1. \A t \in Slots : /\ slots[t].picture \in Nat /\ slots[t].at \in Nat
                         /\ slots[t].picture <= slots[t].at /\ slots[t].at <= facing.gen
    BY DEF PlaceInv, NothingAhead, PlaceTypes, SlotStates
  <2>2. \A t \in Slots : slots'[t].picture <= slots'[t].at /\ slots'[t].at <= facing.gen
    BY <1>1, <1>2, <1>3, <2>1 DEF Moved
  <2> QED
    BY <1>2, <2>2 DEF PlaceInv, NothingAhead
<1>6. SlotsAreKnown'
  BY <1>1, <1>3 DEF PlaceInv, SlotsAreKnown, Moved, Phone!Preview
<1>7. ASSUME Seated PROVE Seated'
  <2>1. ASSUME NEW j \in DOMAIN registry, Phone!Keeps(j)'
        PROVE  registry'[j].gen = facing'.gen
                 => Put(registry[j].slot, registry[j].rect, registry[j].cvo)'
    <3>1. registry[j].slot \in Slots /\ registry[j].slot # s
      BY <1>1, <2>1 DEF Phone!Keeps, PlaceInv, PlaceTypes, Registered
    <3>2. slots'[registry[j].slot] = slots[registry[j].slot]
      BY <1>1, <1>3, <3>1 DEF Moved
    <3>3. Phone!Keeps(j)
      BY <3>2, <2>1 DEF Phone!Keeps
    <3> QED
      BY <3>2, <3>3, <1>7, StillSeated
  <2>2. enc'.slot # 0 => enc'.rect \in Rects
    BY <1>7 DEF Seated
  <2>3. ASSUME enc'.slot # 0, Phone!KeepsView'
        PROVE  Put(enc.slot, enc.rect, Phone!Upright(enc.sensor))'
    <3>1. s \in Slots /\ slots'[s].for = Phone!Preview /\ r \in Rects
      BY <1>1, <1>2, <2>2, <2>3 DEF Phone!KeepsView, Phone!Preview
    <3>2. slots[s].for # 0 /\ r.w > 0 /\ r.h > 0
      BY <1>1, <1>3, <3>1, RectTypes DEF RealRects, Moved
    <3> QED
      BY <1>1, <1>3, <3>1, <3>2 DEF Moved, Put
  <2> QED
    BY <2>1, <2>2, <2>3 DEF Seated
<1>8. ASSUME Housed PROVE Housed'
  <2>1. \A j \in DOMAIN registry : registry[j].slot \in Slots
    BY DEF PlaceInv, PlaceTypes, Registered
  <2> QED
    BY <2>1, <1>1, <1>2, <1>3, <1>8 DEF Housed, Phone!Preview, Moved
<1> QED
  BY <1>4, <1>5, <1>6, <1>7, <1>8 DEF PlaceInv, PlacesKept

\* The self-view follows a turn of the device.
LEMMA EncNextKeeps == RealRects /\ PlaceInv /\ Phone!EncNext => PlacesKept
<1> SUFFICES ASSUME RealRects, PlaceInv, Phone!EncNext PROVE PlacesKept
  OBVIOUS
<1>1. UNCHANGED <<facing, registry, handles, nextSurf>> /\ enc' = [enc EXCEPT !.gen = facing.gen]
      /\ slots' = Phone!Placed(enc.slot, enc.rect, Phone!Upright(enc.sensor))
  BY DEF Phone!EncNext, Phone!surfaceVars
<1>2. enc \in Previews /\ facing.gen \in Nat
  BY DEF PlaceInv, PlaceTypes
<1>3. enc' \in Previews /\ enc'.open = enc.open /\ enc'.slot = enc.slot
      /\ enc'.sensor = enc.sensor /\ enc'.gen = facing.gen /\ enc'.rect = enc.rect
  BY <1>1, <1>2 DEF Previews
<1> QED
  BY <1>1, <1>3, PreviewPlaced

\* The guest moves the self-view.
LEMMA EncMoveKeeps ==
    ASSUME RealRects, PlaceInv, NEW r \in Rects, Phone!EncMove(r)
    PROVE  PlacesKept
<1>1. /\ UNCHANGED <<facing, registry, handles, nextSurf>>
      /\ enc' = [enc EXCEPT !.rect = r, !.gen = facing.gen]
      /\ slots' = Phone!Placed(enc.slot, r, Phone!Upright(enc.sensor))
  BY DEF Phone!EncMove, Phone!surfaceVars
<1>2. enc \in Previews /\ facing.gen \in Nat
  BY DEF PlaceInv, PlaceTypes
<1>3. enc' \in Previews /\ enc'.open = enc.open /\ enc'.slot = enc.slot
      /\ enc'.sensor = enc.sensor /\ enc'.gen = facing.gen /\ enc'.rect = r
  BY <1>1, <1>2 DEF Previews
<1> QED
  BY <1>1, <1>3, PreviewPlaced

\* The self-view goes, and its slot with it.
LEMMA EncCloseKeeps == PlaceInv /\ Phone!EncClose => PlacesKept
<1> SUFFICES ASSUME PlaceInv, Phone!EncClose PROVE PlacesKept
  OBVIOUS
<1>1. /\ UNCHANGED <<facing, registry, handles, nextSurf>> /\ enc' = Phone!NoEncoder
      /\ slots' = Phone!Destroyed(enc.slot)
  BY DEF Phone!EncClose, Phone!surfaceVars
<1>2. /\ slots' \in [Slots -> SlotStates]
      /\ \A t \in Slots : slots'[t] = IF t = enc.slot THEN Phone!Free ELSE slots[t]
  BY <1>1, DestroyedEffect DEF PlaceInv
<1>3. enc' \in Previews /\ enc'.slot = 0 /\ enc'.gen = 0
  BY <1>1 DEF Phone!NoEncoder, Previews, Degrees
<1>4. PlaceTypes'
  BY <1>1, <1>2, <1>3 DEF PlaceInv, PlaceTypes
<1>5. NothingAhead'
  <2>1. facing.gen \in Nat
    BY DEF PlaceInv, PlaceTypes
  <2> QED
    BY <1>1, <1>2, <1>3, <2>1 DEF PlaceInv, NothingAhead, Phone!Free
<1>6. SlotsAreKnown'
  BY <1>1, <1>2 DEF PlaceInv, SlotsAreKnown, Phone!Free, Phone!Preview
<1>7. ASSUME Seated PROVE Seated'
  <2>1. ASSUME NEW j \in DOMAIN registry, Phone!Keeps(j)'
        PROVE  registry'[j].gen = facing'.gen
                 => Put(registry[j].slot, registry[j].rect, registry[j].cvo)'
    <3>1. registry[j].slot \in Slots /\ slots'[registry[j].slot].for = j /\ j # 0
      BY <2>1, <1>1 DEF Phone!Keeps, PlaceInv, PlaceTypes, Registered
    <3>2. registry[j].slot # enc.slot /\ slots'[registry[j].slot] = slots[registry[j].slot]
      BY <3>1, <1>2 DEF Phone!Free
    <3>3. Phone!Keeps(j)
      BY <3>1, <3>2, <2>1, <1>1 DEF Phone!Keeps
    <3> QED
      BY <3>2, <3>3, <1>1, <1>7, StillSeated
  <2> QED
    BY <2>1, <1>1, <1>3 DEF Seated
<1>8. ASSUME Housed PROVE Housed'
  <2>1. ASSUME NEW j \in DOMAIN registry PROVE slots'[registry[j].slot].for = j
    <3>1. registry[j].slot \in Slots /\ slots[registry[j].slot].for = j /\ j # Phone!Preview
      BY <1>8, RectTypes DEF Housed, PlaceInv, PlaceTypes, Registered
    <3>2. enc.slot # 0 => registry[j].slot # enc.slot
      BY <1>8, <3>1 DEF Housed
    <3> QED
      BY <1>2, <3>1, <3>2, RectTypes
  <2> QED
    BY <1>1, <1>3, <2>1 DEF Housed
<1> QED
  BY <1>4, <1>5, <1>6, <1>7, <1>8 DEF PlaceInv, PlacesKept

\* A self-view gets a slot of its own, or none.
LEMMA EncOpenKeeps ==
    ASSUME PlaceInv, NEW r \in Rects, NEW sensor \in Sensors, Phone!EncOpen(r, sensor)
    PROVE  PlacesKept
<1>0. /\ UNCHANGED <<facing, registry, handles, nextSurf>> /\ facing.gen \in Nat
      /\ \A s \in Slots : slots[s].for # Phone!Preview
      /\ enc.slot = 0
  BY DEF Phone!EncOpen, Phone!surfaceVars, PlaceInv, PlaceTypes
<1>1. CASE Phone!FreeSlot = {}
  <2>1. UNCHANGED slots /\ enc' = [Phone!NoEncoder EXCEPT !.open = TRUE]
    BY <1>1 DEF Phone!EncOpen
  <2>2. enc' \in Previews /\ enc'.slot = 0 /\ enc'.gen = 0
    BY <2>1 DEF Phone!NoEncoder, Previews, Degrees
  <2>3. PlaceTypes' /\ NothingAhead' /\ SlotsAreKnown'
    BY <1>0, <2>1, <2>2
       DEF PlaceInv, PlaceTypes, NothingAhead, SlotsAreKnown, Phone!Preview
  <2>4. (Seated => Seated') /\ (Housed => Housed')
    <3>1. ASSUME NEW j \in DOMAIN registry, Phone!Keeps(j)', Seated
          PROVE  registry'[j].gen = facing'.gen
                   => Put(registry[j].slot, registry[j].rect, registry[j].cvo)'
      <4>1. Phone!Keeps(j)
        BY <3>1, <1>0, <2>1, <2>2 DEF Phone!Keeps
      <4> QED
        BY <3>1, <4>1, <1>0, <2>1, StillSeated
    <3> QED
      BY <3>1, <1>0, <2>1, <2>2 DEF Seated, Housed
  <2> QED
    BY <2>3, <2>4 DEF PlaceInv, PlacesKept
<1>2. ASSUME NEW s \in Phone!FreeSlot,
             enc' = [open |-> TRUE, slot |-> s, rect |-> r, gen |-> facing.gen, sensor |-> sensor],
             slots' = [slots EXCEPT
               ![s] = [for |-> Phone!Preview, rect |-> Phone!MapRectToPanel(r, facing.deg),
                       deg |-> (Phone!Upright(sensor) + facing.deg) % 360,
                       at |-> facing.gen, picture |-> 0]]
      PROVE  PlacesKept
  <2>1. r \in Phone!Rect /\ Phone!Upright(sensor) \in Degrees /\ Phone!Preview \in Nat
        /\ sensor \in [orientation : Degrees, front : BOOLEAN]
    BY RectTypes, UprightType
  <2>2. slots' = Created(s, Phone!Preview, r, Phone!Upright(sensor))
    BY <1>2 DEF Created
  <2>3. /\ s \in Slots /\ slots[s].for = 0 /\ slots' \in [Slots -> SlotStates]
        /\ \A t \in Slots : t # s => slots'[t] = slots[t]
        /\ slots'[s].for = Phone!Preview /\ slots'[s].at = facing.gen /\ slots'[s].picture = 0
        /\ slots'[s].rect = Phone!MapRectToPanel(r, facing.deg)
        /\ slots'[s].deg = (Phone!Upright(sensor) + facing.deg) % 360
    BY <2>1, <2>2, CreatedEffect DEF PlaceInv
  <2>4. enc' \in Previews /\ enc'.open /\ enc'.slot = s /\ enc'.gen = facing.gen /\ enc'.rect = r
        /\ enc'.sensor = sensor
    BY <1>0, <1>2, <2>1, <2>3 DEF Previews
  <2>5. PlaceTypes'
    BY <1>0, <2>3, <2>4 DEF PlaceInv, PlaceTypes
  <2>6. NothingAhead'
    BY <1>0, <2>3, <2>4 DEF PlaceInv, NothingAhead
  <2>7. SlotsAreKnown'
    BY <1>0, <2>3 DEF PlaceInv, SlotsAreKnown, Phone!Preview
  <2>8. ASSUME Seated PROVE Seated'
    <3>1. ASSUME NEW j \in DOMAIN registry, Phone!Keeps(j)'
          PROVE  registry'[j].gen = facing'.gen
                   => Put(registry[j].slot, registry[j].rect, registry[j].cvo)'
      <4>1. registry[j].slot \in Slots /\ registry[j].slot # s
        BY <3>1, <1>0, <2>4 DEF Phone!Keeps, PlaceInv, PlaceTypes, Registered
      <4>2. slots'[registry[j].slot] = slots[registry[j].slot]
        BY <2>3, <4>1
      <4>3. Phone!Keeps(j)
        BY <3>1, <4>1, <4>2, <1>0, RectTypes DEF Phone!Keeps
      <4> QED
        BY <4>2, <4>3, <1>0, <2>8, StillSeated
    <3>2. enc'.rect \in Rects /\ Put(enc.slot, enc.rect, Phone!Upright(enc.sensor))'
      BY <1>0, <2>3, <2>4 DEF Put
    <3> QED
      BY <1>0, <3>1, <3>2 DEF Seated
  <2>9. ASSUME Housed PROVE Housed'
    <3>1. ASSUME NEW j \in DOMAIN registry PROVE slots'[registry[j].slot].for = j
      <4>1. registry[j].slot \in Slots /\ slots[registry[j].slot].for = j /\ j # 0
        BY <2>9 DEF Housed, PlaceInv, PlaceTypes, Registered
      <4> QED
        BY <2>3, <4>1
    <3> QED
      BY <1>0, <3>1, <2>3, <2>4 DEF Housed, Phone!Preview
  <2> QED
    BY <2>5, <2>6, <2>7, <2>8, <2>9 DEF PlaceInv, PlacesKept
<1> QED
  BY <1>1, <1>2, Zenon DEF Phone!EncOpen

\* A surface's place before a picture: current, whether it was or is made so.
LEMMA ReappliedEffect ==
    ASSUME RealRects, PlaceInv, NEW id \in handles, NEW place, place = Phone!Reapplied(id)
    PROVE  /\ place \in [Slots -> SlotStates]
           /\ \A t \in Slots : place[t].for = slots[t].for
           /\ \A t \in Slots : place[t].picture = slots[t].picture
           /\ \A t \in Slots : place[t].at = slots[t].at \/ place[t].at = facing.gen
           /\ \A t \in Slots : slots[t].for = id /\ id # 0 => place[t].at = facing.gen
           /\ id \notin DOMAIN registry => place = slots
           /\ id \in DOMAIN registry =>
                \A t \in Slots : t # registry[id].slot => place[t] = slots[t]
           /\ Seated /\ id \in DOMAIN registry /\ Phone!Keeps(id) =>
                /\ place[registry[id].slot].rect
                     = Phone!MapRectToPanel(registry[id].rect, facing.deg)
                /\ place[registry[id].slot].deg = (registry[id].cvo + facing.deg) % 360
<1>0. /\ slots \in [Slots -> SlotStates] /\ id \in 0..MaxEmbedded /\ id # Phone!Preview
      /\ facing.gen \in Nat
  BY RectTypes DEF PlaceInv, PlaceTypes
<1>1. CASE id \in DOMAIN registry /\ registry[id].gen # facing.gen
  <2>1. PICK s, r, c : s = registry[id].slot /\ r = registry[id].rect /\ c = registry[id].cvo
    OBVIOUS
  <2>2. s \in Slots /\ r \in Rects /\ r \in Phone!Rect /\ c \in Degrees /\ PlaceTypes
    BY <1>1, <2>1, RectTypes DEF PlaceInv, PlaceTypes, Registered
  <2>3. place = Phone!Placed(s, r, c)
    BY <1>1, <2>1 DEF Phone!Reapplied
  <2>4. Moved(s, r, c, place)
    BY <2>2, <2>3, PlacedEffect
  <2>5. r.w > 0 /\ r.h > 0
    BY <2>2 DEF RealRects
  <2>6. ASSUME NEW t \in Slots, slots[t].for = id, id # 0 PROVE place[t].at = facing.gen
    <3>1. t = s
      BY <1>0, <2>1, <2>6 DEF PlaceInv, SlotsAreKnown
    <3> QED
      BY <2>2, <2>4, <2>5, <2>6, <3>1 DEF Moved
  <2>7. Phone!Keeps(id) => slots[s].for # 0
    BY <1>1, <2>1 DEF Phone!Keeps, PlaceInv, PlaceTypes
  <2> QED
    BY <1>1, <2>1, <2>2, <2>4, <2>5, <2>6, <2>7 DEF Moved
<1>2. CASE ~(id \in DOMAIN registry /\ registry[id].gen # facing.gen)
  <2>1. place = slots
    BY <1>2 DEF Phone!Reapplied
  <2>2. ASSUME NEW t \in Slots, slots[t].for = id, id # 0 PROVE slots[t].at = facing.gen
    BY <1>0, <1>2, <2>2 DEF PlaceInv, SlotsAreKnown
  <2>3. Seated /\ id \in DOMAIN registry /\ Phone!Keeps(id) =>
          /\ slots[registry[id].slot].rect = Phone!MapRectToPanel(registry[id].rect, facing.deg)
          /\ slots[registry[id].slot].deg = (registry[id].cvo + facing.deg) % 360
    BY <1>2 DEF Seated, Put
  <2> QED
    BY <1>0, <2>1, <2>2, <2>3
<1> QED
  BY <1>1, <1>2

\* A picture is presented: its surface's place is brought up to date first.
LEMMA PresentKeeps ==
    ASSUME RealRects, PlaceInv, NEW f \in frames, NEW id \in handles, Phone!Present(f, id)
    PROVE  PlacesKept
<1> DEFINE drawn == Phone!Releases(f) /\ dec.slot # 0 /\ dec.attached # 0
                    /\ slots[dec.slot].for = dec.attached
<1>1. PICK place : place = Phone!Reapplied(id)
  OBVIOUS
<1>2. /\ UNCHANGED <<facing, handles, nextSurf, enc>> /\ (dec.attached # -1 => id = dec.attached)
      /\ slots' = IF drawn THEN [place EXCEPT ![dec.slot].picture = facing.gen] ELSE place
      /\ registry' = IF id \in DOMAIN registry
                       THEN [registry EXCEPT ![id].gen = facing.gen] ELSE registry
  BY <1>1 DEF Phone!Present
<1>3. /\ place \in [Slots -> SlotStates]
      /\ \A t \in Slots : place[t].for = slots[t].for
      /\ \A t \in Slots : place[t].picture = slots[t].picture
      /\ \A t \in Slots : place[t].at = slots[t].at \/ place[t].at = facing.gen
      /\ \A t \in Slots : slots[t].for = id /\ id # 0 => place[t].at = facing.gen
      /\ id \notin DOMAIN registry => place = slots
      /\ id \in DOMAIN registry =>
           \A t \in Slots : t # registry[id].slot => place[t] = slots[t]
      /\ Seated /\ id \in DOMAIN registry /\ Phone!Keeps(id) =>
           /\ place[registry[id].slot].rect
                = Phone!MapRectToPanel(registry[id].rect, facing.deg)
           /\ place[registry[id].slot].deg = (registry[id].cvo + facing.deg) % 360
  BY <1>1, ReappliedEffect
<1>4. facing.gen \in Nat /\ registry \in [DOMAIN registry -> Registered]
      /\ slots \in [Slots -> SlotStates]
  BY DEF PlaceInv, PlaceTypes
\* The picture goes to a slot whose place is current.
<1>5. /\ slots' \in [Slots -> SlotStates]
      /\ \A t \in Slots : slots'[t].for = slots[t].for /\ slots'[t].at = place[t].at
                          /\ slots'[t].rect = place[t].rect /\ slots'[t].deg = place[t].deg
      /\ \A t \in Slots : \/ slots'[t].picture = slots[t].picture
                          \/ slots'[t].picture = facing.gen /\ slots'[t].at = facing.gen
  <2>1. CASE drawn /\ dec.slot \in Slots
    <3> DEFINE s == dec.slot
               new == [place[s] EXCEPT !.picture = facing.gen]
    <3>1. place[s] \in SlotStates
      BY <1>3, <2>1
    <3>2. /\ new \in SlotStates /\ new.for = place[s].for /\ new.at = place[s].at
          /\ new.rect = place[s].rect /\ new.deg = place[s].deg /\ new.picture = facing.gen
      BY <3>1, <1>4 DEF SlotStates
    <3>3. slots' = [place EXCEPT ![s] = new]
      BY <1>2, <1>3, <2>1
    <3> HIDE DEF new
    <3>4. slots' \in [Slots -> SlotStates] /\ slots'[s] = new
          /\ \A t \in Slots : t # s => slots'[t] = place[t]
      BY <3>2, <3>3, <1>3, <2>1
    <3>5. place[s].at = facing.gen
      <4>1. slots[s].for = dec.attached /\ slots[s].for \in Nat /\ dec.attached # 0
        BY <2>1, <1>4 DEF SlotStates
      <4>2. id = dec.attached
        BY <4>1, <1>2
      <4> QED
        BY <4>1, <4>2, <2>1, <1>3
    <3> QED
      BY <3>2, <3>4, <3>5, <1>3, <2>1
  <2>2. CASE ~(drawn /\ dec.slot \in Slots)
    <3>1. slots' = place
      BY <1>2, <1>3, <2>2
    <3> QED
      BY <3>1, <1>3
  <2> QED
    BY <2>1, <2>2
<1> HIDE DEF drawn
<1>6. /\ DOMAIN registry' = DOMAIN registry /\ registry' \in [DOMAIN registry -> Registered]
      /\ \A j \in DOMAIN registry : j # id => registry'[j] = registry[j]
      /\ \A j \in DOMAIN registry : /\ registry'[j].slot = registry[j].slot
                                    /\ registry'[j].rect = registry[j].rect
                                    /\ registry'[j].cvo = registry[j].cvo
                                    /\ registry'[j].gen = IF j = id THEN facing.gen
                                                                    ELSE registry[j].gen
  <2>1. CASE id \in DOMAIN registry
    <3> DEFINE new == [registry[id] EXCEPT !.gen = facing.gen]
    <3>1. /\ new \in Registered /\ new.slot = registry[id].slot /\ new.rect = registry[id].rect
          /\ new.cvo = registry[id].cvo /\ new.gen = facing.gen
      <4>1. registry[id] \in Registered
        BY <1>4, <2>1
      <4> QED
        BY <4>1, <1>4 DEF Registered
    <3>2. registry' = [registry EXCEPT ![id] = new]
      BY <1>2, <1>4, <2>1
    <3> HIDE DEF new
    <3> QED
      BY <3>1, <3>2, <2>1, <1>4
  <2>2. CASE id \notin DOMAIN registry
    BY <2>2, <1>2, <1>4
  <2> QED
    BY <2>1, <2>2
<1>7. PlaceTypes'
  BY <1>2, <1>5, <1>6 DEF PlaceInv, PlaceTypes
<1>8. NothingAhead'
  <2>1. \A t \in Slots : /\ slots[t].picture \in Nat /\ slots[t].at \in Nat
                         /\ slots[t].picture <= slots[t].at /\ slots[t].at <= facing.gen
    BY DEF PlaceInv, NothingAhead, PlaceTypes, SlotStates
  <2>2. \A t \in Slots : slots'[t].picture <= slots'[t].at /\ slots'[t].at <= facing.gen
    BY <1>3, <1>4, <1>5, <2>1
  <2>3. \A j \in DOMAIN registry' : registry'[j].gen <= facing.gen
    BY <1>4, <1>6 DEF PlaceInv, NothingAhead
  <2> QED
    BY <1>2, <2>2, <2>3 DEF PlaceInv, NothingAhead
<1>9. SlotsAreKnown'
  <2> SUFFICES ASSUME NEW t \in Slots, slots'[t].for \notin {0, Phone!Preview}
               PROVE  /\ slots'[t].for \in DOMAIN registry' /\ registry'[slots'[t].for].slot = t
                      /\ registry'[slots'[t].for].gen = facing.gen => slots'[t].at = facing.gen
    BY <1>2 DEF SlotsAreKnown, Phone!Preview
  <2>1. /\ slots'[t].for = slots[t].for /\ slots'[t].at = place[t].at
        /\ slots[t].for \in DOMAIN registry /\ registry[slots[t].for].slot = t
        /\ registry[slots[t].for].gen = facing.gen => slots[t].at = facing.gen
    BY <1>5 DEF PlaceInv, SlotsAreKnown
  <2>2. CASE slots[t].for = id
    BY <2>1, <2>2, <1>3, <1>6
  <2>3. CASE slots[t].for # id
    BY <2>1, <2>3, <1>3, <1>6
  <2> QED
    BY <2>2, <2>3
<1>10. ASSUME NEW t \in Slots, id \in DOMAIN registry => t # registry[id].slot,
              NEW r, NEW content, Put(t, r, content)
       PROVE  slots'[t].rect = Phone!MapRectToPanel(r, facing.deg)
              /\ slots'[t].deg = (content + facing.deg) % 360
  BY <1>3, <1>5, <1>10 DEF Put
<1>11. ASSUME Seated PROVE Seated'
  <2>1. ASSUME NEW j \in DOMAIN registry, Phone!Keeps(j)', registry'[j].gen = facing.gen
        PROVE  Put(registry[j].slot, registry[j].rect, registry[j].cvo)'
    <3>1. /\ registry[j].slot \in Slots /\ facing' = facing
          /\ registry'[j].slot = registry[j].slot /\ registry'[j].rect = registry[j].rect
          /\ registry'[j].cvo = registry[j].cvo
      BY <1>2, <1>6 DEF PlaceInv, PlaceTypes, Registered
    <3>2. Phone!Keeps(j)
      BY <2>1, <3>1, <1>2, <1>5, <1>6 DEF Phone!Keeps
    <3>3. /\ slots'[registry[j].slot].rect
                = Phone!MapRectToPanel(registry[j].rect, facing.deg)
          /\ slots'[registry[j].slot].deg = (registry[j].cvo + facing.deg) % 360
      <4>1. CASE j = id
        BY <4>1, <3>1, <3>2, <1>3, <1>5, <1>11
      <4>2. CASE j # id
        <5>1. id \in DOMAIN registry => registry[j].slot # registry[id].slot
          BY <3>2, <4>2 DEF Phone!Keeps
        <5>2. Put(registry[j].slot, registry[j].rect, registry[j].cvo)
          BY <2>1, <3>2, <4>2, <1>6, <1>11 DEF Seated
        <5> QED
          BY <3>1, <5>1, <5>2, <1>10
      <4> QED
        BY <4>1, <4>2
    <3> QED
      BY <3>1, <3>3 DEF Put, Phone!MapRectToPanel
  <2>2. enc.slot # 0 => enc.rect \in Rects
    BY <1>11 DEF Seated
  <2>3. ASSUME enc.slot # 0, Phone!KeepsView', enc.gen = facing.gen
        PROVE  Put(enc.slot, enc.rect, Phone!Upright(enc.sensor))'
    <3>1. enc.slot \in Slots /\ Phone!KeepsView
      BY <2>3, <1>2, <1>5, <1>6
         DEF Phone!KeepsView, Phone!Preview, PlaceInv, PlaceTypes, Previews
    <3>2. Put(enc.slot, enc.rect, Phone!Upright(enc.sensor))
      BY <2>3, <3>1, <1>11 DEF Seated
    <3>3. id \in DOMAIN registry => enc.slot # registry[id].slot
      BY <3>1 DEF Phone!KeepsView
    <3>4. /\ slots'[enc.slot].rect = Phone!MapRectToPanel(enc.rect, facing.deg)
          /\ slots'[enc.slot].deg = (Phone!Upright(enc.sensor) + facing.deg) % 360
      BY <3>1, <3>2, <3>3, <1>10
    <3> QED
      BY <3>4, <1>2 DEF Put, Phone!MapRectToPanel, Phone!Upright
  <2> QED
    BY <2>1, <2>2, <2>3, <1>2, <1>6 DEF Seated
<1>12. ASSUME Housed PROVE Housed'
  <2>1. \A j \in DOMAIN registry : registry[j].slot \in Slots
    BY DEF PlaceInv, PlaceTypes, Registered
  <2>2. enc.slot # 0 => enc.slot \in Slots
    BY DEF PlaceInv, PlaceTypes, Previews
  <2> QED
    BY <2>1, <2>2, <1>2, <1>5, <1>6, <1>12 DEF Housed, Phone!Preview
<1> QED
  BY <1>7, <1>8, <1>9, <1>11, <1>12 DEF PlaceInv, PlacesKept

-----------------------------------------------------------------------------
(* Rectangles and turns.                                                   *)

\* Cell p of the panel after each number of quarter turns.
Quarters(p) ==
    [n \in 0 .. 3 |->
       CASE n = 0 -> <<p, Panel[1], Panel[2]>>
         [] n = 1 -> <<<<p[2], Panel[1] - 1 - p[1]>>, Panel[2], Panel[1]>>
         [] n = 2 -> <<<<Panel[1] - 1 - p[1], Panel[2] - 1 - p[2]>>, Panel[1], Panel[2]>>
         [] n = 3 -> <<<<Panel[2] - 1 - p[2], p[1]>>, Panel[2], Panel[1]>>]

\* What Seen's recursion computes.
LEMMA SeenTurned ==
    ASSUME NEW p \in Int \X Int, NEW deg \in Degrees
    PROVE  Phone!Seen(p, deg) = Quarters(p)[deg \div 90][1]
<1> DEFINE Turned(q) ==
             [n \in 0 .. 3 |->
                IF n = 0 THEN <<p, Panel[1], Panel[2]>>
                ELSE LET l == q[n - 1] IN <<<<l[1][2], l[2] - 1 - l[1][1]>>, l[3], l[2]>>]
           quarter == CHOOSE q : q = Turned(q)
<1>1. Quarters(p) = Turned(Quarters(p))
  <2>1. /\ Panel[1] \in Nat /\ Panel[2] \in Nat /\ p[1] \in Int /\ p[2] \in Int
    BY RectTypes
  <2>2. ASSUME NEW n \in 0 .. 3 PROVE Quarters(p)[n] = Turned(Quarters(p))[n]
    <3>1. CASE n = 0
      BY <3>1 DEF Quarters
    <3>2. CASE n = 1
      BY <2>1, <3>2 DEF Quarters
    <3>3. CASE n = 2
      BY <2>1, <3>3 DEF Quarters
    <3>4. CASE n = 3
      BY <2>1, <3>4 DEF Quarters
    <3> QED
      BY <2>2, <3>1, <3>2, <3>3, <3>4
  <2>3. DOMAIN Quarters(p) = 0 .. 3 /\ DOMAIN Turned(Quarters(p)) = 0 .. 3
    BY DEF Quarters
  <2> QED
    BY <2>2, <2>3 DEF Quarters
<1>2. quarter = Turned(quarter)
  BY <1>1
<1>3. Phone!Seen(p, deg) = quarter[deg \div 90][1]
  BY DEF Phone!Seen
<1>4. deg \div 90 \in 0 .. 3
  BY DEF Degrees
<1> HIDE DEF quarter
<1>5. quarter[0] = Quarters(p)[0]
  BY <1>1, <1>2
<1>6. quarter[1] = Quarters(p)[1]
  BY <1>1, <1>2, <1>5
<1>7. quarter[2] = Quarters(p)[2]
  BY <1>1, <1>2, <1>6
<1>8. quarter[3] = Quarters(p)[3]
  BY <1>1, <1>2, <1>7
<1> QED
  BY <1>3, <1>4, <1>5, <1>6, <1>7, <1>8

\* The turn takes the cells of a mapped rectangle to those of the rectangle.
LEMMA CellsTurned ==
    ASSUME NEW r \in Phone!Rect, NEW deg \in Degrees
    PROVE  {Phone!Seen(p, deg) : p \in Phone!Cells(Phone!MapRectToPanel(r, deg))}
             = Phone!Cells(r)
<1> DEFINE m == Phone!MapRectToPanel(r, deg)
<1>0. /\ Panel[1] \in Int /\ Panel[2] \in Int
      /\ r.x \in Int /\ r.y \in Int /\ r.w \in Nat /\ r.h \in Nat
  BY RectTypes DEF Phone!Rect
<1>1. m.x \in Int /\ m.y \in Int /\ m.w \in Nat /\ m.h \in Nat
  BY <1>0 DEF Phone!MapRectToPanel, Degrees
<1>2. \A p \in Phone!Cells(m) : p \in Int \X Int
  BY <1>1 DEF Phone!Cells
<1>3. ASSUME NEW p \in Phone!Cells(m) PROVE Phone!Seen(p, deg) \in Phone!Cells(r)
  <2>1. /\ p = <<p[1], p[2]>> /\ p[1] \in m.x .. (m.x + m.w - 1) /\ p[2] \in m.y .. (m.y + m.h - 1)
    BY DEF Phone!Cells
  <2>2. Phone!Seen(p, deg) = Quarters(p)[deg \div 90][1]
    BY <1>2, SeenTurned
  <2>3. CASE deg = 0
    BY <1>0, <2>1, <2>2, <2>3 DEF Phone!MapRectToPanel, Phone!Cells, Quarters
  <2>4. CASE deg = 90
    BY <1>0, <2>1, <2>2, <2>4 DEF Phone!MapRectToPanel, Phone!Cells, Quarters
  <2>5. CASE deg = 180
    BY <1>0, <2>1, <2>2, <2>5 DEF Phone!MapRectToPanel, Phone!Cells, Quarters
  <2>6. CASE deg = 270
    BY <1>0, <2>1, <2>2, <2>6 DEF Phone!MapRectToPanel, Phone!Cells, Quarters
  <2> QED
    BY <2>3, <2>4, <2>5, <2>6 DEF Degrees
<1>4. ASSUME NEW c \in Phone!Cells(r)
      PROVE  \E p \in Phone!Cells(m) : c = Phone!Seen(p, deg)
  <2>1. /\ c = <<c[1], c[2]>> /\ c[1] \in r.x .. (r.x + r.w - 1) /\ c[2] \in r.y .. (r.y + r.h - 1)
    BY DEF Phone!Cells
  <2> DEFINE p == CASE deg = 0 -> c
                    [] deg = 90 -> <<Panel[1] - 1 - c[2], c[1]>>
                    [] deg = 180 -> <<Panel[1] - 1 - c[1], Panel[2] - 1 - c[2]>>
                    [] deg = 270 -> <<c[2], Panel[2] - 1 - c[1]>>
  <2>2. p \in Int \X Int /\ p \in Phone!Cells(m)
    <3>1. CASE deg = 0
      BY <1>0, <2>1, <3>1 DEF Phone!MapRectToPanel, Phone!Cells
    <3>2. CASE deg = 90
      BY <1>0, <2>1, <3>2 DEF Phone!MapRectToPanel, Phone!Cells
    <3>3. CASE deg = 180
      BY <1>0, <2>1, <3>3 DEF Phone!MapRectToPanel, Phone!Cells
    <3>4. CASE deg = 270
      BY <1>0, <2>1, <3>4 DEF Phone!MapRectToPanel, Phone!Cells
    <3> QED
      BY <3>1, <3>2, <3>3, <3>4 DEF Degrees
  <2>3. Phone!Seen(p, deg) = Quarters(p)[deg \div 90][1]
    BY <2>2, SeenTurned
  <2>4. Quarters(p)[deg \div 90][1] = c
    <3>1. CASE deg = 0
      BY <1>0, <2>1, <3>1 DEF Quarters
    <3>2. CASE deg = 90
      BY <1>0, <2>1, <3>2 DEF Quarters
    <3>3. CASE deg = 180
      BY <1>0, <2>1, <3>3 DEF Quarters
    <3>4. CASE deg = 270
      BY <1>0, <2>1, <3>4 DEF Quarters
    <3> QED
      BY <3>1, <3>2, <3>3, <3>4 DEF Degrees
  <2> QED
    BY <2>2, <2>3, <2>4
<1> HIDE DEF m
<1> QED
  BY <1>3, <1>4 DEF m

\* The turn takes the angle of a place to the angle asked for.
LEMMA AngleTurned ==
    ASSUME NEW content \in Degrees, NEW deg \in Degrees
    PROVE  (((content + deg) % 360) - deg) % 360 = content
BY DEF Degrees

-----------------------------------------------------------------------------
(* Pictures.                                                               *)

\* Every step of a phone keeps the places.
LEMMA PlacesStep ==
    ASSUME RealRects, PlaceInv, [Phone!Next]_(Phone!vars)
    PROVE  PlaceInv' /\ (Seated => Seated') /\ (Housed /\ (Phone!Close => dec.slot = 0) => Housed')
<1> DEFINE Same == UNCHANGED <<facing, slots, registry, handles, nextSurf, enc>>
<1> USE DEF Phone!surfaceVars, PlacesKept
<1>1. CASE UNCHANGED Phone!vars
  BY <1>1, SamePlaces DEF Phone!vars
<1>2. CASE \E deg \in Turns : Phone!Turn(deg)
  BY <1>2, TurnKeeps
<1>3. CASE \E r \in Rects, cvo \in Contents : Phone!OpenSurface(r, cvo)
  BY <1>3, OpenKeeps
<1>4. CASE \E id \in handles, r \in Rects, cvo \in Contents : Phone!Move(id, r, cvo)
  BY <1>4, MoveKeeps
<1>5. CASE \E id \in handles : Phone!DropSurface(id) \/ Phone!Attach(id)
  <2> PICK id \in handles : Phone!DropSurface(id) \/ Phone!Attach(id)
    BY <1>5
  <2>1. CASE Phone!DropSurface(id)
    BY <2>1, DropKeeps
  <2>2. CASE Phone!Attach(id)
    <3>1. Same
      BY <2>2 DEF Phone!Attach
    <3> QED
      BY <3>1, SamePlaces
  <2> QED
    BY <2>1, <2>2
<1>6. CASE Phone!Open \/ (\E size \in Sizes : Phone!Submit(size)) \/ Phone!Finish
           \/ Phone!Reset
  <2>1. Same
    BY <1>6 DEF Phone!Open, Phone!Submit, Phone!Finish, Phone!Reset
  <2> QED
    BY <2>1, SamePlaces
<1>7. CASE Phone!Close
  BY <1>7, CloseKeeps
<1>8. CASE Phone!Decode \/ Phone!Take \/ \E f \in frames : Phone!Discard(f)
  <2>1. Same
    BY <1>8 DEF Phone!Decode, Phone!Take, Phone!Discard
  <2> QED
    BY <2>1, SamePlaces
<1>9. CASE \E f \in frames, id \in handles : Phone!Present(f, id)
  BY <1>9, PresentKeeps
<1>10. CASE \E r \in Rects, sensor \in Sensors : Phone!EncOpen(r, sensor)
  BY <1>10, EncOpenKeeps
<1>11. CASE Phone!EncNext
  BY <1>11, EncNextKeeps
<1>12. CASE \E r \in Rects : Phone!EncMove(r)
  BY <1>12, EncMoveKeeps
<1>13. CASE Phone!EncClose
  BY <1>13, EncCloseKeeps
<1> QED
  BY <1>1, <1>2, <1>3, <1>4, <1>5, <1>6, <1>7, <1>8, <1>9, <1>10, <1>11, <1>12, <1>13, Zenon
     DEF Phone!Next, Phone!Drain

\* The decoder remembers that a slot was lost.
LEMMA TornStays ==
    ASSUME [Phone!Next]_(Phone!vars), DOMAIN dec = DOMAIN Phone!NoDecoder
    PROVE  /\ DOMAIN dec' = DOMAIN Phone!NoDecoder
           /\ ~dec'.torn => ~dec.torn /\ (Phone!Close => dec.slot = 0)
<1> USE DEF Phone!NoDecoder
<1>1. CASE UNCHANGED dec /\ ~Phone!Close
  BY <1>1
<1>2. CASE Phone!Open
  BY <1>2 DEF Phone!Open, Phone!Close
<1>3. CASE Phone!Finish \/ Phone!Reset
  BY <1>3 DEF Phone!Finish, Phone!Reset, Phone!Close
<1>4. CASE Phone!Close
  BY <1>4 DEF Phone!Close
<1>5. CASE \E id \in handles : Phone!Attach(id)
  BY <1>5 DEF Phone!Attach, Phone!Close
<1>6. \/ UNCHANGED dec \/ Phone!Open \/ Phone!Finish \/ Phone!Reset \/ Phone!Close
      \/ \E id \in handles : Phone!Attach(id)
  BY DEF Phone!Next, Phone!Turn, Phone!OpenSurface, Phone!Move, Phone!DropSurface,
     Phone!Submit, Phone!Drain, Phone!Decode, Phone!Take, Phone!Discard, Phone!Present,
     Phone!EncOpen, Phone!EncNext, Phone!EncMove, Phone!EncClose, Phone!codecVars, Phone!vars
<1> QED
  BY <1>1, <1>2, <1>3, <1>4, <1>5, <1>6

\* A place that follows from what was asked for is where it was asked.
LEMMA PutIsSeen ==
    ASSUME PlaceTypes, NEW s \in Slots, NEW r \in Rects, NEW content \in Degrees,
           Put(s, r, content)
    PROVE  Phone!SeenAs(s, r, content)
<1>1. facing.deg \in Degrees /\ r \in Phone!Rect
  BY RectTypes DEF PlaceTypes
<1>2. {Phone!Seen(p, facing.deg) : p \in Phone!Cells(slots[s].rect)} = Phone!Cells(r)
  BY <1>1, CellsTurned DEF Put
<1>3. (slots[s].deg - facing.deg) % 360 = content
  BY <1>1, AngleTurned DEF Put
<1> QED
  BY <1>2, <1>3 DEF Phone!SeenAs

\* Who has what he asked for has it to himself.
LEMMA HousedIsKept ==
    ASSUME PlaceInv, Housed
    PROVE  /\ \A id \in DOMAIN registry : Phone!Keeps(id)
           /\ enc.slot # 0 => Phone!KeepsView
<1>1. ASSUME NEW id \in DOMAIN registry PROVE id # Phone!Preview /\ registry[id].slot # 0
  BY RectTypes DEF PlaceInv, PlaceTypes, Registered
<1> QED
  BY <1>1 DEF Housed, Phone!Keeps, Phone!KeepsView

\* Once a decoder had a slot and is gone, some may have lost theirs.
PlacesInv ==
    /\ PlaceInv /\ Seated /\ (~dec.torn => Housed)
    /\ DOMAIN dec = DOMAIN Phone!NoDecoder

\* What the runs check follows.
LEMMA PlacesAreSeen == PlacesInv => Phone!PlacedWhereAsked
<1> SUFFICES ASSUME PlacesInv PROVE Phone!PlacedWhereAsked
  OBVIOUS
<1>1. PlaceInv /\ PlaceTypes /\ Seated
      /\ (~dec.torn => \A id \in DOMAIN registry : Phone!Keeps(id))
      /\ (~dec.torn => (enc.slot # 0 => Phone!KeepsView))
  BY HousedIsKept DEF PlacesInv, PlaceInv
<1>2. ASSUME NEW id \in DOMAIN registry, registry[id].gen = facing.gen,
             dec.torn => Phone!Keeps(id)
      PROVE  Phone!SeenAs(registry[id].slot, registry[id].rect, registry[id].cvo)
  <2>1. registry[id].slot \in Slots /\ registry[id].rect \in Rects /\ registry[id].cvo \in Degrees
    BY <1>1 DEF PlaceTypes, Registered
  <2>2. Put(registry[id].slot, registry[id].rect, registry[id].cvo)
    BY <1>1, <1>2 DEF Seated
  <2> QED
    BY <1>1, <2>1, <2>2, PutIsSeen
<1>3. ASSUME enc.slot # 0, enc.gen = facing.gen, dec.torn => Phone!KeepsView
      PROVE  Phone!SeenAs(enc.slot, enc.rect, Phone!Upright(enc.sensor))
  <2>1. enc.slot \in Slots /\ enc.rect \in Rects /\ Phone!Upright(enc.sensor) \in Degrees
    BY <1>1, <1>3, UprightType DEF PlaceTypes, Previews, Seated
  <2>2. Put(enc.slot, enc.rect, Phone!Upright(enc.sensor))
    BY <1>1, <1>3 DEF Seated
  <2> QED
    BY <1>1, <2>1, <2>2, PutIsSeen
<1> QED
  BY <1>2, <1>3 DEF Phone!PlacedWhereAsked

\* At the start nothing is anywhere.
LEMMA PlacesStart == Phone!Init => PlacesInv
<1> SUFFICES ASSUME Phone!Init PROVE PlacesInv
  OBVIOUS
<1>1. /\ facing = [deg |-> 0, gen |-> 0] /\ slots = [s \in Slots |-> Phone!Free]
      /\ registry = <<>> /\ handles = {} /\ nextSurf = 1 /\ dec = Phone!NoDecoder
      /\ enc = Phone!NoEncoder
  BY DEF Phone!Init
<1>2. enc.slot = 0 /\ enc.gen = 0 /\ enc \in Previews
  BY <1>1, RectTypes DEF Phone!NoEncoder, Previews, Phone!NoRect, Degrees
<1>3. /\ Phone!Free \in SlotStates
      /\ Phone!Free.for = 0 /\ Phone!Free.at = 0 /\ Phone!Free.picture = 0
  BY RectTypes DEF Phone!Free, SlotStates, Phone!NoRect
<1>4. DOMAIN registry = {}
  BY <1>1
<1>5. PlaceTypes
  <2>1. registry \in [DOMAIN registry -> Registered]
    BY <1>1, <1>4
  <2>2. slots \in [Slots -> SlotStates]
    BY <1>1, <1>3
  <2>3. facing \in [deg : Degrees, gen : Nat] /\ facing.gen = 0
    BY <1>1 DEF Degrees
  <2> QED
    BY <1>1, <1>2, <1>4, <2>1, <2>2, <2>3, RectTypes DEF PlaceTypes
<1>6. NothingAhead /\ SlotsAreKnown
  BY <1>1, <1>2, <1>3, <1>4 DEF NothingAhead, SlotsAreKnown
<1>7. Seated /\ Housed
  BY <1>2, <1>4 DEF Seated, Housed
<1> QED
  BY <1>1, <1>5, <1>6, <1>7 DEF PlacesInv, PlaceInv

\* A step keeps what was asked for, until a decoder that had a slot is dropped
\* with those who have their slots to themselves.
LEMMA PlacesInvStep ==
    ASSUME RealRects, PlacesInv, [Phone!Next]_(Phone!vars)
    PROVE  PlacesInv'
<1>1. PlaceInv' /\ Seated' /\ (Housed /\ (Phone!Close => dec.slot = 0) => Housed')
  BY PlacesStep DEF PlacesInv
<1>2. /\ DOMAIN dec' = DOMAIN Phone!NoDecoder
      /\ ~dec'.torn => ~dec.torn /\ (Phone!Close => dec.slot = 0)
  BY TornStays DEF PlacesInv
<1> QED
  BY <1>1, <1>2 DEF PlacesInv, Phone!NoDecoder

\* Until a decoder that drew on a surface is dropped, every surface and the
\* self-view are where their owner asked for them, after any turns; after that,
\* whoever still has his slot to himself; and no picture is newer than its place.
THEOREM PicturesKeepTheirPlaces ==
    ASSUME RealRects
    PROVE  HostSpec => []PicturesAreInPlace
<1>1. Phone!Init => PlacesInv
  BY PlacesStart
<1>2. PlacesInv /\ [Phone!Next]_(Phone!vars) => PlacesInv'
  BY PlacesInvStep
<1>3. PlacesInv => PicturesAreInPlace
  <2>1. PlaceInv => Phone!PicturesAreUpright
    BY DEF PlaceInv, NothingAhead, Phone!PicturesAreUpright
  <2> QED
    BY <2>1, PlacesAreSeen DEF PicturesAreInPlace, PlacesInv
<1> QED
  BY <1>1, <1>2, <1>3, PartsRun, PTL DEF Phone!Spec
=============================================================================
