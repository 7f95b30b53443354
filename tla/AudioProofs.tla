---------------------------- MODULE AudioProofs -----------------------------
(***************************************************************************)
(* Theorems of the audio layer.  A behaviour of the host is one of each    *)
(* part (PartsImplemented); each part has an inductive invariant of its    *)
(* own, and what the runs check follows from those.                        *)
(*                                                                         *)
(* Frames are numbered as they are written or recorded, so that order and  *)
(* completeness are one statement: Newest(s, n), the frames of s are the   *)
(* last ones numbered up to n.                                             *)
(***************************************************************************)
EXTENDS CallPumpProofs, HostAudio, SequenceTheorems, WellFoundedInduction, TLAPS

\* A behaviour of the whole is one of each part.
LEMMA PartsImplemented ==
    HostSpec => Spec /\ Desk!Spec /\ AAudio!Spec /\ Capture!Spec /\ Controls!Spec
<1>1. HostInit => Init /\ Desk!Init /\ AAudio!Init /\ Capture!Init /\ Controls!Init
  BY DEF HostInit
<1> USE DEF HostNext, OfPump, OfDesk, OfAAudio, OfCapture, OfControls, hostVars,
        deskVars, aaudioVars, captureVars, controlVars
<1>2. [HostNext]_hostVars => [Next]_vars
  BY DEF vars
<1>3. [HostNext]_hostVars => [Desk!Next]_(Desk!vars)
  BY DEF Desk!vars
<1>4. [HostNext]_hostVars => [AAudio!Next]_(AAudio!vars)
  BY DEF AAudio!vars
<1>5. [HostNext]_hostVars => [Capture!Next]_(Capture!vars)
  BY DEF Capture!vars
<1>6. [HostNext]_hostVars => [Controls!Next]_(Controls!vars)
  BY DEF Controls!vars
<1> QED
  BY <1>1, <1>2, <1>3, <1>4, <1>5, <1>6, PTL
     DEF HostSpec, Spec, Desk!Spec, AAudio!Spec, Capture!Spec, Controls!Spec


-----------------------------------------------------------------------------
(* Division.                                                               *)

LEMMA DivMod ==
    ASSUME NEW x \in Int, NEW d \in Nat \ {0}
    PROVE  /\ x \div d \in Int /\ x % d \in 0..(d - 1)
           /\ x - (x \div d) * d \in 0..(d - 1)
           /\ x \in Nat => x \div d \in Nat
OBVIOUS

\* What lies below a multiple is divided below its factor, and conversely.
LEMMA DivBounds ==
    ASSUME NEW x \in Int, NEW d \in Nat \ {0}, NEW m \in Int
    PROVE  /\ x < m * d => x \div d < m
           /\ x >= m * d => x \div d >= m
<1>1. x \div d \in Int /\ x - (x \div d) * d \in 0..(d - 1)
  BY DivMod
<1> DEFINE q == x \div d
<1> HIDE DEF q
<1>2. q \in Int /\ x >= q * d /\ x < q * d + d
  BY <1>1 DEF q
<1>3. ASSUME x < m * d, q >= m PROVE FALSE
  <2>1. q * d >= m * d
    BY <1>2, <1>3
  <2> QED
    BY <1>2, <1>3, <2>1
<1>4. ASSUME x >= m * d, q < m PROVE FALSE
  <2>1. (q + 1) * d <= m * d
    BY <1>2, <1>4
  <2>2. (q + 1) * d = q * d + d
    BY <1>2
  <2> QED
    BY <1>2, <1>4, <2>1, <2>2
<1> QED
  BY <1>2, <1>3, <1>4 DEF q



-----------------------------------------------------------------------------
(* Sequences of frames numbered without a gap.                             *)

\* The frames of s are the last ones numbered up to n.
Newest(s, n) == \A i \in 1..Len(s) : s[i] = n - Len(s) + i

LEMMA NumberedOn ==
    ASSUME NEW n \in Nat, NEW k \in Nat, NEW m \in Nat, n + k <= m
    PROVE  [i \in 1..k |-> n + i] \in Seq(1..m)
OBVIOUS

\* More frames, numbered on.
LEMMA NewestExtended ==
    ASSUME NEW s \in Seq(Nat), NEW n \in Nat, NEW k \in Nat, Newest(s, n)
    PROVE  LET t == s \o [i \in 1..k |-> n + i]
           IN  t \in Seq(Nat) /\ Len(t) = Len(s) + k /\ Newest(t, n + k)
<1> DEFINE new == [i \in 1..k |-> n + i]
           t == s \o new
<1>1. new \in Seq(Nat) /\ Len(new) = k
  OBVIOUS
<1>2. \A i \in 1..k : new[i] = n + i
  OBVIOUS
<1>3. Len(s) \in Nat
  BY LenProperties
<1> HIDE DEF new
<1>4. /\ t \in Seq(Nat) /\ Len(t) = Len(s) + k
      /\ \A i \in 1..(Len(s) + k) : t[i] = IF i <= Len(s) THEN s[i] ELSE new[i - Len(s)]
  BY <1>1, ConcatProperties
<1> HIDE DEF t
<1>5. ASSUME NEW i \in 1..(Len(s) + k) PROVE t[i] = (n + k) - (Len(s) + k) + i
  <2>1. CASE i <= Len(s)
    <3>1. i \in 1..Len(s)
      BY <1>3, <2>1
    <3>2. t[i] = n - Len(s) + i
      BY <1>4, <2>1, <3>1 DEF Newest
    <3> QED
      BY <1>3, <3>2
  <2>2. CASE ~(i <= Len(s))
    <3>1. i - Len(s) \in 1..k
      BY <1>3, <2>2
    <3>2. t[i] = n + (i - Len(s))
      BY <1>2, <1>4, <2>2, <3>1
    <3> QED
      BY <1>3, <3>2
  <2> QED
    BY <2>1, <2>2
<1>6. Newest(t, n + k)
  BY <1>4, <1>5 DEF Newest
<1> QED
  BY <1>4, <1>6 DEF t, new

\* The oldest frames given up.
LEMMA NewestShortened ==
    ASSUME NEW S, NEW s \in Seq(S), NEW m \in 0..Len(s)
    PROVE  /\ SubSeq(s, m + 1, Len(s)) \in Seq(S)
           /\ Len(SubSeq(s, m + 1, Len(s))) = Len(s) - m
           /\ \A n \in Int : Newest(s, n) => Newest(SubSeq(s, m + 1, Len(s)), n)
<1> DEFINE t == SubSeq(s, m + 1, Len(s))
<1>1. Len(s) \in Nat /\ \A i \in m + 1 .. Len(s) : s[i] \in S
  BY LenProperties, ElementOfSeq
<1>2. /\ t \in Seq(S) /\ Len(t) = Len(s) - m
      /\ \A i \in 1..(Len(s) - m) : t[i] = s[m + i]
  <2>1. m + 1 \in Int /\ Len(s) \in Int /\ Len(s) - (m + 1) + 1 = Len(s) - m
    BY <1>1
  <2>2. /\ t \in Seq(S)
        /\ Len(t) = IF m + 1 <= Len(s) THEN Len(s) - (m + 1) + 1 ELSE 0
        /\ \A i \in 1 .. Len(s) - (m + 1) + 1 : t[i] = s[m + 1 + i - 1]
    BY <1>1, <2>1, SubSeqProperties
  <2>3. Len(t) = Len(s) - m
    BY <1>1, <2>2
  <2>4. ASSUME NEW i \in 1..(Len(s) - m) PROVE t[i] = s[m + i]
    <3>1. m + 1 + i - 1 = m + i
      OBVIOUS
    <3> QED
      BY <2>1, <2>2, <3>1
  <2> QED
    BY <2>2, <2>3, <2>4
<1> HIDE DEF t
<1>3. ASSUME NEW n \in Int, Newest(s, n) PROVE Newest(t, n)
  <2>1. ASSUME NEW i \in 1..(Len(s) - m) PROVE t[i] = n - (Len(s) - m) + i
    <3>1. m + i \in 1..Len(s)
      BY <1>1
    <3>2. t[i] = n - Len(s) + (m + i)
      BY <1>2, <3>1, <1>3 DEF Newest
    <3> QED
      BY <1>1, <3>2
  <2> QED
    BY <1>2, <2>1 DEF Newest
<1> QED
  BY <1>2, <1>3 DEF t

\* Frames joined to those that follow them.
LEMMA NewestJoined ==
    ASSUME NEW S, NEW s \in Seq(S), NEW t \in Seq(S), NEW n \in Int,
           Newest(s, n - Len(t)), Newest(t, n)
    PROVE  Newest(s \o t, n)
<1> DEFINE u == s \o t
<1>1. /\ Len(s) \in Nat /\ Len(t) \in Nat /\ Len(u) = Len(s) + Len(t)
      /\ \A i \in 1..(Len(s) + Len(t)) : u[i] = IF i <= Len(s) THEN s[i] ELSE t[i - Len(s)]
  BY LenProperties, ConcatProperties
<1> HIDE DEF u
<1>2. ASSUME NEW i \in 1..(Len(s) + Len(t)) PROVE u[i] = n - (Len(s) + Len(t)) + i
  <2>1. CASE i <= Len(s)
    <3>1. i \in 1..Len(s) /\ u[i] = s[i]
      BY <1>1, <2>1
    <3>2. u[i] = n - Len(t) - Len(s) + i
      BY <3>1 DEF Newest
    <3> QED
      BY <1>1, <3>2
  <2>2. CASE ~(i <= Len(s))
    <3>1. i - Len(s) \in 1..Len(t) /\ u[i] = t[i - Len(s)]
      BY <1>1, <2>2
    <3>2. u[i] = n - Len(t) + (i - Len(s))
      BY <3>1 DEF Newest
    <3> QED
      BY <1>1, <3>2
  <2> QED
    BY <2>1, <2>2
<1> QED
  BY <1>1, <1>2 DEF Newest, u

\* The next frame appended.
LEMMA NewestAppended ==
    ASSUME NEW S, NEW s \in Seq(S), NEW n \in Nat, n + 1 \in S, Newest(s, n)
    PROVE  /\ Append(s, n + 1) \in Seq(S) /\ Len(Append(s, n + 1)) = Len(s) + 1
           /\ Newest(Append(s, n + 1), n + 1)
<1> DEFINE u == Append(s, n + 1)
<1>1. /\ Len(s) \in Nat /\ u \in Seq(S) /\ Len(u) = Len(s) + 1
      /\ \A i \in 1..Len(s) : u[i] = s[i]
      /\ u[Len(s) + 1] = n + 1
  BY LenProperties, AppendProperties
<1> HIDE DEF u
<1>2. ASSUME NEW i \in 1..(Len(s) + 1) PROVE u[i] = (n + 1) - (Len(s) + 1) + i
  <2>1. CASE i \in 1..Len(s)
    BY <1>1, <2>1 DEF Newest
  <2>2. CASE i = Len(s) + 1
    BY <1>1, <2>2
  <2> QED
    BY <1>1, <2>1, <2>2
<1> QED
  BY <1>1, <1>2 DEF Newest, u



-----------------------------------------------------------------------------
(* The inductive invariant.                                                *)

\* A stream that runs has no more events waiting than the mixer moved bursts
\* since the guest last drained them.
EventsDrained == AAudio!Suspended \/ events <= quiet

AAudioInv ==
    AAudio!TypeOK /\ AAudio!NoStreamLeaks /\ EventsDrained /\ AAudio!TakenIsInFlight

-----------------------------------------------------------------------------
\* The lesser and the greater of two integers are one of the two, and in order.
LEMMA AAudioLeastMost ==
    ASSUME NEW a \in Int, NEW b \in Int
    PROVE  /\ AAudio!Least(a, b) \in {a, b} /\ AAudio!Least(a, b) <= a
           /\ AAudio!Least(a, b) <= b
           /\ AAudio!Most(a, b) \in {a, b} /\ AAudio!Most(a, b) >= a /\ AAudio!Most(a, b) >= b
BY DEF AAudio!Least, AAudio!Most

\* A write of n frames leaves the counters within the ring, the host not behind
\* the mixer, and what it took on top of what was in flight.
LEMMA WriteFits ==
    ASSUME AAudio!ConstantsOK, lead \in (-Behind)..TrackCap, NEW n \in Nat
    PROVE  /\ AAudio!RingWrite(n) \in 0..TrackCap /\ AAudio!Taken(n) \in Nat
           /\ AAudio!InFlight \in 0..TrackCap
           /\ AAudio!RingWrite(n) = AAudio!InFlight + AAudio!Taken(n)
<1> DEFINE inFlight == AAudio!Most(lead, 0)
<1>1. TrackCap \in Nat \ {0} /\ Behind \in Nat
  BY DEF AAudio!ConstantsOK
<1>2. inFlight \in 0..TrackCap
  BY <1>1, AAudioLeastMost
<1>3. /\ AAudio!Taken(n) = AAudio!Least(n, TrackCap - inFlight) /\ AAudio!InFlight = inFlight
      /\ AAudio!RingWrite(n) = inFlight + AAudio!Least(n, TrackCap - inFlight)
  BY DEF AAudio!RingWrite, AAudio!Taken, AAudio!InFlight
<1>4. /\ AAudio!Least(n, TrackCap - inFlight) \in {n, TrackCap - inFlight}
      /\ AAudio!Least(n, TrackCap - inFlight) <= TrackCap - inFlight
  BY <1>1, <1>2, AAudioLeastMost
<1> HIDE DEF inFlight
<1> QED
  BY <1>1, <1>2, <1>3, <1>4

-----------------------------------------------------------------------------
\* The invariant holds of a host that has opened nothing yet.
LEMMA AAudioInitially == ASSUME AAudio!ConstantsOK PROVE AAudio!Init => AAudioInv
BY DEF AAudio!ConstantsOK, AAudio!Init, AAudioInv, AAudio!TypeOK, AAudio!NoStreamLeaks,
   EventsDrained, AAudio!Suspended, AAudio!TakenIsInFlight

\* Every step keeps it: each way out of an open closes the service's stream or
\* leaves a track that will, and each burst and each frame taken is counted.
LEMMA AAudioInductive == ASSUME AAudio!ConstantsOK PROVE AAudio!Spec => []AAudioInv
<1>1. AAudioInv /\ [AAudio!Next]_AAudio!vars => AAudioInv'
  <2> SUFFICES ASSUME AAudioInv, [AAudio!Next]_AAudio!vars PROVE AAudioInv'
    OBVIOUS
  <2>0. /\ TrackCap \in Nat \ {0} /\ TrackBurst \in Nat \ {0} /\ Fifo \in Nat \ {0}
        /\ Behind \in Nat /\ TrackOpens \in Nat /\ TrackKinds \subseteq {"output", "capture"}
    BY DEF AAudio!ConstantsOK
  <2>t. AAudio!TypeOK /\ AAudio!NoStreamLeaks /\ EventsDrained /\ AAudio!TakenIsInFlight
    BY DEF AAudioInv
  <2> USE DEF AAudio!Suspended, AAudio!InFlight
  <2>1. ASSUME NEW kind \in TrackKinds, AAudio!Open(kind) PROVE AAudioInv'
    <3>1. opens' \in 0..TrackOpens /\ cached' \in {"none", "live", "stale"}
      BY <2>0, <2>t, <2>1 DEF AAudio!Open, AAudio!Service, AAudio!TypeOK
    <3>2. CASE /\ service' = [service EXCEPT !.stream = TRUE, !.playing = FALSE] /\ service.up
               /\ track' = [open |-> TRUE, kind |-> kind]
               /\ lead' = 0 /\ events' = 0 /\ quiet' = 0 /\ unheard' = 0
      <4>1. /\ service' \in [up : BOOLEAN, stream : BOOLEAN, playing : BOOLEAN]
            /\ service'.up /\ track'.open
        BY <2>t, <3>2 DEF AAudio!TypeOK
      <4>2. track' \in [open : BOOLEAN, kind : {"output", "capture"}]
        BY <2>0, <3>2
      <4>3. /\ lead' \in (-Behind)..TrackCap /\ events' \in 0..(Fifo + 1)
            /\ quiet' \in 0..(Fifo + 1) /\ unheard' \in Int /\ AAudio!Most(lead', 0) = 0
        BY <2>0, <3>2 DEF AAudio!Most
      <4> QED
        BY <3>1, <3>2, <4>1, <4>2, <4>3 DEF AAudioInv, AAudio!TypeOK, AAudio!NoStreamLeaks,
           EventsDrained, AAudio!TakenIsInFlight
    <3>3. CASE /\ (\E stage \in AAudio!Stages : service' = AAudio!Abort(stage))
               /\ UNCHANGED <<track, lead, events, quiet, unheard>>
      BY <2>t, <3>1, <3>3 DEF AAudioInv, AAudio!TypeOK, AAudio!NoStreamLeaks, EventsDrained,
         AAudio!TakenIsInFlight, AAudio!Abort
    <3>4. CASE UNCHANGED <<service, track, lead, events, quiet, unheard>>
      BY <2>t, <3>1, <3>4 DEF AAudioInv, AAudio!TypeOK, AAudio!NoStreamLeaks, EventsDrained,
         AAudio!TakenIsInFlight
    <3> QED
      BY <2>1, <3>2, <3>3, <3>4 DEF AAudio!Open
  <2>2. CASE AAudio!Write
    <3>1. PICK n \in 1..(TrackCap + 1) :
            lead' = AAudio!RingWrite(n) /\ unheard' = unheard + AAudio!Taken(n)
      BY <2>2 DEF AAudio!Write
    <3>a. /\ UNCHANGED <<service, cached, track, opens>> /\ quiet' = 0
          /\ track.open /\ track.kind = "output"
          /\ events' = IF AAudio!Suspended THEN events ELSE 0
      BY <2>2 DEF AAudio!Write, AAudio!Live
    <3>2. /\ lead' \in 0..TrackCap /\ AAudio!Taken(n) \in Nat /\ AAudio!Most(lead, 0) \in Nat
          /\ lead' = AAudio!Most(lead, 0) + AAudio!Taken(n)
      BY <2>0, <2>t, <3>1, WriteFits DEF AAudio!TypeOK
    <3>3. events' \in 0..(Fifo + 1) /\ EventsDrained'
      BY <2>0, <2>t, <3>a DEF AAudio!TypeOK, EventsDrained
    <3>4. unheard' = AAudio!Most(lead', 0) /\ unheard' \in Int
      <4>1. unheard = AAudio!Most(lead, 0)
        BY <2>t, <3>a DEF AAudio!TakenIsInFlight
      <4>2. AAudio!Most(lead', 0) = lead'
        BY <2>0, <3>2 DEF AAudio!Most
      <4> QED
        BY <3>1, <3>2, <4>1, <4>2
    <3>5. lead' \in (-Behind)..TrackCap
      BY <2>0, <3>2
    <3> QED
      BY <2>0, <2>t, <3>a, <3>3, <3>4, <3>5 DEF AAudioInv, AAudio!TypeOK,
         AAudio!NoStreamLeaks, AAudio!TakenIsInFlight
  <2>4. CASE AAudio!Read
    <3>1. PICK n \in 1..(TrackCap + 1) : lead' = lead - AAudio!Least(n, lead)
      BY <2>4 DEF AAudio!Read
    <3>a. /\ UNCHANGED <<service, cached, track, unheard, opens>> /\ quiet' = 0
          /\ track.kind = "capture" /\ events' = IF AAudio!Suspended THEN events ELSE 0
      BY <2>4 DEF AAudio!Read, AAudio!Live
    <3>2. lead' \in (-Behind)..TrackCap
      BY <2>0, <2>t, <3>1 DEF AAudio!TypeOK, AAudio!Least
    <3>3. events' \in 0..(Fifo + 1) /\ EventsDrained'
      BY <2>0, <2>t, <3>a DEF AAudio!TypeOK, EventsDrained
    <3> QED
      BY <2>0, <2>t, <3>a, <3>2, <3>3 DEF AAudioInv, AAudio!TypeOK, AAudio!NoStreamLeaks,
         AAudio!TakenIsInFlight
  <2>5. ASSUME NEW on \in BOOLEAN, AAudio!SetPlaying(on) PROVE AAudioInv'
    BY <2>t, <2>5 DEF AAudio!SetPlaying, AAudio!Service, AAudioInv, AAudio!TypeOK,
       AAudio!NoStreamLeaks, EventsDrained, AAudio!TakenIsInFlight
  <2>6. CASE AAudio!Close
    BY <2>t, <2>6 DEF AAudio!Close, AAudio!Service, AAudioInv, AAudio!TypeOK,
       AAudio!NoStreamLeaks, EventsDrained, AAudio!TakenIsInFlight
  <2>7. CASE AAudio!Mix
    <3>1. /\ quiet' \in 0..(Fifo + 1) /\ ~AAudio!Suspended /\ UNCHANGED <<service, cached, track, opens>>
          /\ quiet' = IF quiet = Fifo + 1 THEN quiet ELSE quiet + 1
      BY <2>0, <2>t, <2>7 DEF AAudio!Mix, AAudio!TypeOK, AAudio!Least
    <3>2. lead' \in (-Behind)..TrackCap
      BY <2>0, <2>t, <2>7 DEF AAudio!Mix, AAudio!TypeOK, AAudio!Least, AAudio!Most
    <3>3. events' \in 0..(Fifo + 1) /\ events' \in {events, events + 1}
      BY <2>0, <2>t, <2>7 DEF AAudio!Mix, AAudio!TypeOK
    <3>4. EventsDrained'
      BY <2>0, <2>t, <3>1, <3>3 DEF AAudio!TypeOK, EventsDrained
    <3>5. unheard' \in Int /\ AAudio!TakenIsInFlight'
      <4>1. CASE track.kind = "capture"
        BY <2>t, <2>7, <4>1, <3>1 DEF AAudio!Mix, AAudio!TakenIsInFlight, AAudio!TypeOK
      <4>2. CASE track.kind # "capture"
        <5>1. /\ lead' = AAudio!Most(lead - TrackBurst, -Behind) /\ track.open
              /\ unheard' = unheard - AAudio!Least(AAudio!Most(lead, 0), TrackBurst)
              /\ track.kind = "output"
          BY <2>t, <2>7, <4>2 DEF AAudio!Mix, AAudio!TypeOK
        <5>2. unheard = AAudio!Most(lead, 0) /\ lead \in Int
          BY <2>t, <5>1 DEF AAudio!TakenIsInFlight, AAudio!TypeOK
        <5>3. unheard' = AAudio!Most(lead', 0) /\ unheard' \in Int
          BY <2>0, <5>1, <5>2 DEF AAudio!Least, AAudio!Most
        <5> QED
          BY <5>3 DEF AAudio!TakenIsInFlight
      <4> QED
        BY <4>1, <4>2
    <3> QED
      BY <2>0, <2>t, <3>1, <3>2, <3>3, <3>4, <3>5 DEF AAudioInv, AAudio!TypeOK,
         AAudio!NoStreamLeaks
  <2>8. CASE AAudio!ServerDies
    BY <2>t, <2>8 DEF AAudio!ServerDies, AAudioInv, AAudio!TypeOK, AAudio!NoStreamLeaks,
       EventsDrained, AAudio!TakenIsInFlight
  <2>9. CASE AAudio!ServerComes
    BY <2>t, <2>9 DEF AAudio!ServerComes, AAudioInv, AAudio!TypeOK, AAudio!NoStreamLeaks,
       EventsDrained, AAudio!TakenIsInFlight
  <2>10. CASE UNCHANGED AAudio!vars
    BY <2>t, <2>10 DEF AAudio!vars, AAudioInv, AAudio!TypeOK, AAudio!NoStreamLeaks,
       EventsDrained, AAudio!TakenIsInFlight
  <2> QED
    BY <2>1, <2>2, <2>4, <2>5, <2>6, <2>7, <2>8, <2>9, <2>10 DEF AAudio!Next,
       AAudio!Start, AAudio!Pause
<1> QED
  BY <1>1, AAudioInitially, PTL DEF AAudio!Spec

-----------------------------------------------------------------------------
\* Every variable keeps its type and the host never laps the mixer.
LEMMA AAudioTyped == ASSUME AAudio!ConstantsOK PROVE AAudio!Spec => []AAudio!TypeOK
BY AAudioInductive, PTL DEF AAudioInv

\* No error path of an open, no close and no death of audioserver leaves a stream
\* open there that no track of the host will close.
LEMMA AAudioNothingLeaks == ASSUME AAudio!ConstantsOK PROVE AAudio!Spec => []AAudio!NoStreamLeaks
BY AAudioInductive, PTL DEF AAudioInv

\* A stream that gets suspended was left alone for more bursts than the event
\* queue has places: whoever writes in time, however little, keeps it.
LEMMA StallsSuspend == ASSUME AAudio!ConstantsOK PROVE AAudio!Spec => AAudio!OnlyStallsSuspend
<1>1. AAudioInv /\ AAudioInv' /\ [AAudio!Next]_AAudio!vars
        => [~AAudio!Suspended /\ AAudio!Suspended' => quiet' > Fifo]_AAudio!vars
  <2> SUFFICES ASSUME AAudioInv, AAudio!Next, ~AAudio!Suspended, AAudio!Suspended'
               PROVE  quiet' > Fifo
    OBVIOUS
  <2>1. AAudio!TypeOK /\ EventsDrained /\ Fifo \in Nat
    BY DEF AAudioInv, AAudio!ConstantsOK
  <2>2. AAudio!Mix \/ events' \in {events, 0}
    BY DEF AAudio!Next, AAudio!Open, AAudio!Write, AAudio!Read, AAudio!Start, AAudio!Pause,
       AAudio!SetPlaying, AAudio!Close, AAudio!ServerDies, AAudio!ServerComes
  <2>3. AAudio!Mix
    BY <2>1, <2>2 DEF AAudio!Suspended, AAudio!TypeOK
  <2>4. events' \in {events, events + 1} /\ quiet' = AAudio!Least(quiet + 1, Fifo + 1)
    BY <2>3 DEF AAudio!Mix
  <2> QED
    BY <2>1, <2>4 DEF AAudio!Suspended, AAudio!TypeOK, EventsDrained, AAudio!Least
<1> QED
  BY <1>1, AAudioInductive, PTL DEF AAudio!Spec, AAudio!OnlyStallsSuspend

\* Of a stream that is open, what was taken and not played is what is in flight.
LEMMA TakenAndHeard == ASSUME AAudio!ConstantsOK PROVE AAudio!Spec => AAudio!TakenIsHeard
<1>1. AAudioInv => AAudio!TakenIsInFlight
  BY DEF AAudioInv
<1> QED
  BY <1>1, AAudioInductive, PTL DEF AAudio!TakenIsHeard


-----------------------------------------------------------------------------
(* Desktop audio: the inductive invariant.                                 *)

DeskCounts == [in : 0..DeskFrames, got : 0..DeskFrames, shown : Nat]
DeskStreams == [kind : {"closed", "failed", "gone", "playback", "capture"},
                num : Nat \ {0}, den : Nat \ {0}, running : BOOLEAN, mix : BOOLEAN]

\* Nothing has happened to a stream that is not open yet.
Untouched ==
    stream.kind = "closed" =>
        /\ stream = Desk!Closed /\ deskRing = <<>> /\ cursor = 0 /\ carry = FALSE
        /\ emitted = 0 /\ deskGuest = Desk!Idle /\ tally = [in |-> 0, got |-> 0, shown |-> 0]

\* The position last shown never exceeds what has left the ring, nor what will
\* have left it when a flush has cleared what it read.
DeskClock ==
    /\ deskGuest # Desk!Idle => stream.kind = "playback"
    /\ stream.kind = "playback" =>
           /\ Len(deskRing) <= emitted /\ tally.shown <= emitted - Len(deskRing)
           /\ deskGuest # Desk!Idle => /\ Len(deskRing) <= deskGuest /\ deskGuest <= emitted
                                       /\ tally.shown <= emitted - deskGuest

\* The ring holds the frames last entered, unless it is resampled on the way in.
OneForOne == stream.kind = "playback" \/ (stream.kind = "capture" /\ Desk!Num = Desk!Den)
DeskOrder == OneForOne => Newest(deskRing, tally.in)

DeskInv ==
    /\ Desk!TypeOK /\ Untouched /\ Desk!CursorInFirstFrame /\ DeskClock /\ DeskOrder
    /\ Desk!MixFormatOpens

LEMMA DeskNumbers ==
    ASSUME Desk!ConstantsOK, Desk!TypeOK
    PROVE  /\ DeskCap \in Nat \ {0} /\ DeskBurst \in Nat \ {0} /\ DeskFrames \in Nat
           /\ stream \in DeskStreams /\ tally \in DeskCounts
           /\ Desk!Num \in Nat \ {0} /\ Desk!Den \in Nat \ {0}
           /\ tally.in \in Nat /\ tally.got \in Nat /\ tally.shown \in Nat
           /\ emitted \in Nat /\ cursor \in Int /\ deskGuest \in Int
           /\ deskRing \in Seq(1..DeskFrames) /\ deskRing \in Seq(Nat)
           /\ Len(deskRing) \in 0..DeskCap
<1>1. /\ DeskCap \in Nat \ {0} /\ DeskBurst \in Nat \ {0} /\ DeskFrames \in Nat
  BY DEF Desk!ConstantsOK
<1>2. deskRing \in Seq(1..DeskFrames) /\ Len(deskRing) <= DeskCap /\ 1..DeskFrames \subseteq Nat
  BY DEF Desk!TypeOK
<1>3. deskRing \in Seq(Nat) /\ Len(deskRing) \in Nat
  BY <1>2, SeqMonotonic, LenProperties
<1>4. stream \in DeskStreams /\ tally \in DeskCounts /\ emitted \in Nat /\ cursor \in Int
  BY DEF Desk!TypeOK, DeskStreams, DeskCounts
<1>5. deskGuest \in Int
  BY <1>1 DEF Desk!TypeOK, Desk!Idle
<1>6. Desk!Num \in Nat \ {0} /\ Desk!Den \in Nat \ {0}
  BY <1>4 DEF DeskStreams, Desk!Num, Desk!Den
<1>7. tally.in \in Nat /\ tally.got \in Nat /\ tally.shown \in Nat
  BY <1>1, <1>4 DEF DeskCounts
<1> QED
  BY <1>1, <1>2, <1>3, <1>4, <1>5, <1>6, <1>7

LEMMA DeskInitially == ASSUME Desk!ConstantsOK PROVE Desk!Init => DeskInv
<1> SUFFICES ASSUME Desk!Init PROVE DeskInv
  OBVIOUS
<1>1. DeskFrames \in Nat /\ DeskCap \in Nat
  BY DEF Desk!ConstantsOK
<1>2. <<>> \in Seq(1..DeskFrames) /\ Len(<<>>) = 0
  BY EmptySeq
<1>3. /\ stream = Desk!Closed /\ stream.kind = "closed" /\ deskRing = <<>>
      /\ deskGuest = Desk!Idle /\ cursor = 0
  BY DEF Desk!Init, Desk!Closed
<1>4. Desk!TypeOK
  <2>1. stream \in DeskStreams /\ tally \in DeskCounts
    BY <1>1 DEF Desk!Init, Desk!Closed, DeskStreams, DeskCounts
  <2>2. deskRing \in Seq(1..DeskFrames) /\ Len(deskRing) <= DeskCap
    BY <1>1, <1>2, <1>3
  <2>3. cursor \in Int /\ emitted \in Nat /\ deskGuest \in {Desk!Idle} \union 0..DeskCap
    BY DEF Desk!Init
  <2>4. carry \in BOOLEAN
    BY Zenon DEF Desk!Init
  <2> QED
    BY <2>1, <2>2, <2>3, <2>4 DEF Desk!TypeOK, DeskStreams, DeskCounts
<1>5. Untouched
  BY <1>3 DEF Desk!Init, Untouched
<1>6. Desk!CursorInFirstFrame /\ DeskClock /\ DeskOrder /\ Desk!MixFormatOpens
  BY <1>3 DEF Desk!CursorInFirstFrame, DeskClock, DeskOrder, OneForOne, Desk!MixFormatOpens
<1> QED
  BY <1>4, <1>5, <1>6 DEF DeskInv

\* What one of two sequences holds their concatenation holds.
Holds(s, x) == \E i \in DOMAIN s : s[i] = x

LEMMA InConcat ==
    ASSUME NEW S, NEW s \in Seq(S), NEW t \in Seq(S), NEW x,
           Holds(s, x) \/ Holds(t, x)
    PROVE  s \o t \in Seq(S) /\ Holds(s \o t, x)
<1> DEFINE u == s \o t
<1>1. /\ Len(s) \in Nat /\ Len(t) \in Nat /\ DOMAIN s = 1..Len(s) /\ DOMAIN t = 1..Len(t)
      /\ u \in Seq(S) /\ Len(u) = Len(s) + Len(t)
      /\ \A i \in 1..(Len(s) + Len(t)) : u[i] = IF i <= Len(s) THEN s[i] ELSE t[i - Len(s)]
  BY LenProperties, ConcatProperties
<1> HIDE DEF u
<1>2. DOMAIN u = 1..(Len(s) + Len(t))
  BY <1>1, LenProperties
<1>3. CASE Holds(s, x)
  <2>1. PICK i \in 1..Len(s) : s[i] = x
    BY <1>1, <1>3 DEF Holds
  <2>2. i \in 1..(Len(s) + Len(t)) /\ u[i] = x
    BY <1>1, <2>1
  <2> QED
    BY <1>1, <1>2, <2>2 DEF u, Holds
<1>4. CASE Holds(t, x)
  <2>1. PICK i \in 1..Len(t) : t[i] = x
    BY <1>1, <1>4 DEF Holds
  <2>2. /\ Len(s) + i \in 1..(Len(s) + Len(t)) /\ ~(Len(s) + i <= Len(s))
        /\ (Len(s) + i) - Len(s) = i
    BY <1>1, <2>1
  <2>3. u[Len(s) + i] = x
    BY <1>1, <2>1, <2>2
  <2> QED
    BY <1>1, <1>2, <2>2, <2>3 DEF u, Holds
<1> QED
  BY <1>3, <1>4

\* Whichever of channels and rate are the mix's own, some attempt asks for the
\* mix format, and an attempt is a pair of formats.
LEMMA MixIsAttempted ==
    ASSUME NEW sameCh \in BOOLEAN, NEW sameRate \in BOOLEAN
    PROVE  \E i \in DOMAIN Desk!Attempts(sameCh, sameRate) :
               Desk!Asked(Desk!Attempts(sameCh, sameRate)[i], sameCh, sameRate) = <<"mix", "mix">>
<1> DEFINE a == <<<<"guest", "guest">>>>
           b == IF sameCh THEN <<>> ELSE <<<<"mix", "guest">>>>
           c == IF sameRate THEN <<>> ELSE <<<<"guest", "mix">>>>
           d == IF sameCh \/ sameRate THEN <<>> ELSE <<<<"mix", "mix">>>>
<1>1. /\ a \in Seq(Desk!Formats) /\ b \in Seq(Desk!Formats) /\ c \in Seq(Desk!Formats)
      /\ d \in Seq(Desk!Formats)
  BY DEF Desk!Formats
<1>2. /\ DOMAIN a = {1} /\ a[1] = <<"guest", "guest">>
      /\ ~sameCh => DOMAIN b = {1} /\ b[1] = <<"mix", "guest">>
      /\ ~sameRate => DOMAIN c = {1} /\ c[1] = <<"guest", "mix">>
      /\ ~sameCh /\ ~sameRate => DOMAIN d = {1} /\ d[1] = <<"mix", "mix">>
  OBVIOUS
<1>3. Desk!Attempts(sameCh, sameRate) = ((a \o b) \o c) \o d
  BY DEF Desk!Attempts
<1> HIDE DEF a, b, c, d
<1>4. a \o b \in Seq(Desk!Formats) /\ (a \o b) \o c \in Seq(Desk!Formats)
  BY <1>1, ConcatProperties
<1>5. CASE sameCh /\ sameRate
  <2>1. Holds(((a \o b) \o c) \o d, <<"guest", "guest">>)
    <3>1. Holds(a, <<"guest", "guest">>)
      BY <1>2 DEF Holds
    <3>2. Holds(a \o b, <<"guest", "guest">>)
      BY <1>1, <1>4, <3>1, InConcat
    <3>3. Holds((a \o b) \o c, <<"guest", "guest">>)
      BY <1>1, <1>4, <3>2, InConcat
    <3> QED
      BY <1>1, <1>4, <3>3, InConcat
  <2>2. Desk!Asked(<<"guest", "guest">>, sameCh, sameRate) = <<"mix", "mix">>
    BY <1>5 DEF Desk!Asked
  <2> QED
    BY <1>3, <2>1, <2>2 DEF Holds
<1>6. CASE ~sameCh /\ sameRate
  <2>1. Holds(((a \o b) \o c) \o d, <<"mix", "guest">>)
    <3>1. Holds(b, <<"mix", "guest">>)
      BY <1>2, <1>6 DEF Holds
    <3>2. Holds(a \o b, <<"mix", "guest">>)
      BY <1>1, <1>4, <3>1, InConcat
    <3>3. Holds((a \o b) \o c, <<"mix", "guest">>)
      BY <1>1, <1>4, <3>2, InConcat
    <3> QED
      BY <1>1, <1>4, <3>3, InConcat
  <2>2. Desk!Asked(<<"mix", "guest">>, sameCh, sameRate) = <<"mix", "mix">>
    BY <1>6 DEF Desk!Asked
  <2> QED
    BY <1>3, <2>1, <2>2 DEF Holds
<1>7. CASE sameCh /\ ~sameRate
  <2>1. Holds(((a \o b) \o c) \o d, <<"guest", "mix">>)
    <3>1. Holds(c, <<"guest", "mix">>)
      BY <1>2, <1>7 DEF Holds
    <3>2. Holds((a \o b) \o c, <<"guest", "mix">>)
      BY <1>1, <1>4, <3>1, InConcat
    <3> QED
      BY <1>1, <1>4, <3>2, InConcat
  <2>2. Desk!Asked(<<"guest", "mix">>, sameCh, sameRate) = <<"mix", "mix">>
    BY <1>7 DEF Desk!Asked
  <2> QED
    BY <1>3, <2>1, <2>2 DEF Holds
<1>8. CASE ~sameCh /\ ~sameRate
  <2>1. Holds(((a \o b) \o c) \o d, <<"mix", "mix">>)
    <3>1. Holds(d, <<"mix", "mix">>)
      BY <1>2, <1>8 DEF Holds
    <3> QED
      BY <1>1, <1>4, <3>1, InConcat
  <2>2. Desk!Asked(<<"mix", "mix">>, sameCh, sameRate) = <<"mix", "mix">>
    BY <1>8 DEF Desk!Asked
  <2> QED
    BY <1>3, <2>1, <2>2 DEF Holds
<1> QED
  BY <1>5, <1>6, <1>7, <1>8


-----------------------------------------------------------------------------
(* Desktop audio: the guest's calls.                                       *)

LEMMA OpenKeeps ==
    ASSUME Desk!ConstantsOK, DeskInv, NEW kind \in DeskKinds, Desk!Open(kind)
    PROVE  DeskInv'
<1>1. /\ stream = Desk!Closed /\ stream.kind = "closed"
      /\ UNCHANGED <<deskRing, cursor, carry, emitted, deskGuest, tally>>
      /\ kind \in {"playback", "capture"}
  BY DEF Desk!Open, Desk!Closed, Desk!ConstantsOK
<1>2. /\ deskRing = <<>> /\ Len(deskRing) = 0 /\ cursor = 0 /\ emitted = 0
      /\ deskGuest = Desk!Idle
      /\ tally.in = 0 /\ tally.shown = 0
  BY <1>1, EmptySeq DEF DeskInv, Untouched
<1>3. PICK accepts \in SUBSET Desk!Formats, sameCh \in BOOLEAN, plays \in BOOLEAN, ratio \in Ratios :
         LET sameRate == ratio[1] = ratio[2]
             tries == Desk!Attempts(sameCh, sameRate)
             taken == {i \in DOMAIN tries : Desk!Asked(tries[i], sameCh, sameRate) \in accepts}
             good  == taken # {} /\ plays
             own   == good /\ \E i \in taken : tries[i][2] = "guest" /\ \A j \in taken : i <= j
         IN stream' = [kind |-> IF good THEN kind ELSE "failed",
                       num |-> IF own \/ ~good THEN 1 ELSE ratio[1],
                       den |-> IF own \/ ~good THEN 1 ELSE ratio[2],
                       running |-> FALSE,
                       mix |-> plays /\ <<"mix", "mix">> \in accepts]
  BY DEF Desk!Open
<1> DEFINE sameRate == ratio[1] = ratio[2]
           tries == Desk!Attempts(sameCh, sameRate)
           taken == {i \in DOMAIN tries : Desk!Asked(tries[i], sameCh, sameRate) \in accepts}
           good  == taken # {} /\ plays
           own   == good /\ \E i \in taken : tries[i][2] = "guest" /\ \A j \in taken : i <= j
<1>4. ratio[1] \in Nat \ {0} /\ ratio[2] \in Nat \ {0} /\ sameRate \in BOOLEAN
  BY DEF Desk!ConstantsOK
<1>5. <<"mix", "mix">> \in accepts => taken # {}
  <2>1. PICK i \in DOMAIN tries : Desk!Asked(tries[i], sameCh, sameRate) = <<"mix", "mix">>
    BY <1>4, MixIsAttempted
  <2> QED
    BY <2>1
<1> HIDE DEF tries, taken, sameRate
<1>6. stream' = [kind |-> IF good THEN kind ELSE "failed",
                 num |-> IF own \/ ~good THEN 1 ELSE ratio[1],
                 den |-> IF own \/ ~good THEN 1 ELSE ratio[2],
                 running |-> FALSE,
                 mix |-> plays /\ <<"mix", "mix">> \in accepts]
  BY <1>3 DEF tries, taken, sameRate
<1> HIDE DEF own
<1>7. /\ stream'.kind = IF good THEN kind ELSE "failed"
      /\ stream'.num \in Nat \ {0} /\ stream'.den \in Nat \ {0}
      /\ stream'.mix = (plays /\ <<"mix", "mix">> \in accepts)
  BY <1>4, <1>6
<1>8. stream' \in DeskStreams
  <2>1. (plays /\ <<"mix", "mix">> \in accepts) \in BOOLEAN
    OBVIOUS
  <2> DEFINE m == plays /\ <<"mix", "mix">> \in accepts
  <2>2. m \in BOOLEAN
    BY <2>1
  <2>3. stream' = [kind |-> IF good THEN kind ELSE "failed",
                   num |-> IF own \/ ~good THEN 1 ELSE ratio[1],
                   den |-> IF own \/ ~good THEN 1 ELSE ratio[2],
                   running |-> FALSE, mix |-> m]
    BY <1>6
  <2> HIDE DEF m, good
  <2> QED
    BY <1>1, <1>4, <2>2, <2>3 DEF DeskStreams
<1>9. Desk!TypeOK'
  BY <1>1, <1>8 DEF DeskInv, Desk!TypeOK, DeskStreams
<1>10. Desk!MixFormatOpens'
  BY <1>1, <1>5, <1>7 DEF Desk!MixFormatOpens
<1>11. stream'.kind \in {kind, "failed"}
  BY <1>7
<1>12. DeskOrder'
  BY <1>1, <1>2 DEF DeskOrder, Newest
<1>13. Desk!CursorInFirstFrame'
  BY <1>1, <1>2, <1>7 DEF Desk!CursorInFirstFrame, Desk!Den
<1>14. Untouched' /\ DeskClock'
  BY <1>1, <1>2, <1>11 DEF Untouched, DeskClock
<1> QED
  BY <1>9, <1>10, <1>12, <1>13, <1>14 DEF DeskInv

\* A step that leaves the stream alone leaves what the open promised.
LEMMA StreamKept ==
    ASSUME DeskInv, stream' = stream
    PROVE  Desk!MixFormatOpens' /\ (stream.kind # "closed" => Untouched')
BY DEF DeskInv, Desk!MixFormatOpens, Untouched

LEMMA WriteKeepsDesk ==
    ASSUME Desk!ConstantsOK, DeskInv, Desk!Write
    PROVE  DeskInv'
<1>0. Desk!TypeOK
  BY DEF DeskInv
<1>1. /\ stream' = stream /\ cursor' = cursor /\ carry' = carry /\ deskGuest' = deskGuest
      /\ stream.kind = "playback" /\ deskGuest = Desk!Idle
  BY DEF Desk!Write, Desk!IsOpen
<1> DEFINE take(n) == Desk!Least(n, DeskCap - Len(deskRing))
<1>2. PICK n \in 1..DeskBurst :
         /\ tally.in + take(n) <= DeskFrames
         /\ deskRing' = deskRing \o [i \in 1..take(n) |-> tally.in + i]
         /\ emitted' = emitted + take(n)
         /\ tally' = [tally EXCEPT !.in = @ + take(n)]
  BY DEF Desk!Write
<1> DEFINE k == take(n)
<1>3. k \in Nat /\ Len(deskRing) + k <= DeskCap
  BY <1>0, DeskNumbers DEF Desk!Least
<1> HIDE DEF k, take
<1>4. /\ tally.in + k <= DeskFrames
      /\ deskRing' = deskRing \o [i \in 1..k |-> tally.in + i]
      /\ emitted' = emitted + k /\ tally' = [tally EXCEPT !.in = @ + k]
  BY <1>2 DEF k
<1>5. /\ Len(deskRing') = Len(deskRing) + k /\ deskRing' \in Seq(Nat)
      /\ Newest(deskRing', tally.in + k)
  BY <1>0, <1>1, <1>3, <1>4, DeskNumbers, NewestExtended DEF DeskInv, DeskOrder, OneForOne
<1>6. deskRing' \in Seq(1..DeskFrames)
  <2>1. [i \in 1..k |-> tally.in + i] \in Seq(1..DeskFrames)
    BY <1>0, <1>3, <1>4, DeskNumbers, NumberedOn
  <2> QED
    BY <1>0, <1>4, <2>1, DeskNumbers, ConcatProperties
<1>7. tally' \in DeskCounts /\ tally'.in = tally.in + k /\ tally'.shown = tally.shown
  <2>1. tally \in DeskCounts /\ tally.in \in Nat /\ DeskFrames \in Nat
    BY <1>0, DeskNumbers
  <2>2. tally.in + k \in 0..DeskFrames
    BY <1>3, <1>4, <2>1
  <2> QED
    BY <1>4, <2>1, <2>2 DEF DeskCounts
<1>8. Desk!TypeOK'
  <2>1. Len(deskRing') <= DeskCap /\ emitted' \in Nat
    BY <1>0, <1>3, <1>4, <1>5, DeskNumbers
  <2> QED
    BY <1>0, <1>1, <1>6, <1>7, <2>1 DEF Desk!TypeOK, DeskCounts
<1>9. Desk!CursorInFirstFrame' /\ DeskOrder'
  BY <1>1, <1>5, <1>7 DEF DeskInv, Desk!CursorInFirstFrame, DeskOrder, Desk!Den
<1>10. DeskClock'
  BY <1>0, <1>1, <1>3, <1>4, <1>5, <1>7, DeskNumbers DEF DeskInv, DeskClock
<1> QED
  BY <1>1, <1>8, <1>9, <1>10, StreamKept DEF DeskInv

\* position, start, pause and the reading of a flush leave the frames alone.
LEMMA ControlKeepsDesk ==
    ASSUME Desk!ConstantsOK, DeskInv, Desk!Position \/ Desk!Start \/ Desk!Pause \/ Desk!FlushRead
    PROVE  DeskInv'
<1>0. /\ Desk!TypeOK /\ Len(deskRing) \in Nat /\ Len(deskRing) <= DeskCap /\ emitted \in Nat
      /\ tally.shown \in Nat
      /\ tally \in DeskCounts /\ stream \in DeskStreams
  BY DeskNumbers DEF DeskInv
<1>1. UNCHANGED <<deskRing, cursor, carry, emitted>> /\ deskGuest = Desk!Idle
  BY DEF Desk!Position, Desk!Start, Desk!Pause, Desk!FlushRead, Desk!IsOpen
<1>2. CASE Desk!Position
  <2>1. /\ UNCHANGED <<stream, deskGuest>> /\ stream.kind = "playback"
        /\ tally' = [tally EXCEPT !.shown =
                         IF emitted < Len(deskRing) THEN 0 ELSE emitted - Len(deskRing)]
    BY <1>2 DEF Desk!Position, Desk!IsOpen
  <2>2. /\ tally' \in DeskCounts /\ tally'.in = tally.in
        /\ tally'.shown = IF emitted < Len(deskRing) THEN 0 ELSE emitted - Len(deskRing)
    BY <1>0, <2>1 DEF DeskCounts
  <2>3. Desk!TypeOK'
    BY <1>0, <1>1, <2>1, <2>2 DEF Desk!TypeOK, DeskCounts
  <2>4. DeskClock'
    BY <1>0, <1>1, <2>1, <2>2 DEF DeskInv, DeskClock
  <2>5. Desk!CursorInFirstFrame' /\ DeskOrder'
    BY <1>1, <2>1, <2>2 DEF DeskInv, Desk!CursorInFirstFrame, DeskOrder, OneForOne,
       Desk!Num, Desk!Den
  <2> QED
    BY <2>1, <2>3, <2>4, <2>5, StreamKept DEF DeskInv
<1>3. CASE Desk!Start \/ Desk!Pause
  <2>1. /\ UNCHANGED <<deskGuest, tally>> /\ stream.kind \in {"playback", "capture"}
        /\ \E b \in BOOLEAN : stream' = [stream EXCEPT !.running = b]
    BY <1>3 DEF Desk!Start, Desk!Pause, Desk!IsOpen, Desk!ConstantsOK
  <2>2. /\ stream' \in DeskStreams /\ stream'.kind = stream.kind /\ stream'.num = stream.num
        /\ stream'.den = stream.den /\ stream'.mix = stream.mix
    BY <1>0, <2>1 DEF DeskStreams
  <2>3. Desk!TypeOK'
    BY <1>0, <1>1, <2>1, <2>2 DEF Desk!TypeOK, DeskStreams
  <2>4. DeskClock' /\ Desk!MixFormatOpens' /\ Untouched'
    BY <1>1, <2>1, <2>2 DEF DeskInv, DeskClock, Desk!MixFormatOpens, Untouched
  <2>5. Desk!CursorInFirstFrame' /\ DeskOrder'
    BY <1>1, <2>1, <2>2 DEF DeskInv, Desk!CursorInFirstFrame, DeskOrder, OneForOne,
       Desk!Num, Desk!Den
  <2> QED
    BY <2>3, <2>4, <2>5 DEF DeskInv
<1>4. CASE Desk!FlushRead
  <2>1. UNCHANGED <<stream, tally>> /\ stream.kind = "playback" /\ deskGuest' = Len(deskRing)
    BY <1>4 DEF Desk!FlushRead, Desk!IsOpen
  <2>2. Desk!TypeOK'
    BY <1>0, <1>1, <2>1 DEF Desk!TypeOK
  <2>3. DeskClock'
    BY <1>0, <1>1, <2>1 DEF DeskInv, DeskClock
  <2>4. Desk!CursorInFirstFrame' /\ DeskOrder'
    BY <1>1, <2>1 DEF DeskInv, Desk!CursorInFirstFrame, DeskOrder, OneForOne, Desk!Num, Desk!Den
  <2> QED
    BY <2>1, <2>2, <2>3, <2>4, StreamKept DEF DeskInv
<1> QED
  BY <1>2, <1>3, <1>4

LEMMA ClearKeepsDesk ==
    ASSUME Desk!ConstantsOK, DeskInv, Desk!FlushClear \/ Desk!Close
    PROVE  DeskInv'
<1>0. /\ Desk!TypeOK /\ Len(deskRing) \in Nat /\ emitted \in Nat /\ tally.shown \in Nat
      /\ deskGuest \in Int
      /\ tally.in \in Nat /\ stream \in DeskStreams /\ DeskCap \in Nat
  BY DeskNumbers DEF DeskInv
<1>1. UNCHANGED <<cursor, carry, tally>> /\ deskRing' = <<>>
  BY DEF Desk!FlushClear, Desk!Close
<1>2. <<>> \in Seq(1..DeskFrames) /\ Len(<<>>) = 0 /\ Newest(<<>>, tally.in)
  BY EmptySeq DEF Newest
<1>3. DeskOrder'
  BY <1>1, <1>2 DEF DeskOrder
<1>4. CASE Desk!FlushClear
  <2>1. /\ stream' = stream /\ deskGuest # Desk!Idle /\ deskGuest' = Desk!Idle
        /\ emitted' = IF emitted < deskGuest THEN 0 ELSE emitted - deskGuest
    BY <1>4 DEF Desk!FlushClear
  <2>2. /\ stream.kind = "playback" /\ deskGuest <= emitted
        /\ tally.shown <= emitted - deskGuest
    BY <2>1 DEF DeskInv, DeskClock
  <2>3. emitted' = emitted - deskGuest /\ emitted' \in Nat
    BY <1>0, <2>1, <2>2
  <2>4. Desk!TypeOK'
    BY <1>0, <1>1, <1>2, <2>1, <2>3 DEF Desk!TypeOK
  <2>5. DeskClock'
    BY <1>0, <1>1, <1>2, <2>1, <2>2, <2>3 DEF DeskClock
  <2>6. Desk!CursorInFirstFrame'
    BY <1>1, <2>1 DEF DeskInv, Desk!CursorInFirstFrame, Desk!Den
  <2> QED
    BY <1>3, <2>1, <2>2, <2>4, <2>5, <2>6, StreamKept DEF DeskInv
<1>5. CASE Desk!Close
  <2>1. /\ UNCHANGED <<emitted, deskGuest>> /\ deskGuest = Desk!Idle
        /\ stream' = [stream EXCEPT !.kind = "gone", !.running = FALSE]
    BY <1>5 DEF Desk!Close, Desk!IsOpen
  <2>2. stream' \in DeskStreams /\ stream'.kind = "gone"
    BY <1>0, <2>1 DEF DeskStreams
  <2>3. Desk!TypeOK'
    BY <1>0, <1>1, <1>2, <2>1, <2>2 DEF Desk!TypeOK, DeskStreams
  <2>4. Untouched' /\ DeskClock' /\ Desk!CursorInFirstFrame' /\ Desk!MixFormatOpens'
    BY <2>1, <2>2 DEF Untouched, DeskClock, Desk!CursorInFirstFrame, Desk!MixFormatOpens
  <2> QED
    BY <1>3, <2>3, <2>4 DEF DeskInv
<1> QED
  BY <1>4, <1>5


-----------------------------------------------------------------------------
(* Desktop audio: the device's callbacks.                                  *)

\* A set of positions has a last one.
LEMMA LastOfPositions ==
    ASSUME NEW n \in Nat, NEW T, T \subseteq 1..n, T # {}
    PROVE  \E m \in T : \A j \in T : j <= m
<1> DEFINE D == {n - i : i \in T}
           R == OpToRel(<, Nat)
<1>1. D \subseteq Nat /\ D # {}
  <2>1. PICK i \in T : TRUE
    OBVIOUS
  <2>2. n - i \in D /\ \A j \in T : n - j \in Nat
    BY <2>1
  <2> QED
    BY <2>2
<1>2. IsWellFoundedOn(R, Nat)
  BY NatLessThanWellFounded
<1>3. \A x, y \in Nat : x < y => <<x, y>> \in R
  BY DEF OpToRel
<1> HIDE DEF R
<1>4. PICK d \in D : \A y \in D : <<y, d>> \notin R
  <2> HIDE DEF D
  <2> QED
    BY <1>1, <1>2, WFMin
<1>5. PICK m \in T : d = n - m
  OBVIOUS
<1>6. ASSUME NEW j \in T PROVE j <= m
  <2>1. n - j \in D /\ n - j \in Nat /\ d \in Nat
    BY <1>1
  <2>2. ~(n - j < d)
    BY <1>3, <1>4, <2>1
  <2> QED
    BY <1>5, <2>2
<1> QED
  BY <1>6

\* The frame in which the cursor stands after j frames of the device.
StopsIn(c, num, den, j) == (c + j * num) \div den

\* At a rate no slower than the guest's, the cursor stops in every frame that it
\* passes.
LEMMA CursorStops ==
    ASSUME NEW c \in Nat, NEW num \in Nat \ {0}, NEW den \in Nat \ {0}, NEW k \in Nat \ {0},
           NEW t \in Nat \ {0}, c < den, num <= den, t <= StopsIn(c, num, den, k)
    PROVE  \E j \in 0..(k - 1) : StopsIn(c, num, den, j) = t - 1
<1>r. t * den <= c + k * num
  <2> DEFINE x == c + k * num
             q == x \div den
  <2>1. x \in Nat /\ t <= q
    BY DEF StopsIn
  <2> HIDE DEF x
  <2>2. q \in Nat /\ x - q * den \in 0..(den - 1)
    BY <2>1
  <2> HIDE DEF q
  <2>3. t * den <= q * den
    BY <2>1, <2>2
  <2> QED
    BY <2>1, <2>2, <2>3 DEF x
<1> DEFINE base == (t - 1) * den
<1>0. base \in Nat /\ t * den = base + den
  <2>1. t - 1 \in Nat
    OBVIOUS
  <2> QED
    BY <2>1
<1> HIDE DEF base
<1>1. CASE base <= c
  <2>1. base = 0 \/ base >= den
    <3>1. t - 1 \in Nat /\ (t - 1 = 0 \/ t - 1 >= 1)
      OBVIOUS
    <3> QED
      BY <3>1 DEF base
  <2>2. t = 1
    BY <1>0, <1>1, <2>1
  <2>3. (c + 0 * num) \div den = 0
    BY <2>2, DivBounds
  <2> QED
    BY <2>2, <2>3 DEF StopsIn
<1>2. CASE ~(base <= c)
  <2> DEFINE y == base - c
             j == (y + num - 1) \div num
  <2>1. y \in Nat \ {0} /\ y + num - 1 \in Nat
    BY <1>0, <1>2
  <2>2. j \in Nat /\ (y + num - 1) - j * num \in 0..(num - 1)
    <3> DEFINE z == y + num - 1
    <3>1. z \in Nat
      BY <2>1
    <3> HIDE DEF z
    <3>2. z \div num \in Nat /\ z - (z \div num) * num \in 0..(num - 1)
      BY <3>1
    <3> QED
      BY <3>2 DEF z
  <2> HIDE DEF j
  <2>3. j * num \in Nat /\ y <= j * num /\ j * num < y + num
    BY <2>1, <2>2
  <2>4. c + j * num \in Nat /\ base <= c + j * num /\ c + j * num < base + den
    BY <1>0, <2>1, <2>3
  <2>5. j < k
    <3>1. SUFFICES ASSUME k <= j PROVE FALSE
      BY <2>2
    <3>2. k * num <= j * num
      BY <2>2, <3>1
    <3>3. k * num \in Nat
      OBVIOUS
    <3> QED
      BY <1>r, <1>0, <2>3, <2>4, <3>2, <3>3
  <2>6. (c + j * num) \div den = t - 1
    <3>1. (c + j * num) \div den >= t - 1
      BY <2>4, DivBounds DEF base
    <3>2. (c + j * num) \div den < t
      BY <1>0, <2>4, DivBounds
    <3>3. (c + j * num) \div den \in Int
      BY <2>4
    <3> QED
      BY <3>1, <3>2, <3>3
  <2>7. j \in 0..(k - 1)
    BY <2>2, <2>5
  <2> QED
    BY <2>6, <2>7 DEF StopsIn
<1> QED
  BY <1>1, <1>2

\* The output callback asked for k frames: where its cursor ends up, what it
\* takes from the ring, and the last frame heard.
LEMMA PlayStep ==
    ASSUME Desk!ConstantsOK, DeskInv, Desk!PlayCallback
    PROVE  /\ UNCHANGED <<stream, carry, emitted, deskGuest>>
           /\ stream.kind = "playback" /\ cursor' \in 0..(Desk!Den - 1)
           /\ \E m \in 0..Len(deskRing) :
                /\ deskRing' = Desk!DropFirst(deskRing, m)
                /\ m > 0 /\ Desk!Num <= Desk!Den => deskRing[m] <= tally'.got
           /\ tally' \in DeskCounts /\ tally'.in = tally.in /\ tally'.shown = tally.shown
<1>1. /\ UNCHANGED <<stream, carry, emitted, deskGuest>> /\ stream.kind = "playback"
  BY DEF Desk!PlayCallback
<1>2. PICK k \in 1..DeskBurst :
         LET want == (cursor + k * Desk!Num) \div Desk!Den
             consumed == Desk!Least(want, Len(deskRing))
             next == cursor + k * Desk!Num - consumed * Desk!Den
         IN IF deskRing = <<>>
            THEN cursor' = 0 /\ UNCHANGED <<deskRing, tally>>
            ELSE /\ cursor' = IF want > Len(deskRing) THEN next % Desk!Den ELSE next
                 /\ deskRing' = Desk!DropFirst(deskRing, consumed)
                 /\ tally' = [tally EXCEPT !.got =
                        IF \E i \in Desk!Touched(k) : deskRing[i] > @
                        THEN deskRing[CHOOSE i \in Desk!Touched(k) : \A j \in Desk!Touched(k) : j <= i]
                        ELSE @]
  BY DEF Desk!PlayCallback
<1>3. /\ DeskBurst \in Nat \ {0} /\ DeskFrames \in Nat /\ Desk!Num \in Nat \ {0}
      /\ Desk!Den \in Nat \ {0}
      /\ tally \in DeskCounts /\ tally.got \in Nat /\ deskRing \in Seq(1..DeskFrames)
      /\ Len(deskRing) \in Nat
  BY DeskNumbers DEF DeskInv
<1>4. cursor \in 0..(Desk!Den - 1) /\ k \in Nat \ {0}
  BY <1>1, <1>3 DEF DeskInv, Desk!CursorInFirstFrame
<1>5. CASE deskRing = <<>>
  <2>1. cursor' = 0 /\ deskRing' = deskRing /\ tally' = tally
    BY <1>2, <1>5
  <2>2. Len(deskRing) = 0 /\ Desk!DropFirst(deskRing, 0) = deskRing
    BY <1>5, EmptySeq, SubSeqEmpty DEF Desk!DropFirst
  <2> QED
    BY <1>1, <1>3, <2>1, <2>2
<1>6. CASE deskRing # <<>>
  <2> DEFINE x == cursor + k * Desk!Num
             want == x \div Desk!Den
             m == Desk!Least(want, Len(deskRing))
             next == cursor + k * Desk!Num - m * Desk!Den
             last == CHOOSE i \in Desk!Touched(k) : \A j \in Desk!Touched(k) : j <= i
  <2>1. x \in Nat /\ want \in Nat /\ x - want * Desk!Den \in 0..(Desk!Den - 1)
    <3>1. x \in Nat
      BY <1>3, <1>4
    <3> HIDE DEF x
    <3> DEFINE d == Desk!Den
    <3>2. d \in Nat \ {0}
      BY <1>3
    <3> HIDE DEF d
    <3>3. x \div d \in Nat /\ x - (x \div d) * d \in 0..(d - 1)
      BY <3>1, <3>2
    <3> QED
      BY <3>1, <3>3 DEF d
  <2>2. /\ cursor' = IF want > Len(deskRing) THEN next % Desk!Den ELSE next
        /\ deskRing' = Desk!DropFirst(deskRing, m)
        /\ tally' = [tally EXCEPT !.got =
                        IF \E i \in Desk!Touched(k) : deskRing[i] > @ THEN deskRing[last] ELSE @]
    <3>1. cursor' = (IF want > Len(deskRing) THEN next % Desk!Den ELSE next) /\ deskRing' = Desk!DropFirst(deskRing, m)
      BY <1>2, <1>6, Zenon
    <3>2. tally' = [tally EXCEPT !.got =
                        IF \E i \in Desk!Touched(k) : deskRing[i] > @ THEN deskRing[last] ELSE @]
      BY <1>2, <1>6, Zenon
    <3> QED
      BY <3>1, <3>2
  <2> HIDE DEF x, want, last
  <2>3. m \in 0..Len(deskRing) /\ (want <= Len(deskRing) => m = want) /\ m <= want
    BY <1>3, <2>1 DEF Desk!Least
  <2>4. cursor' \in 0..(Desk!Den - 1)
    <3>1. CASE want > Len(deskRing)
      <4>1. next \in Int
        BY <1>3, <1>4, <2>1, <2>3
      <4>2. cursor' = next % Desk!Den
        BY <2>2, <3>1
      <4> HIDE DEF next
      <4> QED
        BY <1>3, <4>1, <4>2, DivMod
    <3>2. CASE ~(want > Len(deskRing))
      <4>1. m = want /\ cursor' = cursor + k * Desk!Num - m * Desk!Den
        BY <1>3, <2>1, <2>2, <2>3, <3>2
      <4>2. cursor' = x - want * Desk!Den
        BY <1>3, <1>4, <2>1, <4>1 DEF x
      <4> QED
        BY <2>1, <4>2
    <3> QED
      BY <3>1, <3>2
  <2> HIDE DEF m, next
  <2>5. Desk!Touched(k) \subseteq 1..Len(deskRing)
    BY DEF Desk!Touched
  <2>6. ASSUME Desk!Touched(k) # {}
        PROVE  last \in Desk!Touched(k) /\ \A j \in Desk!Touched(k) : j <= last
    <3>1. \E i \in Desk!Touched(k) : \A j \in Desk!Touched(k) : j <= i
      BY <1>3, <2>5, <2>6, LastOfPositions
    <3> QED
      BY <3>1 DEF last
  <2>7. ASSUME m > 0, Desk!Num <= Desk!Den PROVE m \in Desk!Touched(k)
    <3>1. m <= StopsIn(cursor, Desk!Num, Desk!Den, k)
      BY <2>3 DEF StopsIn, want, x
    <3>2. /\ cursor < Desk!Den /\ m \in Nat \ {0} /\ cursor \in Nat
          /\ Desk!Num \in Nat \ {0} /\ Desk!Den \in Nat \ {0} /\ k \in Nat \ {0}
          /\ Desk!Num <= Desk!Den
      BY <1>3, <1>4, <2>3, <2>7
    <3>4. PICK j \in 0..(k - 1) : StopsIn(cursor, Desk!Num, Desk!Den, j) = m - 1
      BY <3>1, <3>2, CursorStops
    <3>5. (cursor + j * Desk!Num) \div Desk!Den + 1 = m
      BY <3>2, <3>4 DEF StopsIn
    <3>6. m \in 1..Len(deskRing)
      BY <1>3, <2>3, <3>2
    <3> QED
      BY <3>4, <3>5, <3>6 DEF Desk!Touched
  <2>8. /\ \A i \in 1..Len(deskRing) : deskRing[i] \in 1..DeskFrames
        /\ \A i, j \in 1..Len(deskRing) : i <= j => deskRing[i] <= deskRing[j]
    <3>1. Newest(deskRing, tally.in) /\ tally.in \in Nat
      BY <1>1, <1>3 DEF DeskInv, DeskOrder, OneForOne, DeskCounts
    <3>2. \A i \in 1..Len(deskRing) : deskRing[i] \in 1..DeskFrames
      BY <1>3, ElementOfSeq
    <3>3. ASSUME NEW i \in 1..Len(deskRing), NEW j \in 1..Len(deskRing), i <= j PROVE deskRing[i] <= deskRing[j]
      BY <1>3, <3>1, <3>3 DEF Newest
    <3> QED
      BY <3>2, <3>3
  <2>9. /\ tally' \in DeskCounts /\ tally'.in = tally.in /\ tally'.shown = tally.shown
        /\ m > 0 /\ Desk!Num <= Desk!Den => deskRing[m] <= tally'.got
    <3>1. CASE \E i \in Desk!Touched(k) : deskRing[i] > tally.got
      <4>1. tally' = [tally EXCEPT !.got = deskRing[last]]
        BY <2>2, <3>1
      <4>2. last \in 1..Len(deskRing) /\ deskRing[last] \in 1..DeskFrames
        BY <2>5, <2>6, <2>8, <3>1
      <4>3. /\ tally' \in DeskCounts /\ tally'.in = tally.in /\ tally'.shown = tally.shown
            /\ tally'.got = deskRing[last]
        <5> DEFINE v == deskRing[last]
        <5>1. v \in 0..DeskFrames /\ tally' = [tally EXCEPT !.got = v]
          BY <1>3, <4>1, <4>2
        <5> HIDE DEF v
        <5>2. /\ tally' \in DeskCounts /\ tally'.in = tally.in /\ tally'.shown = tally.shown
              /\ tally'.got = v
          BY <1>3, <5>1 DEF DeskCounts
        <5> QED
          BY <5>2 DEF v
      <4>4. ASSUME m > 0, Desk!Num <= Desk!Den PROVE deskRing[m] <= deskRing[last]
        BY <2>5, <2>6, <2>7, <2>8, <4>4
      <4> QED
        BY <4>3, <4>4
    <3>2. CASE ~\E i \in Desk!Touched(k) : deskRing[i] > tally.got
      <4>1. tally' = [tally EXCEPT !.got = tally.got]
        BY <2>2, <3>2
      <4>2. tally' = tally
        BY <1>3, <4>1 DEF DeskCounts
      <4>3. ASSUME m > 0, Desk!Num <= Desk!Den PROVE deskRing[m] <= tally.got
        <5>1. m \in Desk!Touched(k) /\ m \in 1..Len(deskRing) /\ ~(deskRing[m] > tally.got)
          BY <2>5, <2>7, <3>2, <4>3
        <5>2. deskRing[m] \in 1..DeskFrames
          BY <2>8, <5>1
        <5> QED
          BY <1>3, <5>1, <5>2
      <4> QED
        BY <1>3, <4>2, <4>3
    <3> QED
      BY <3>1, <3>2
  <2> QED
    BY <1>1, <2>2, <2>3, <2>4, <2>9
<1> QED
  BY <1>5, <1>6


LEMMA PlayKeepsDesk ==
    ASSUME Desk!ConstantsOK, DeskInv, Desk!PlayCallback
    PROVE  DeskInv'
<1>1. /\ UNCHANGED <<stream, carry, emitted, deskGuest>>
      /\ stream.kind = "playback" /\ cursor' \in 0..(Desk!Den - 1)
      /\ tally' \in DeskCounts /\ tally'.in = tally.in /\ tally'.shown = tally.shown
  BY PlayStep
<1>2. PICK m \in 0..Len(deskRing) : deskRing' = Desk!DropFirst(deskRing, m)
  BY PlayStep
<1>3. /\ Desk!TypeOK /\ Len(deskRing) \in Nat /\ Len(deskRing) <= DeskCap /\ emitted \in Nat
      /\ tally.shown \in Nat
      /\ deskGuest \in Int /\ Desk!Den \in Nat \ {0} /\ tally.in \in Nat /\ DeskCap \in Nat
      /\ deskRing \in Seq(1..DeskFrames)
  BY DeskNumbers DEF DeskInv
<1>4. /\ deskRing' \in Seq(1..DeskFrames) /\ Len(deskRing') = Len(deskRing) - m
      /\ Newest(deskRing', tally.in)
  <2>1. Newest(deskRing, tally.in)
    BY <1>1 DEF DeskInv, DeskOrder, OneForOne
  <2>2. deskRing' = SubSeq(deskRing, m + 1, Len(deskRing)) /\ tally.in \in Int
    BY <1>2, <1>3 DEF Desk!DropFirst
  <2>3. /\ SubSeq(deskRing, m + 1, Len(deskRing)) \in Seq(1..DeskFrames)
        /\ Len(SubSeq(deskRing, m + 1, Len(deskRing))) = Len(deskRing) - m
        /\ Newest(SubSeq(deskRing, m + 1, Len(deskRing)), tally.in)
    <3> DEFINE S == 1..DeskFrames
    <3>1. deskRing \in Seq(S)
      BY <1>3
    <3> HIDE DEF S
    <3> QED
      BY <2>1, <2>2, <3>1, NewestShortened DEF S
  <2> QED
    BY <2>2, <2>3
<1>5. Len(deskRing') <= Len(deskRing) /\ Len(deskRing') <= DeskCap /\ cursor' \in Int
  BY <1>1, <1>3, <1>4
<1>6. Desk!TypeOK'
  BY <1>1, <1>3, <1>4, <1>5 DEF Desk!TypeOK, DeskCounts
<1>7. DeskClock'
  BY <1>1, <1>3, <1>4, <1>5 DEF DeskInv, DeskClock
<1>8. Desk!CursorInFirstFrame' /\ DeskOrder'
  BY <1>1, <1>4 DEF Desk!CursorInFirstFrame, DeskOrder, Desk!Den
<1> QED
  BY <1>1, <1>6, <1>7, <1>8, StreamKept DEF DeskInv

\* What is pushed onto a full ring costs it as many of its oldest.
LEMMA PushedKeeps ==
    ASSUME NEW n \in Nat, NEW s \in Seq(1..n), NEW t \in Seq(1..n), DeskCap \in Nat
    PROVE  /\ Desk!Pushed(s, t) \in Seq(1..n) /\ Len(Desk!Pushed(s, t)) <= DeskCap
           /\ \A f \in Nat : Newest(s \o t, f) => Newest(Desk!Pushed(s, t), f)
<1> DEFINE all == s \o t
           m == IF Len(all) > DeskCap THEN Len(all) - DeskCap ELSE 0
<1>1. all \in Seq(1..n)
  BY ConcatProperties
<1> HIDE DEF all
<1>2. Len(all) \in Nat
  BY <1>1, LenProperties
<1>3. m \in 0..Len(all) /\ Len(all) - m <= DeskCap
  BY <1>2
<1> HIDE DEF m
<1>4. Desk!Pushed(s, t) = SubSeq(all, m + 1, Len(all))
  BY DEF Desk!Pushed, Desk!DropFirst, all, m
<1>5. /\ SubSeq(all, m + 1, Len(all)) \in Seq(1..n)
      /\ Len(SubSeq(all, m + 1, Len(all))) = Len(all) - m
      /\ \A f \in Int : Newest(all, f) => Newest(SubSeq(all, m + 1, Len(all)), f)
  <2> DEFINE S == 1..n
  <2>1. all \in Seq(S)
    BY <1>1
  <2> HIDE DEF S
  <2> QED
    BY <1>3, <2>1, NewestShortened DEF S
<1> QED
  BY <1>3, <1>4, <1>5 DEF all

LEMMA CaptureKeepsDesk ==
    ASSUME Desk!ConstantsOK, DeskInv, Desk!CaptureCallback
    PROVE  DeskInv'
<1> DEFINE f == tally.in + 1
           n == IF Desk!Num = Desk!Den THEN 1 ELSE IF carry THEN Desk!Emitted(cursor) ELSE 0
           new == [i \in 1..n |-> f]
<1>1. /\ UNCHANGED <<stream, deskGuest>> /\ stream.kind = "capture" /\ tally.in < DeskFrames
      /\ deskRing' = Desk!Pushed(deskRing, new) /\ emitted' = emitted + n
      /\ tally' = [tally EXCEPT !.in = f]
      /\ IF Desk!Num = Desk!Den THEN UNCHANGED <<cursor, carry>>
         ELSE cursor' = cursor + n * Desk!Num - Desk!Den /\ carry' = TRUE
  BY DEF Desk!CaptureCallback
<1>2. /\ Desk!TypeOK /\ emitted \in Nat /\ Desk!Num \in Nat \ {0} /\ Desk!Den \in Nat \ {0}
      /\ cursor \in Int
      /\ tally.in \in Nat /\ DeskCap \in Nat /\ DeskFrames \in Nat
      /\ deskRing \in Seq(1..DeskFrames)
      /\ deskRing \in Seq(Nat) /\ tally \in DeskCounts /\ Len(deskRing) \in Nat
  BY DeskNumbers DEF DeskInv
<1>3. n \in Nat
  <2>1. Desk!Emitted(cursor) \in Nat
    <3>1. CASE cursor >= Desk!Den
      BY <3>1 DEF Desk!Emitted
    <3>2. CASE ~(cursor >= Desk!Den)
      <4>1. Desk!Den - cursor + Desk!Num - 1 \in Nat
        BY <1>2, <3>2
      <4>2. Desk!Emitted(cursor) = (Desk!Den - cursor + Desk!Num - 1) \div Desk!Num
        BY <3>2 DEF Desk!Emitted
      <4> DEFINE x == Desk!Den - cursor + Desk!Num - 1
      <4> HIDE DEF x
      <4>3. x \in Nat /\ Desk!Emitted(cursor) = x \div Desk!Num
        BY <4>1, <4>2 DEF x
      <4> QED
        BY <1>2, <4>3
    <3> QED
      BY <3>1, <3>2
  <2> QED
    BY <2>1
<1> HIDE DEF n
<1>4. f \in 1..DeskFrames /\ new \in Seq(1..DeskFrames)
  <2>1. f \in 1..DeskFrames
    BY <1>1, <1>2
  <2> HIDE DEF f
  <2> QED
    BY <1>3, <2>1
<1>5. tally' \in DeskCounts /\ tally'.in = f /\ tally'.shown = tally.shown
  <2>1. f \in 0..DeskFrames /\ tally' = [tally EXCEPT !.in = f]
    BY <1>1, <1>2, <1>4
  <2> HIDE DEF f
  <2> QED
    BY <1>2, <2>1 DEF DeskCounts
<1>6. deskRing' \in Seq(1..DeskFrames) /\ Len(deskRing') <= DeskCap
  <2> HIDE DEF new
  <2> QED
    BY <1>1, <1>2, <1>4, PushedKeeps
<1>7. ASSUME Desk!Num = Desk!Den PROVE Newest(deskRing', f)
  <2>1. n = 1
    BY <1>7 DEF n
  <2>2. new = [i \in 1..1 |-> tally.in + i]
    BY <1>2, <2>1
  <2>3. Newest(deskRing, tally.in)
    BY <1>1, <1>7 DEF DeskInv, DeskOrder, OneForOne
  <2>4. Newest(deskRing \o new, f)
    BY <1>2, <2>2, <2>3, NewestExtended
  <2> HIDE DEF new
  <2> QED
    BY <1>1, <1>2, <1>4, <2>4, PushedKeeps
<1>8. cursor' \in Int /\ emitted' \in Nat
  BY <1>1, <1>2, <1>3
<1>9. carry' \in BOOLEAN
  <2>1. carry \in BOOLEAN
    BY <1>2 DEF Desk!TypeOK
  <2> QED
    BY <1>1, <2>1, Zenon
<1>10. Desk!TypeOK'
  BY <1>1, <1>2, <1>5, <1>6, <1>8, <1>9 DEF Desk!TypeOK, DeskCounts
<1>11. DeskClock' /\ Desk!CursorInFirstFrame'
  BY <1>1 DEF DeskInv, DeskClock, Desk!CursorInFirstFrame
<1>12. DeskOrder'
  BY <1>1, <1>5, <1>7 DEF DeskOrder, OneForOne, Desk!Num, Desk!Den
<1> QED
  BY <1>1, <1>10, <1>11, <1>12, StreamKept DEF DeskInv

LEMMA ReadKeepsDesk ==
    ASSUME Desk!ConstantsOK, DeskInv, Desk!Read
    PROVE  DeskInv'
<1>1. /\ UNCHANGED <<stream, cursor, carry, emitted, deskGuest>>
      /\ stream.kind = "capture" /\ deskGuest = Desk!Idle /\ deskRing # <<>>
  BY DEF Desk!Read, Desk!IsOpen
<1>2. PICK max \in 1..DeskBurst :
         /\ deskRing' = Desk!DropFirst(deskRing, Desk!Least(max, Len(deskRing)))
         /\ tally' = [tally EXCEPT !.got = deskRing[Desk!Least(max, Len(deskRing))], !.shown = deskRing[1]]
  BY DEF Desk!Read
<1> DEFINE n == Desk!Least(max, Len(deskRing))
<1>3. /\ Desk!TypeOK /\ Len(deskRing) \in Nat /\ Len(deskRing) <= DeskCap
      /\ DeskBurst \in Nat /\ DeskFrames \in Nat
      /\ tally \in DeskCounts /\ tally.in \in Nat /\ deskRing \in Seq(1..DeskFrames)
      /\ DeskCap \in Nat
  BY DeskNumbers DEF DeskInv
<1>4. Len(deskRing) > 0
  BY <1>1, <1>3, EmptySeq
<1>5. n \in 1..Len(deskRing)
  BY <1>3, <1>4 DEF Desk!Least
<1> HIDE DEF n
<1>6. deskRing[n] \in 1..DeskFrames /\ deskRing[1] \in 1..DeskFrames
  BY <1>3, <1>4, <1>5, ElementOfSeq
<1>7. tally' \in DeskCounts /\ tally'.in = tally.in
  <2> DEFINE a == deskRing[n]
             b == deskRing[1]
  <2>1. a \in 0..DeskFrames /\ b \in Nat /\ tally' = [tally EXCEPT !.got = a, !.shown = b]
    BY <1>2, <1>3, <1>6 DEF n
  <2> HIDE DEF a, b
  <2> QED
    BY <1>3, <2>1 DEF DeskCounts
<1>8. /\ deskRing' \in Seq(1..DeskFrames) /\ Len(deskRing') = Len(deskRing) - n
      /\ Newest(deskRing, tally.in) => Newest(deskRing', tally.in)
  <2>1. deskRing' = SubSeq(deskRing, n + 1, Len(deskRing)) /\ n \in 0..Len(deskRing)
    BY <1>2, <1>5 DEF Desk!DropFirst, n
  <2> QED
    BY <1>3, <2>1, NewestShortened
<1>9. Desk!TypeOK'
  <2>1. Len(deskRing') <= DeskCap
    BY <1>3, <1>5, <1>8
  <2> QED
    BY <1>1, <1>3, <1>7, <1>8, <2>1 DEF Desk!TypeOK, DeskCounts
<1>10. DeskClock' /\ Desk!CursorInFirstFrame' /\ DeskOrder'
  BY <1>1, <1>7, <1>8
     DEF DeskInv, DeskClock, Desk!CursorInFirstFrame, DeskOrder, OneForOne, Desk!Num, Desk!Den
<1> QED
  BY <1>1, <1>9, <1>10, StreamKept DEF DeskInv

-----------------------------------------------------------------------------
(* Desktop audio: every step.                                              *)

LEMMA DeskStep == ASSUME Desk!ConstantsOK, DeskInv, [Desk!Next]_Desk!vars PROVE DeskInv'
<1>1. CASE UNCHANGED Desk!vars
  BY <1>1 DEF Desk!vars, DeskInv, Desk!TypeOK, Untouched, Desk!CursorInFirstFrame,
     DeskClock, DeskOrder, OneForOne, Desk!MixFormatOpens, Newest, Desk!Num, Desk!Den
<1> QED
  BY <1>1, OpenKeeps, WriteKeepsDesk, ControlKeepsDesk, ClearKeepsDesk, PlayKeepsDesk,
     CaptureKeepsDesk, ReadKeepsDesk DEF Desk!Next, Desk!Done

LEMMA DeskInductive == ASSUME Desk!ConstantsOK PROVE Desk!Spec => []DeskInv
<1>1. Desk!Init => DeskInv
  BY DeskInitially
<1>2. DeskInv /\ [Desk!Next]_Desk!vars => DeskInv'
  BY DeskStep
<1> QED
  BY <1>1, <1>2, PTL DEF Desk!Spec

\* On a desktop playback stream position() never goes back.
LEMMA DeskNeverBack ==
    ASSUME Desk!ConstantsOK, DeskInv, Desk!Next, stream.kind = "playback"
    PROVE  tally'.shown >= tally.shown
<1>1. tally.shown \in Nat /\ emitted \in Nat /\ Len(deskRing) \in Nat /\ tally \in DeskCounts
  BY DeskNumbers DEF DeskInv
<1>2. CASE Desk!Position
  <2>1. tally' = [tally EXCEPT !.shown = IF emitted < Len(deskRing) THEN 0 ELSE emitted - Len(deskRing)]
    BY <1>2 DEF Desk!Position
  <2>2. tally'.shown = IF emitted < Len(deskRing) THEN 0 ELSE emitted - Len(deskRing)
    BY <1>1, <2>1 DEF DeskCounts
  <2> QED
    BY <1>1, <2>2 DEF DeskInv, DeskClock
<1>3. CASE Desk!PlayCallback
  BY <1>1, <1>3, PlayStep
<1>4. CASE Desk!Write
  <2>1. \E n \in Nat : tally' = [tally EXCEPT !.in = @ + n]
    <3>1. PICK n \in 1..DeskBurst :
              tally' = [tally EXCEPT !.in = @ + Desk!Least(n, DeskCap - Len(deskRing))]
      BY <1>4 DEF Desk!Write
    <3>2. Desk!Least(n, DeskCap - Len(deskRing)) \in Nat
      BY <1>1, DeskNumbers DEF DeskInv, Desk!Least
    <3> QED
      BY <3>1, <3>2
  <2> QED
    BY <1>1, <2>1 DEF DeskCounts
<1>5. tally' = tally \/ Desk!Position \/ Desk!PlayCallback \/ Desk!Write
  BY DEF Desk!Next, Desk!Open, Desk!Start, Desk!Pause, Desk!FlushRead, Desk!FlushClear,
     Desk!Close, Desk!CaptureCallback, Desk!Read, Desk!Done, Desk!vars, Desk!IsOpen,
     Desk!Closed
<1> QED
  BY <1>1, <1>2, <1>3, <1>4, <1>5

\* Unless the device is the slower, all that the callback takes has been heard.
LEMMA DeskSkipsNothing ==
    ASSUME Desk!ConstantsOK, DeskInv, Desk!Next, stream.kind = "playback", Desk!Num <= Desk!Den,
           deskGuest' = deskGuest, stream' = stream
    PROVE  \A i \in 1..(Len(deskRing) - Len(deskRing')) : deskRing[i] <= tally'.got
<1>1. /\ Len(deskRing) \in Nat /\ tally \in DeskCounts /\ deskRing \in Seq(1..DeskFrames)
      /\ DeskFrames \in Nat
  BY DeskNumbers DEF DeskInv
<1>2. CASE Desk!PlayCallback
  <2>1. PICK m \in 0..Len(deskRing) : /\ deskRing' = Desk!DropFirst(deskRing, m)
                                      /\ m > 0 /\ Desk!Num <= Desk!Den => deskRing[m] <= tally'.got
    BY <1>2, PlayStep
  <2>2. Len(deskRing') = Len(deskRing) - m
    <3> DEFINE S == 1..DeskFrames
    <3>1. deskRing \in Seq(S) /\ deskRing' = SubSeq(deskRing, m + 1, Len(deskRing))
      BY <1>1, <2>1 DEF Desk!DropFirst
    <3> HIDE DEF S
    <3> QED
      BY <3>1, NewestShortened
  <2>3. Newest(deskRing, tally.in) /\ tally.in \in Nat
    BY <1>1 DEF DeskInv, DeskOrder, OneForOne, DeskCounts
  <2>4. tally'.got \in Nat
    BY <1>1, <1>2, PlayStep DEF DeskCounts
  <2>5. ASSUME NEW i \in 1..(Len(deskRing) - Len(deskRing')) PROVE deskRing[i] <= tally'.got
    <3>0. Desk!Num <= Desk!Den /\ Len(deskRing) \in Nat
      BY <1>1
    <3>1. /\ i \in 1..Len(deskRing) /\ m \in 1..Len(deskRing) /\ i <= m
          /\ deskRing[m] <= tally'.got
      BY <2>1, <2>2, <3>0
    <3>2. /\ deskRing[i] = tally.in - Len(deskRing) + i
          /\ deskRing[m] = tally.in - Len(deskRing) + m
      BY <2>3, <3>1 DEF Newest
    <3> QED
      BY <1>1, <2>3, <2>4, <3>1, <3>2
  <2> QED
    BY <2>5
<1>3. CASE Desk!Write
  <2>1. Len(deskRing') \in Nat /\ Len(deskRing') >= Len(deskRing)
    <3>1. PICK n \in 1..DeskBurst : LET k == Desk!Least(n, DeskCap - Len(deskRing))
                                IN  deskRing' = deskRing \o [i \in 1..k |-> tally.in + i]
      BY <1>3 DEF Desk!Write
    <3> DEFINE k == Desk!Least(n, DeskCap - Len(deskRing))
    <3>2. k \in Nat
      BY <1>1, DeskNumbers DEF DeskInv, Desk!Least
    <3>3. Newest(deskRing, tally.in) /\ tally.in \in Nat /\ deskRing \in Seq(Nat)
      BY <1>1, DeskNumbers DEF DeskInv, DeskOrder, OneForOne, DeskCounts
    <3>4. deskRing' = deskRing \o [i \in 1..k |-> tally.in + i]
      BY <3>1
    <3> HIDE DEF k
    <3>5. Len(deskRing') = Len(deskRing) + k
      BY <3>2, <3>3, <3>4, NewestExtended
    <3> QED
      BY <1>1, <3>2, <3>5
  <2> QED
    BY <1>1, <2>1
<1>4. deskRing' = deskRing \/ Desk!PlayCallback \/ Desk!Write
  <2>1. ~Desk!Close
    <3>1. stream \in DeskStreams
      BY DeskNumbers DEF DeskInv
    <3> QED
      BY <3>1 DEF Desk!Close, DeskStreams
  <2> QED
    BY <2>1 DEF Desk!Next, Desk!Open, Desk!Position, Desk!Start, Desk!Pause, Desk!FlushRead,
       Desk!FlushClear, Desk!CaptureCallback, Desk!Read, Desk!Done, Desk!vars, Desk!IsOpen,
       Desk!Closed
<1> QED
  BY <1>1, <1>2, <1>3, <1>4



-----------------------------------------------------------------------------
(* Call capture: the inductive invariant.                                  *)

CaptureFramesOf == Seq(1..CaptureFrames)
Mics == [kind : {"none", "call", "direct"}, handle : 0..CaptureOpens, first : 1..(CaptureFrames + 1)]
CapturePumps == [at : {"sleep", "read", "append"}, handle : 0..CaptureOpens, pcm : CaptureFramesOf]

CaptureTyped ==
    /\ mic \in Mics /\ mic.first <= recorded + 1
    /\ micRing \in CaptureFramesOf /\ Len(micRing) <= RingCap
    /\ micBuf \in CaptureFramesOf /\ Len(micBuf) <= BufCap
    /\ micPump \in CapturePumps /\ micPump.handle <= mic.handle
    /\ since \in 0..Tick /\ recorded \in 0..CaptureFrames

\* What the pump has in its hands is only there between its read and its append.
HandsEmpty == micPump.at # "append" => micPump.pcm = <<>>

\* The frames in the pump's hands that are the present stream's.
Mine == IF micPump.handle = mic.handle THEN micPump.pcm ELSE <<>>

\* A call's frames follow each other through buffer, hands and ring up to the
\* last one recorded, the first of them recorded for this stream, and the ring
\* holds no more than was recorded since the pump emptied it.
CallOrder ==
    mic.kind = "call" =>
        /\ Len(micRing) <= since
        /\ Newest(micRing, recorded)
        /\ Newest(Mine, recorded - Len(micRing))
        /\ Newest(micBuf, recorded - Len(micRing) - Len(Mine))
        /\ Len(micBuf) + Len(Mine) + Len(micRing) + mic.first <= recorded + 1

CaptureInv == CaptureTyped /\ HandsEmpty /\ CallOrder

LEMMA CaptureNumbers ==
    ASSUME Capture!ConstantsOK, CaptureTyped
    PROVE  /\ RingCap \in Nat /\ BufCap \in Nat /\ Tick \in Nat /\ Tick <= RingCap
           /\ CaptureFrames \in Nat /\ CaptureOpens \in Nat
           /\ recorded \in Nat /\ since \in Nat /\ mic.handle \in Nat /\ mic.first \in Nat
           /\ Len(micRing) \in Nat /\ Len(micBuf) \in Nat
           /\ micPump.pcm \in CaptureFramesOf /\ Len(micPump.pcm) \in Nat
           /\ micPump.handle \in Nat
           /\ Mine \in CaptureFramesOf /\ Len(Mine) \in Nat
           /\ <<>> \in CaptureFramesOf /\ Len(<<>>) = 0
<1>1. /\ RingCap \in Nat /\ BufCap \in Nat /\ Tick \in Nat /\ Tick <= RingCap
      /\ CaptureFrames \in Nat /\ CaptureOpens \in Nat
  BY DEF Capture!ConstantsOK
<1>2. /\ micPump.pcm \in CaptureFramesOf /\ micPump.handle \in Nat /\ mic.handle \in Nat
      /\ mic.first \in Nat
  BY <1>1 DEF CaptureTyped, CapturePumps, Mics
<1>3. <<>> \in CaptureFramesOf /\ Len(<<>>) = 0
  BY EmptySeq DEF CaptureFramesOf
<1>4. Mine \in CaptureFramesOf
  BY <1>2, <1>3 DEF Mine
<1>5. \A s \in CaptureFramesOf : Len(s) \in Nat
  BY LenProperties DEF CaptureFramesOf
<1>6. recorded \in Nat /\ since \in Nat
  BY <1>1 DEF CaptureTyped
<1> QED
  BY <1>1, <1>2, <1>3, <1>4, <1>5, <1>6 DEF CaptureTyped

LEMMA NewestEmpty == \A n \in Int : Newest(<<>>, n)
<1>1. Len(<<>>) = 0
  BY EmptySeq
<1> QED
  BY <1>1 DEF Newest

LEMMA CaptureInitially == ASSUME Capture!ConstantsOK PROVE Capture!Init => CaptureInv
<1> SUFFICES ASSUME Capture!Init PROVE CaptureInv
  OBVIOUS
<1>1. /\ CaptureFrames \in Nat /\ CaptureOpens \in Nat /\ RingCap \in Nat /\ BufCap \in Nat
      /\ Tick \in Nat
  BY DEF Capture!ConstantsOK
<1>2. <<>> \in CaptureFramesOf /\ Len(<<>>) = 0
  BY EmptySeq DEF CaptureFramesOf
<1>3. mic \in Mics /\ mic.kind = "none" /\ mic.handle = 0 /\ mic.first = 1
  BY <1>1 DEF Capture!Init, Mics
<1>4. micPump \in CapturePumps /\ micPump.handle = 0 /\ micPump.pcm = <<>>
  BY <1>1, <1>2 DEF Capture!Init, Capture!Asleep, CapturePumps
<1>5. micRing = <<>> /\ micBuf = <<>> /\ since = 0 /\ recorded = 0
  BY DEF Capture!Init
<1>6. CaptureTyped
  BY <1>1, <1>2, <1>3, <1>4, <1>5 DEF CaptureTyped
<1> QED
  BY <1>3, <1>4, <1>6 DEF CaptureInv, HandsEmpty, CallOrder

LEMMA MicKeeps ==
    ASSUME Capture!ConstantsOK, CaptureInv, Capture!Open("call") \/ Capture!Open("direct") \/ Capture!Close
    PROVE  CaptureInv'
<1>0. CaptureTyped
  BY DEF CaptureInv
<1>1. UNCHANGED <<micPump, recorded>> /\ micRing' = <<>> /\ micBuf' = <<>>
  BY DEF Capture!Open, Capture!Close
<1>e. /\ micRing' \in CaptureFramesOf /\ Len(micRing') <= RingCap
      /\ micBuf' \in CaptureFramesOf /\ Len(micBuf') <= BufCap
  BY <1>0, <1>1, CaptureNumbers
<1>2. HandsEmpty'
  BY <1>1 DEF CaptureInv, HandsEmpty
<1>3. CASE Capture!Close
  <2>1. mic' = [mic EXCEPT !.kind = "none"] /\ since' = since
    BY <1>3 DEF Capture!Close
  <2>2. /\ mic' \in Mics /\ mic'.kind = "none" /\ mic'.handle = mic.handle
        /\ mic'.first = mic.first
    BY <1>0, <2>1 DEF CaptureTyped, Mics
  <2>3. CaptureTyped'
    BY <1>0, <1>1, <1>e, <2>1, <2>2 DEF CaptureTyped
  <2> QED
    BY <1>2, <2>2, <2>3 DEF CaptureInv, CallOrder
<1>4. CASE Capture!Open("call") \/ Capture!Open("direct")
  <2>1. PICK kind \in {"call", "direct"} :
            mic' = [kind |-> kind, handle |-> mic.handle + 1, first |-> recorded + 1]
    BY <1>4 DEF Capture!Open
  <2>2. since' = 0 /\ mic.handle < CaptureOpens
    BY <1>4 DEF Capture!Open
  <2>3. recorded + 1 \in 1..(CaptureFrames + 1) /\ mic.handle + 1 \in 0..CaptureOpens
    <3>1. recorded \in 0..CaptureFrames /\ mic.handle \in 0..CaptureOpens
      BY <1>0 DEF CaptureTyped, Mics
    <3>2. CaptureFrames \in Nat /\ CaptureOpens \in Nat
      BY DEF Capture!ConstantsOK
    <3> QED
      BY <2>2, <3>1, <3>2
  <2>4. mic' \in Mics /\ mic'.handle = mic.handle + 1 /\ mic'.first = recorded + 1
    BY <2>1, <2>3 DEF Mics
  <2>5. micPump.handle # mic'.handle /\ micPump.handle <= mic'.handle
    BY <1>0, <2>4, CaptureNumbers DEF CaptureTyped
  <2>6. Mine' = <<>>
    BY <1>1, <2>5 DEF Mine
  <2>7. CaptureTyped'
    BY <1>0, <1>1, <2>2, <2>4, <2>5, CaptureNumbers DEF CaptureTyped
  <2>8. CallOrder'
    <3>1. recorded \in Nat /\ Len(<<>>) = 0
      BY <1>0, CaptureNumbers
    <3> QED
      BY <1>1, <2>2, <2>4, <2>6, <3>1, NewestEmpty DEF CallOrder
  <2> QED
    BY <1>2, <2>7, <2>8 DEF CaptureInv
<1> QED
  BY <1>3, <1>4

LEMMA RecordKeeps ==
    ASSUME Capture!ConstantsOK, CaptureInv, Capture!Record
    PROVE  CaptureInv'
<1>0. CaptureTyped
  BY DEF CaptureInv
<1>1. /\ UNCHANGED <<mic, micBuf, micPump>> /\ recorded < CaptureFrames
      /\ recorded' = recorded + 1
      /\ mic.kind = "call" => since < Tick
      /\ since' = IF mic.kind = "call" THEN since + 1 ELSE 0
      /\ micRing' = IF Len(micRing) < RingCap THEN Append(micRing, recorded + 1) ELSE micRing
  BY DEF Capture!Record
<1>n. /\ recorded \in Nat /\ since \in Nat /\ CaptureFrames \in Nat /\ Tick \in Nat
      /\ RingCap \in Nat /\ Tick <= RingCap /\ mic.first \in Nat
      /\ Len(micRing) \in Nat /\ Len(micBuf) \in Nat /\ Len(Mine) \in Nat
      /\ mic.first <= recorded + 1
  BY <1>0, CaptureNumbers DEF CaptureTyped
<1>2. since' \in 0..Tick /\ recorded' \in 0..CaptureFrames /\ recorded + 1 \in 1..CaptureFrames
  BY <1>1, <1>n
<1>3. micRing' \in CaptureFramesOf /\ Len(micRing') <= RingCap
  <2>1. CASE Len(micRing) < RingCap
    <3>1. /\ Append(micRing, recorded + 1) \in CaptureFramesOf
          /\ Len(Append(micRing, recorded + 1)) = Len(micRing) + 1
      BY <1>0, <1>2, AppendProperties DEF CaptureTyped, CaptureFramesOf
    <3> QED
      BY <1>1, <1>n, <2>1, <3>1
  <2>2. CASE ~(Len(micRing) < RingCap)
    BY <1>0, <1>1, <2>2 DEF CaptureTyped
  <2> QED
    BY <2>1, <2>2
<1>4. CaptureTyped'
  <2>1. mic.first <= recorded' + 1
    BY <1>1, <1>n
  <2> QED
    BY <1>0, <1>1, <1>2, <1>3, <2>1 DEF CaptureTyped
<1>5. HandsEmpty' /\ Mine' = Mine
  BY <1>1 DEF CaptureInv, HandsEmpty, Mine
<1>6. CallOrder'
  <2> SUFFICES ASSUME mic.kind = "call" PROVE CallOrder'
    BY <1>1 DEF CallOrder
  <2>o. CallOrder
    BY DEF CaptureInv
  <2>1. Len(micRing) < RingCap /\ micRing' = Append(micRing, recorded + 1)
    BY <1>1, <1>n, <2>o DEF CallOrder
  <2>2. Len(micRing') = Len(micRing) + 1 /\ Newest(micRing', recorded + 1)
    <3> DEFINE S == 1..CaptureFrames
    <3>1. micRing \in Seq(S) /\ Newest(micRing, recorded) /\ recorded + 1 \in S
      BY <1>0, <1>2, <2>o DEF CallOrder, CaptureTyped, CaptureFramesOf
    <3> HIDE DEF S
    <3>2. /\ Len(Append(micRing, recorded + 1)) = Len(micRing) + 1
          /\ Newest(Append(micRing, recorded + 1), recorded + 1)
      BY <1>n, <3>1, NewestAppended
    <3> QED
      BY <2>1, <3>2
  <2>3. /\ recorded' - Len(micRing') = recorded - Len(micRing)
        /\ since' = since + 1 /\ Len(micRing') <= since'
    BY <1>1, <1>n, <2>o, <2>2 DEF CallOrder
  <2>4. Len(micBuf) + Len(Mine) + Len(micRing') + mic.first <= recorded' + 1
    <3>1. Len(micBuf) + Len(Mine) + Len(micRing) + mic.first <= recorded + 1
      BY <2>o DEF CallOrder
    <3>2. recorded' + 1 = recorded + 1 + 1 /\ Len(micRing') = Len(micRing) + 1
      BY <1>1, <2>2
    <3>3. Len(micBuf) + Len(Mine) + Len(micRing') + mic.first
            = Len(micBuf) + Len(Mine) + Len(micRing) + mic.first + 1
      BY <1>n, <3>2
    <3>4. Len(micBuf) + Len(Mine) + Len(micRing) + mic.first \in Nat
      BY <1>n
    <3> QED
      BY <1>n, <3>1, <3>2, <3>3, <3>4
  <2> QED
    BY <1>1, <1>5, <2>2, <2>3, <2>4 DEF CaptureInv, CallOrder
<1> QED
  BY <1>4, <1>5, <1>6 DEF CaptureInv

LEMMA PumpHandsKeep ==
    ASSUME Capture!ConstantsOK, CaptureInv, Capture!PumpWakes \/ Capture!PumpReads
    PROVE  CaptureInv'
<1>0. CaptureTyped
  BY DEF CaptureInv
<1>1. UNCHANGED <<mic, micBuf, recorded>> /\ micPump.at # "append" /\ micPump.pcm = <<>>
  BY DEF Capture!PumpWakes, Capture!PumpReads, CaptureInv, HandsEmpty
<1>2. Mine = <<>>
  BY <1>1 DEF Mine
<1>3. CASE Capture!PumpWakes
  <2>1. /\ micPump' = [micPump EXCEPT !.at = "read", !.handle = mic.handle]
        /\ UNCHANGED <<micRing, since>>
    BY <1>3 DEF Capture!PumpWakes
  <2>2. /\ micPump' \in CapturePumps /\ micPump'.handle = mic.handle /\ micPump'.pcm = <<>>
        /\ micPump'.at = "read"
    BY <1>0, <1>1, <2>1 DEF CaptureTyped, CapturePumps, Mics
  <2>3. CaptureTyped'
    BY <1>0, <1>1, <2>1, <2>2, CaptureNumbers DEF CaptureTyped
  <2>4. Mine' = Mine /\ HandsEmpty'
    BY <1>1, <1>2, <2>2 DEF Mine, HandsEmpty
  <2>5. CallOrder'
    BY <1>1, <2>1, <2>4 DEF CaptureInv, CallOrder
  <2> QED
    BY <2>3, <2>4, <2>5 DEF CaptureInv
<1>4. CASE Capture!PumpReads
  <2>1. /\ since' = IF micPump.handle = mic.handle THEN 0 ELSE since
        /\ since' \in 0..Tick
    BY <1>0, <1>4, CaptureNumbers DEF Capture!PumpReads, CaptureTyped
  <2>2. CASE /\ micPump.handle = mic.handle
             /\ micPump' = [micPump EXCEPT !.at = "append", !.pcm = micRing] /\ micRing' = <<>>
    <3>1. /\ micPump' \in CapturePumps /\ micPump'.handle = mic.handle /\ micPump'.pcm = micRing
          /\ micPump'.at = "append"
      BY <1>0, <2>2 DEF CaptureTyped, CapturePumps
    <3>2. CaptureTyped'
      BY <1>0, <1>1, <2>1, <2>2, <3>1, CaptureNumbers DEF CaptureTyped
    <3>3. Mine' = micRing /\ HandsEmpty'
      BY <1>1, <3>1 DEF Mine, HandsEmpty
    <3>4. CallOrder'
      <4> SUFFICES ASSUME mic.kind = "call" PROVE CallOrder'
        BY <1>1 DEF CallOrder
      <4>1. /\ Len(micRing') = 0 /\ Len(Mine') = Len(micRing) /\ since' \in Nat
            /\ recorded - Len(micRing') = recorded /\ recorded \in Int
            /\ recorded - Len(micRing) - Len(Mine) = recorded - Len(micRing') - Len(Mine')
        BY <1>0, <1>2, <2>1, <2>2, <3>3, CaptureNumbers
      <4>2. Newest(micRing', recorded)
        BY <2>2, <4>1, NewestEmpty
      <4>3. /\ Newest(Mine', recorded - Len(micRing'))
            /\ Newest(micBuf, recorded - Len(micRing') - Len(Mine'))
        BY <3>3, <4>1 DEF CaptureInv, CallOrder
      <4>4. Len(micBuf) + Len(Mine') + Len(micRing') + mic.first <= recorded + 1
        BY <1>0, <1>2, <4>1, CaptureNumbers DEF CaptureInv, CallOrder
      <4>5. Len(micRing') <= since'
        BY <2>1, <4>1
      <4> QED
        BY <1>1, <4>2, <4>3, <4>4, <4>5 DEF CallOrder
    <3> QED
      BY <3>2, <3>3, <3>4 DEF CaptureInv
  <2>3. CASE /\ ~(mic.kind # "none" /\ micPump.handle = mic.handle /\ micRing # <<>>)
             /\ micPump' = Capture!Asleep /\ micRing' = micRing
    <3>1. micPump' \in CapturePumps /\ micPump'.handle = 0 /\ micPump'.pcm = <<>>
      BY <1>0, <2>3, CaptureNumbers DEF CapturePumps, Capture!Asleep
    <3>2. CaptureTyped'
      BY <1>0, <1>1, <2>1, <2>3, <3>1, CaptureNumbers DEF CaptureTyped
    <3>3. Mine' = Mine /\ HandsEmpty'
      BY <1>2, <3>1 DEF Mine, HandsEmpty
    <3>4. CallOrder'
      <4> SUFFICES ASSUME mic.kind = "call" PROVE CallOrder'
        BY <1>1 DEF CallOrder
      <4>1. Len(micRing) <= since'
        <5>1. CASE micPump.handle = mic.handle
          BY <1>0, <2>1, <2>3, <5>1, CaptureNumbers
        <5>2. CASE micPump.handle # mic.handle
          BY <2>1, <5>2 DEF CaptureInv, CallOrder
        <5> QED
          BY <5>1, <5>2
      <4> QED
        BY <1>1, <2>3, <3>3, <4>1 DEF CaptureInv, CallOrder
    <3> QED
      BY <3>2, <3>3, <3>4 DEF CaptureInv
  <2> QED
    BY <1>4, <2>2, <2>3 DEF Capture!PumpReads
<1> QED
  BY <1>3, <1>4

LEMMA AppendKeeps ==
    ASSUME Capture!ConstantsOK, CaptureInv, Capture!PumpAppends
    PROVE  CaptureInv'
<1> DEFINE all == micBuf \o micPump.pcm
           m == IF Len(all) > BufCap THEN Len(all) - BufCap ELSE 0
<1>0. CaptureTyped
  BY DEF CaptureInv
<1>1. /\ UNCHANGED <<mic, micRing, since, recorded>> /\ micPump' = Capture!Asleep
      /\ micBuf' = IF mic.kind = "call" /\ micPump.handle = mic.handle
                THEN SubSeq(all, m + 1, Len(all)) ELSE micBuf
  BY DEF Capture!PumpAppends, Capture!DropFirst
<1>2. /\ all \in CaptureFramesOf /\ Len(all) = Len(micBuf) + Len(micPump.pcm)
  BY <1>0, CaptureNumbers, ConcatProperties DEF CaptureFramesOf, CaptureTyped
<1>n. /\ Len(micBuf) \in Nat /\ Len(micPump.pcm) \in Nat /\ BufCap \in Nat /\ RingCap \in Nat
      /\ Len(micRing) \in Nat /\ recorded \in Nat /\ mic.first \in Nat
  BY <1>0, CaptureNumbers
<1>3. m \in 0..Len(all) /\ Len(all) - m <= BufCap /\ Len(all) \in Nat
  <2>1. Len(all) \in Nat
    BY <1>2, <1>n
  <2> HIDE DEF all
  <2> QED
    BY <1>n, <2>1
<1> HIDE DEF m
<1>4. micPump' \in CapturePumps /\ micPump'.handle = 0 /\ micPump'.pcm = <<>>
  BY <1>0, <1>1, CaptureNumbers DEF CapturePumps, Capture!Asleep
<1>5. Mine' = <<>> /\ HandsEmpty'
  BY <1>4 DEF Mine, HandsEmpty
<1>6. CASE mic.kind = "call" /\ micPump.handle = mic.handle
  <2> DEFINE rest == SubSeq(all, m + 1, Len(all))
  <2>1. /\ rest \in CaptureFramesOf /\ Len(rest) = Len(all) - m
        /\ \A n \in Int : Newest(all, n) => Newest(rest, n)
    <3> HIDE DEF all
    <3> QED
      BY <1>2, <1>3, NewestShortened DEF CaptureFramesOf
  <2>2. micBuf' = rest /\ Mine = micPump.pcm
    BY <1>1, <1>6 DEF Mine
  <2>3. Newest(all, recorded - Len(micRing))
    <3>1. /\ Newest(micPump.pcm, recorded - Len(micRing)) /\ recorded - Len(micRing) \in Int
          /\ Newest(micBuf, recorded - Len(micRing) - Len(micPump.pcm))
      BY <1>0, <1>6, <2>2, CaptureNumbers DEF CaptureInv, CallOrder
    <3> QED
      BY <1>0, <3>1, CaptureNumbers, NewestJoined DEF CaptureTyped, CaptureFramesOf
  <2> HIDE DEF all, rest
  <2>4. /\ micBuf' \in CaptureFramesOf /\ Len(micBuf') <= BufCap
    BY <1>3, <2>1, <2>2
  <2>5. CaptureTyped'
    <3>1. micPump'.handle <= mic'.handle
      BY <1>0, <1>1, <1>4, CaptureNumbers
    <3> QED
      BY <1>0, <1>1, <1>4, <2>4, <3>1 DEF CaptureTyped
  <2>6. CallOrder'
    <3>1. /\ Len(Mine') = 0 /\ recorded - Len(micRing) - Len(Mine') = recorded - Len(micRing)
          /\ recorded - Len(micRing) \in Int
      BY <1>0, <1>5, CaptureNumbers
    <3>2. Newest(micBuf', recorded - Len(micRing) - Len(Mine'))
      BY <2>1, <2>2, <2>3, <3>1
    <3>3. Newest(Mine', recorded - Len(micRing))
      BY <1>5, <3>1, NewestEmpty
    <3>4. Len(micBuf') + Len(Mine') + Len(micRing) + mic.first <= recorded + 1
      <4>1. Len(micBuf) + Len(Mine) + Len(micRing) + mic.first <= recorded + 1
        BY <1>6 DEF CaptureInv, CallOrder
      <4>2. /\ Len(micBuf') = Len(all) - m /\ Len(all) = Len(micBuf) + Len(Mine)
            /\ Len(Mine) \in Nat
        BY <1>2, <1>n, <2>1, <2>2 DEF all
      <4>3. Len(micBuf') <= Len(micBuf) + Len(Mine) /\ Len(micBuf') \in Nat
        BY <1>3, <1>n, <4>2
      <4> QED
        BY <1>n, <3>1, <4>1, <4>2, <4>3
    <3> QED
      BY <1>1, <1>6, <3>2, <3>3, <3>4 DEF CaptureInv, CallOrder
  <2> QED
    BY <1>5, <2>5, <2>6 DEF CaptureInv
<1>7. CASE ~(mic.kind = "call" /\ micPump.handle = mic.handle)
  <2>1. micBuf' = micBuf
    BY <1>1, <1>7
  <2>2. CaptureTyped'
    <3>1. micPump'.handle <= mic'.handle
      BY <1>0, <1>1, <1>4, CaptureNumbers
    <3> QED
      BY <1>0, <1>1, <1>4, <2>1, <3>1 DEF CaptureTyped
  <2>3. CallOrder'
    <3> SUFFICES ASSUME mic.kind = "call" PROVE CallOrder'
      BY <1>1 DEF CallOrder
    <3>1. Mine' = Mine
      BY <1>5, <1>7 DEF Mine
    <3> QED
      BY <1>1, <2>1, <3>1 DEF CaptureInv, CallOrder
  <2> QED
    BY <1>5, <2>2, <2>3 DEF CaptureInv
<1> QED
  BY <1>6, <1>7

LEMMA ReadKeepsCapture ==
    ASSUME Capture!ConstantsOK, CaptureInv, Capture!Read
    PROVE  CaptureInv'
<1>0. CaptureTyped
  BY DEF CaptureInv
<1>1. UNCHANGED <<mic, micPump, since, recorded>>
  BY DEF Capture!Read
<1>2. PICK max \in 1..BufCap :
         \/ /\ mic.kind = "call" /\ micBuf' = Capture!DropFirst(micBuf, Capture!Least(max, Len(micBuf)))
            /\ UNCHANGED micRing
         \/ /\ mic.kind = "direct" /\ micRing' = Capture!DropFirst(micRing, Capture!Least(max, Len(micRing)))
            /\ UNCHANGED micBuf
  BY DEF Capture!Read
<1>3. HandsEmpty' /\ Mine' = Mine
  BY <1>1 DEF CaptureInv, HandsEmpty, Mine
<1>4. CASE mic.kind = "call" /\ micBuf' = Capture!DropFirst(micBuf, Capture!Least(max, Len(micBuf))) /\ UNCHANGED micRing
  <2> DEFINE m == Capture!Least(max, Len(micBuf))
  <2>1. m \in 0..Len(micBuf)
    BY <1>0, CaptureNumbers DEF Capture!Least
  <2>2. micBuf' = SubSeq(micBuf, m + 1, Len(micBuf))
    BY <1>4 DEF Capture!DropFirst
  <2> HIDE DEF m
  <2>3. /\ micBuf' \in CaptureFramesOf /\ Len(micBuf') = Len(micBuf) - m
        /\ \A n \in Int : Newest(micBuf, n) => Newest(micBuf', n)
    BY <1>0, <2>1, <2>2, NewestShortened DEF CaptureTyped, CaptureFramesOf
  <2>4. Len(micBuf') <= Len(micBuf) /\ Len(micBuf') <= BufCap /\ Len(micBuf') \in Nat
    BY <1>0, <2>1, <2>3, CaptureNumbers DEF CaptureTyped
  <2>5. CaptureTyped'
    BY <1>0, <1>1, <1>4, <2>3, <2>4 DEF CaptureTyped
  <2>6. CallOrder'
    <3>1. recorded - Len(micRing) - Len(Mine) \in Int
      BY <1>0, CaptureNumbers
    <3>2. Newest(micBuf', recorded - Len(micRing) - Len(Mine))
      BY <1>4, <2>3, <3>1 DEF CaptureInv, CallOrder
    <3>3. Len(micBuf') + Len(Mine) + Len(micRing) + mic.first <= recorded + 1
      <4>1. Len(micBuf) + Len(Mine) + Len(micRing) + mic.first <= recorded + 1
        BY <1>4 DEF CaptureInv, CallOrder
      <4>2. /\ Len(micBuf) \in Nat /\ Len(Mine) \in Nat /\ Len(micRing) \in Nat
            /\ recorded \in Nat /\ mic.first \in Nat
        BY <1>0, CaptureNumbers
      <4> QED
        BY <2>4, <4>1, <4>2
    <3> QED
      BY <1>1, <1>3, <1>4, <3>2, <3>3 DEF CaptureInv, CallOrder
  <2> QED
    BY <1>3, <2>5, <2>6 DEF CaptureInv
<1>5. CASE mic.kind = "direct" /\ micRing' = Capture!DropFirst(micRing, Capture!Least(max, Len(micRing)))
           /\ UNCHANGED micBuf
  <2> DEFINE m == Capture!Least(max, Len(micRing))
  <2>1. m \in 0..Len(micRing)
    BY <1>0, CaptureNumbers DEF Capture!Least
  <2>2. micRing' = SubSeq(micRing, m + 1, Len(micRing))
    BY <1>5 DEF Capture!DropFirst
  <2> HIDE DEF m
  <2>3. micRing' \in CaptureFramesOf /\ Len(micRing') = Len(micRing) - m
    BY <1>0, <2>1, <2>2, NewestShortened DEF CaptureTyped, CaptureFramesOf
  <2>4. Len(micRing') <= RingCap
    BY <1>0, <2>1, <2>3, CaptureNumbers DEF CaptureTyped
  <2>5. CaptureTyped'
    BY <1>0, <1>1, <1>5, <2>3, <2>4 DEF CaptureTyped
  <2> QED
    BY <1>1, <1>3, <1>5, <2>5 DEF CaptureInv, CallOrder
<1> QED
  BY <1>2, <1>4, <1>5

LEMMA CaptureInductive == ASSUME Capture!ConstantsOK PROVE Capture!Spec => []CaptureInv
<1>1. CaptureInv /\ [Capture!Next]_Capture!vars => CaptureInv'
  <2> SUFFICES ASSUME CaptureInv, [Capture!Next]_Capture!vars PROVE CaptureInv'
    OBVIOUS
  <2>1. CASE UNCHANGED Capture!vars
    BY <2>1 DEF Capture!vars, CaptureInv, CaptureTyped, HandsEmpty, CallOrder, Mine, Newest
  <2> QED
    BY <2>1, MicKeeps, RecordKeeps, PumpHandsKeep, AppendKeeps, ReadKeepsCapture DEF
       Capture!Next
<1> QED
  BY <1>1, CaptureInitially, PTL DEF Capture!Spec

LEMMA CaptureConsequences ==
    ASSUME Capture!ConstantsOK, CaptureInv
    PROVE  Capture!TypeOK /\ Capture!CallKeepsTheNewest
<1>0. CaptureTyped
  BY DEF CaptureInv
<1>1. Capture!TypeOK
  BY <1>0 DEF CaptureTyped, Mics, CapturePumps, CaptureFramesOf, Capture!TypeOK
<1>2. Capture!CallKeepsTheNewest
  <2> SUFFICES ASSUME mic.kind = "call"
               PROVE  LET held == micBuf \o Mine \o micRing
                      IN \A i \in 1..Len(held) : /\ held[i] = recorded - Len(held) + i
                                                 /\ held[i] >= mic.first
    BY DEF Capture!CallKeepsTheNewest, Mine
  <2> DEFINE held == micBuf \o Mine \o micRing
  <2>1. /\ micBuf \in CaptureFramesOf /\ Mine \in CaptureFramesOf /\ micRing \in CaptureFramesOf
        /\ Len(micBuf) \in Nat /\ Len(Mine) \in Nat /\ Len(micRing) \in Nat /\ recorded \in Nat
        /\ mic.first \in Nat
    BY <1>0, CaptureNumbers DEF CaptureTyped
  <2>2. /\ micBuf \o Mine \in CaptureFramesOf /\ Len(micBuf \o Mine) = Len(micBuf) + Len(Mine)
        /\ held \in CaptureFramesOf /\ Len(held) = Len(micBuf) + Len(Mine) + Len(micRing)
    BY <2>1, ConcatProperties DEF CaptureFramesOf
  <2>3. Newest(micBuf \o Mine, recorded - Len(micRing))
    BY <2>1, NewestJoined DEF CaptureInv, CallOrder, CaptureFramesOf
  <2>4. Newest(held, recorded)
    <3> DEFINE s == micBuf \o Mine
    <3>1. /\ Newest(micRing, recorded) /\ Newest(s, recorded - Len(micRing))
          /\ s \in Seq(1..CaptureFrames) /\ micRing \in Seq(1..CaptureFrames)
          /\ recorded \in Int
      BY <2>1, <2>2, <2>3 DEF CaptureInv, CallOrder, CaptureFramesOf
    <3> HIDE DEF s
    <3>2. Newest(s \o micRing, recorded)
      BY <3>1, NewestJoined
    <3> QED
      BY <3>2 DEF s
  <2> HIDE DEF held
  <2>5. ASSUME NEW i \in 1..Len(held)
        PROVE  held[i] = recorded - Len(held) + i /\ held[i] >= mic.first
    <3>1. held[i] = recorded - Len(held) + i
      BY <2>4 DEF Newest
    <3>2. Len(held) + mic.first <= recorded + 1
      BY <2>1, <2>2 DEF CaptureInv, CallOrder
    <3> QED
      BY <2>1, <2>2, <3>1, <3>2
  <2> QED
    BY <2>5 DEF held
<1> QED
  BY <1>1, <1>2


-----------------------------------------------------------------------------
(* Controls: the inductive invariant.                                      *)

ServersOf == [up : BOOLEAN, ranged : BOOLEAN, strategy : Controls!Devices \cup {"default"},
              volume : [Controls!Devices -> Controls!Unset..MaxIndex], muted : [Controls!Devices -> BOOLEAN]]
RingersOf == [Ringers -> [flag : BOOLEAN, slot : BOOLEAN, device : {"default", "speaker"},
                          thread : {"none", "starting", "ringing"}]]
HostsOf == [comms : BOOLEAN, route : Controls!RouteCodes, muted : BOOLEAN]
CallsOf == [track : {"none", "opening", "open"}, raced : BOOLEAN]

\* A call is open on a server that is up; one being opened will find volumes set
\* unless audioserver was restarted since the look at them.
OpenOnServer ==
    /\ call.track = "open" => server.up
    /\ call.track = "opening" /\ server.up => server.ranged \/ call.raced

\* What a server that keeps its types may be told.
GoodServer(s) ==
    /\ s \in ServersOf
    /\ \A d \in Controls!Devices : s.volume[d] \in (IF s.ranged THEN 0..MaxIndex ELSE Controls!Unset..Controls!Unset)

ControlsTyped ==
    /\ GoodServer(server) /\ host \in HostsOf /\ applied \in Controls!Devices \cup {"none"}
    /\ ports \in {"unbuilt", "known", "empty"}
    /\ call \in CallsOf /\ ringer \in RingersOf /\ joining \in Ringers \cup {"none"}

ControlsInv == ControlsTyped /\ OpenOnServer /\ Controls!CallIsAudible /\ Controls!StoppedIsSilent

LEMMA ControlsTypedIsTypeOK == ControlsTyped => Controls!TypeOK
BY DEF ControlsTyped, Controls!TypeOK, GoodServer, ServersOf, HostsOf, CallsOf, RingersOf,
   Controls!Low, Controls!High

LEMMA Indices ==
    ASSUME Controls!ConstantsOK
    PROVE  /\ MaxIndex \in Nat \ {0} /\ Controls!Unset \in Int /\ Controls!Unset = -1
           /\ MaxIndex \in 0..MaxIndex /\ MaxIndex \in Controls!Unset..MaxIndex
           /\ 0..MaxIndex \subseteq Controls!Unset..MaxIndex
           /\ Controls!Unset..Controls!Unset \subseteq Controls!Unset..MaxIndex
           /\ Controls!Low \in Int /\ Controls!High \in Int /\ Controls!Low <= Controls!High
           /\ Controls!Low..Controls!High = IF server.ranged THEN 0..MaxIndex ELSE Controls!Unset..Controls!Unset
BY DEF Controls!ConstantsOK, Controls!Unset, Controls!Low, Controls!High

LEMMA FreshIsGood ==
    ASSUME Controls!ConstantsOK
    PROVE  GoodServer(Controls!Fresh) /\ GoodServer([Controls!Fresh EXCEPT !.up = FALSE])
<1>1. /\ Controls!Unset \in Controls!Unset..MaxIndex
      /\ Controls!Unset \in Controls!Unset..Controls!Unset
  BY Indices DEF Controls!Unset
<1> QED
  BY <1>1 DEF GoodServer, ServersOf, Controls!Fresh, Controls!Devices

\* The setters keep a server's types.
LEMMA SettersKeep ==
    ASSUME Controls!ConstantsOK, NEW s, GoodServer(s)
    PROVE  /\ \A b \in BOOLEAN : /\ GoodServer(Controls!Routed(s, b))
                                 /\ Controls!Routed(s, b).up = s.up
                                 /\ Controls!Routed(s, b).ranged = s.ranged
                                 /\ s.up => Controls!Routed(s, b).strategy = Controls!Device(b)
           /\ GoodServer(Controls!Unrouted(s)) /\ Controls!Unrouted(s).up = s.up
           /\ Controls!Unrouted(s).ranged = s.ranged
           /\ GoodServer(Controls!Initialised(s)) /\ Controls!Initialised(s).up = s.up
           /\ s.up => Controls!Initialised(s).ranged
<1>1. ASSUME NEW b \in BOOLEAN
      PROVE  /\ GoodServer(Controls!Routed(s, b))
             /\ Controls!Routed(s, b).up = s.up /\ Controls!Routed(s, b).ranged = s.ranged
             /\ s.up => Controls!Routed(s, b).strategy = Controls!Device(b)
  BY DEF GoodServer, ServersOf, Controls!Routed, Controls!Device, Controls!Devices
<1>2. /\ GoodServer(Controls!Unrouted(s)) /\ Controls!Unrouted(s).up = s.up
      /\ Controls!Unrouted(s).ranged = s.ranged
  BY DEF GoodServer, ServersOf, Controls!Unrouted
<1>3. /\ GoodServer(Controls!Initialised(s)) /\ Controls!Initialised(s).up = s.up
      /\ s.up => Controls!Initialised(s).ranged
  <2>1. CASE s.up
    <3>1. [d \in Controls!Devices |-> MaxIndex] \in [Controls!Devices -> Controls!Unset..MaxIndex]
      BY Indices
    <3> DEFINE v == [d \in Controls!Devices |-> MaxIndex]
    <3>2. \A d \in Controls!Devices : v[d] \in 0..MaxIndex
      BY Indices
    <3>3. Controls!Initialised(s) = [s EXCEPT !.ranged = TRUE, !.volume = v]
      BY <2>1 DEF Controls!Initialised
    <3> HIDE DEF v
    <3> QED
      BY <3>1, <3>2, <3>3 DEF GoodServer, ServersOf, v
  <2>2. CASE ~s.up
    BY <2>2 DEF Controls!Initialised
  <2> QED
    BY <2>1, <2>2
<1> QED
  BY <1>1, <1>2, <1>3

LEMMA ClampedIndex ==
    ASSUME Controls!ConstantsOK, NEW i \in Int
    PROVE  Controls!Clamp(i, Controls!Low, Controls!High) \in (IF server.ranged THEN 0..MaxIndex ELSE Controls!Unset..Controls!Unset)
BY Indices DEF Controls!Clamp

\* A volume set by an index is in the range, and nothing else is lost.
LEMMA IndexKeeps ==
    ASSUME Controls!ConstantsOK, GoodServer(server), NEW d \in Controls!Devices, NEW i \in Int, Controls!SetIndex(d, i)
    PROVE  /\ GoodServer(server') /\ server'.up = server.up /\ server'.ranged = server.ranged
           /\ server'.strategy = server.strategy
<1> DEFINE v == Controls!Clamp(i, Controls!Low, Controls!High)
<1>1. v \in (IF server.ranged THEN 0..MaxIndex ELSE Controls!Unset..Controls!Unset) /\ v \in Controls!Unset..MaxIndex
  BY ClampedIndex, Indices
<1>2. server' = IF server.up
                THEN [server EXCEPT !.volume[d] = v, !.muted[d] = FALSE] ELSE server
  BY DEF Controls!SetIndex
<1> HIDE DEF v
<1> QED
  BY <1>1, <1>2 DEF GoodServer, ServersOf

LEMMA ControlsInitially == ASSUME Controls!ConstantsOK PROVE Controls!Init => ControlsInv
<1> SUFFICES ASSUME Controls!Init PROVE ControlsInv
  OBVIOUS
<1>1. GoodServer(server)
  BY FreshIsGood DEF Controls!Init
<1>2. ControlsTyped
  BY <1>1 DEF Controls!Init, ControlsTyped, HostsOf, CallsOf, RingersOf, Controls!Quiet,
     Controls!RouteCodes
<1> QED
  BY <1>2 DEF Controls!Init, ControlsInv, OpenOnServer, Controls!CallIsAudible,
     Controls!StoppedIsSilent, Controls!Quiet

\* Orders and controls: the server is told, no track and no thread is touched.
LEMMA OrdersKeep ==
    ASSUME Controls!ConstantsOK, ControlsInv, UNCHANGED <<call, ringer, joining>>,
           GoodServer(server'), server'.up = server.up, server.ranged => server'.ranged,
           host' \in HostsOf, applied' \in Controls!Devices \cup {"none"},
           ports' \in {"unbuilt", "known", "empty"},
           server.up /\ applied' # "none" =>
               \/ server'.strategy = applied'
               \/ applied' = applied /\ server'.strategy = server.strategy
    PROVE  ControlsInv'
<1>1. ControlsTyped'
  BY DEF ControlsInv, ControlsTyped
<1> QED
  BY <1>1 DEF ControlsInv, OpenOnServer, Controls!CallIsAudible, Controls!StoppedIsSilent

LEMMA OrderSteps ==
    ASSUME Controls!ConstantsOK, ControlsInv,
           \/ \E b \in BOOLEAN : Controls!ApplyRoute(b) \/ Controls!CommMode(b) \/ Controls!SetGate(b)
           \/ \E r \in Controls!RouteCodes : Controls!SetRoute(r)
           \/ \E s, b \in BOOLEAN : Controls!AdjustVolume(s, b) \/ Controls!SetMute(s, b)
           \/ \E t \in {0, 4, 10} : Controls!SetVolume(t)
    PROVE  ControlsInv'
<1>1. ControlsTyped /\ GoodServer(server)
  BY DEF ControlsInv, ControlsTyped
<1>2. ASSUME NEW b \in BOOLEAN, Controls!ApplyRoute(b) PROVE ControlsInv'
  <2>1. /\ GoodServer(server') /\ server'.up = server.up /\ server'.ranged = server.ranged
        /\ server.up => server'.strategy = Controls!Device(b)
    BY <1>1, <1>2, SettersKeep DEF Controls!ApplyRoute
  <2>2. /\ host' \in HostsOf /\ applied' = Controls!Device(b)
        /\ Controls!Device(b) \in Controls!Devices
    BY <1>1, <1>2 DEF Controls!ApplyRoute, ControlsTyped, HostsOf, Controls!Device,
       Controls!Devices
  <2>3. /\ ports' \in {"unbuilt", "known", "empty"} /\ UNCHANGED <<call, ringer, joining>>
        /\ applied' \in Controls!Devices \cup {"none"} /\ (server.up => server'.strategy = applied')
    BY <1>1, <1>2, <2>1, <2>2 DEF Controls!ApplyRoute, ControlsTyped
  <2> QED
    BY <2>1, <2>2, <2>3, OrdersKeep
<1>3. ASSUME NEW r \in Controls!RouteCodes, Controls!SetRoute(r) PROVE ControlsInv'
  <2> DEFINE b == r = "speaker"
  <2>0. b \in BOOLEAN
    OBVIOUS
  <2>1. /\ host' = [host EXCEPT !.comms = b, !.route = r]
        /\ server' = Controls!Routed(server, b) /\ applied' = Controls!Device(b)
        /\ UNCHANGED <<ports, call, ringer, joining>>
    BY <1>3 DEF Controls!SetRoute
  <2> HIDE DEF b
  <2>2. /\ GoodServer(server') /\ server'.up = server.up /\ server'.ranged = server.ranged
        /\ server.up => server'.strategy = Controls!Device(b)
    BY <1>1, <2>0, <2>1, SettersKeep
  <2>3. host' \in HostsOf /\ Controls!Device(b) \in Controls!Devices
    BY <1>1, <2>0, <2>1 DEF ControlsTyped, HostsOf, Controls!Device, Controls!Devices
  <2>4. /\ ports' \in {"unbuilt", "known", "empty"}
        /\ applied' \in Controls!Devices \cup {"none"} /\ (server.up => server'.strategy = applied')
    BY <1>1, <2>1, <2>2, <2>3 DEF ControlsTyped
  <2> QED
    BY <2>1, <2>2, <2>3, <2>4, OrdersKeep
<1>4. ASSUME NEW comm \in BOOLEAN, Controls!CommMode(comm) PROVE ControlsInv'
  <2>1. host' \in HostsOf /\ applied' \in {applied, "none"} /\ (comm => applied' = applied)
        /\ (~comm => applied' = "none") /\ UNCHANGED <<ports, call, ringer, joining>>
    BY <1>1, <1>4 DEF Controls!CommMode, ControlsTyped, HostsOf
  <2>2. CASE ~comm
    BY <1>1, <1>4, <2>1, <2>2, SettersKeep, OrdersKeep DEF Controls!CommMode, ControlsTyped
  <2>3. CASE comm
    <3> DEFINE v == [d \in Controls!Devices |-> MaxIndex]
    <3>1. v \in [Controls!Devices -> Controls!Unset..MaxIndex] /\ \A d \in Controls!Devices : v[d] \in 0..MaxIndex
      BY Indices
    <3>2. \/ server' = server
          \/ server.up /\ server.ranged /\ server' = [server EXCEPT !.volume = v]
      BY <1>4, <2>3 DEF Controls!CommMode
    <3> HIDE DEF v
    <3>3. /\ GoodServer(server') /\ server'.up = server.up
          /\ server'.ranged = server.ranged /\ server'.strategy = server.strategy
      BY <1>1, <3>1, <3>2 DEF GoodServer, ServersOf
    <3> QED
      BY <1>1, <2>1, <2>3, <3>3, OrdersKeep DEF ControlsTyped
  <2> QED
    BY <2>2, <2>3
<1>5. ASSUME NEW b \in BOOLEAN, Controls!SetGate(b) PROVE ControlsInv'
  <2>1. host' \in HostsOf /\ UNCHANGED <<server, applied, ports, call, ringer, joining>>
    BY <1>1, <1>5 DEF Controls!SetGate, ControlsTyped, HostsOf
  <2> QED
    BY <1>1, <2>1, OrdersKeep DEF ControlsTyped
<1>6. ASSUME NEW d \in Controls!Devices, NEW i \in Int, Controls!SetIndex(d, i),
             UNCHANGED <<host, applied, ports, call, ringer, joining>>
      PROVE  ControlsInv'
  BY <1>1, <1>6, IndexKeeps, OrdersKeep DEF ControlsTyped
<1>7. ASSUME NEW s \in BOOLEAN, NEW b \in BOOLEAN, Controls!AdjustVolume(s, b) PROVE ControlsInv'
  <2> DEFINE step == Controls!Clamp((Controls!High - Controls!Low) \div 10, 1, MaxIndex)
             d == Controls!Device(s)
             i == server.volume[d] + (IF b THEN step ELSE -step)
  <2>1. d \in Controls!Devices
    BY DEF Controls!Device, Controls!Devices
  <2>2. server.volume[d] \in Int
    BY <1>1, <2>1, Indices DEF GoodServer, ServersOf
  <2>3. step \in Int
    <3> DEFINE w == Controls!High - Controls!Low
    <3>1. w \in Int
      BY Indices
    <3> HIDE DEF w
    <3>2. w \div 10 \in Int
      BY <3>1, DivMod
    <3>3. MaxIndex \in Int
      BY Indices
    <3> QED
      BY <3>2, <3>3 DEF Controls!Clamp, w
  <2>4. i \in Int
    <3> HIDE DEF step, d
    <3> QED
      BY <2>2, <2>3
  <2>5. Controls!SetIndex(d, i) /\ UNCHANGED <<host, applied, ports, call, ringer, joining>>
    BY <1>7 DEF Controls!AdjustVolume
  <2> HIDE DEF d, i
  <2> QED
    BY <2>1, <2>4, <2>5, <1>6
<1>8. ASSUME NEW t \in {0, 4, 10}, Controls!SetVolume(t) PROVE ControlsInv'
  <2> DEFINE d == Controls!Device(host.route = "speaker")
             n == (Controls!High - Controls!Low) * t + 5
             i == Controls!Low + n \div 10
  <2>1. d \in Controls!Devices
    BY DEF Controls!Device, Controls!Devices
  <2>2. n \in Int
    BY Indices
  <2>3. i \in Int
    <3> HIDE DEF n
    <3>1. n \div 10 \in Int
      BY <2>2, DivMod
    <3> QED
      BY <3>1, Indices
  <2>4. Controls!SetIndex(d, i) /\ UNCHANGED <<host, applied, ports, call, ringer, joining>>
    BY <1>8 DEF Controls!SetVolume
  <2> HIDE DEF d, i
  <2> QED
    BY <2>1, <2>3, <2>4, <1>6
<1>9. ASSUME NEW s \in BOOLEAN, NEW b \in BOOLEAN, Controls!SetMute(s, b) PROVE ControlsInv'
  <2>1. /\ GoodServer(server') /\ server'.up = server.up /\ server'.ranged = server.ranged
        /\ server'.strategy = server.strategy
    BY <1>1, <1>9 DEF Controls!SetMute, GoodServer, ServersOf, Controls!Device, Controls!Devices
  <2> QED
    BY <1>1, <1>9, <2>1, OrdersKeep DEF Controls!SetMute, ControlsTyped
<1> QED
  BY <1>2, <1>3, <1>4, <1>5, <1>7, <1>8, <1>9

\* The call's track.
LEMMA CallSteps ==
    ASSUME Controls!ConstantsOK, ControlsInv, Controls!Ensure \/ Controls!OpenCall \/ Controls!CloseCall
    PROVE  ControlsInv'
<1>1. ControlsTyped /\ GoodServer(server) /\ OpenOnServer /\ Controls!StoppedIsSilent
  BY DEF ControlsInv, ControlsTyped
<1>2. UNCHANGED <<host, ringer, joining>> /\ Controls!StoppedIsSilent'
  BY <1>1 DEF Controls!Ensure, Controls!OpenCall, Controls!CloseCall, Controls!StoppedIsSilent
<1>3. CASE Controls!Ensure
  <2>1. /\ GoodServer(server') /\ (server'.up => server'.ranged)
        /\ call' = [track |-> "opening", raced |-> FALSE] /\ UNCHANGED <<applied, ports>>
    BY <1>1, <1>3, SettersKeep DEF Controls!Ensure
  <2>2. ControlsTyped'
    BY <1>1, <1>2, <2>1 DEF ControlsTyped, CallsOf
  <2> QED
    BY <1>2, <2>1, <2>2 DEF ControlsInv, OpenOnServer, Controls!CallIsAudible
<1>4. CASE Controls!OpenCall
  <2>1. ports' \in {"unbuilt", "known", "empty"}
    BY <1>1, <1>4 DEF Controls!OpenCall, Controls!Model, ControlsTyped
  <2>2. CASE /\ server.up /\ call' = [call EXCEPT !.track = "open"]
             /\ server' = Controls!Routed(server, host.comms)
             /\ applied' = Controls!Device(host.comms)
    <3>1. host.comms \in BOOLEAN
      BY <1>1 DEF ControlsTyped, HostsOf
    <3>2. /\ GoodServer(server') /\ server'.up /\ server'.ranged = server.ranged
          /\ server'.strategy = Controls!Device(host.comms)
      BY <1>1, <2>2, <3>1, SettersKeep
    <3>3. /\ call' \in CallsOf /\ call'.track = "open" /\ call'.raced = call.raced
          /\ call.track = "opening"
      BY <1>1, <1>4, <2>2 DEF Controls!OpenCall, ControlsTyped, CallsOf
    <3>4. Controls!Device(host.comms) \in Controls!Devices
      BY DEF Controls!Device, Controls!Devices
    <3>5. ControlsTyped'
      BY <1>1, <1>2, <2>1, <2>2, <3>2, <3>3, <3>4 DEF ControlsTyped
    <3> QED
      BY <1>1, <1>2, <2>2, <3>2, <3>3, <3>5 DEF ControlsInv, OpenOnServer,
         Controls!CallIsAudible
  <2>3. CASE call' = [call EXCEPT !.track = "none"] /\ UNCHANGED <<server, applied>>
    <3>1. call' \in CallsOf /\ call'.track = "none"
      BY <1>1, <2>3 DEF ControlsTyped, CallsOf
    <3>2. ControlsTyped'
      BY <1>1, <1>2, <2>1, <2>3, <3>1 DEF ControlsTyped
    <3> QED
      BY <1>2, <3>1, <3>2 DEF ControlsInv, OpenOnServer, Controls!CallIsAudible
  <2> QED
    BY <1>4, <2>2, <2>3 DEF Controls!OpenCall
<1>5. CASE Controls!CloseCall
  <2>1. /\ call' \in CallsOf /\ call'.track = "none" /\ UNCHANGED <<server, applied, ports>>
    BY <1>1, <1>5 DEF Controls!CloseCall, ControlsTyped, CallsOf
  <2>2. ControlsTyped'
    BY <1>1, <1>2, <2>1 DEF ControlsTyped
  <2> QED
    BY <1>2, <2>1, <2>2 DEF ControlsInv, OpenOnServer, Controls!CallIsAudible
<1> QED
  BY <1>3, <1>4, <1>5

\* The ringers.
LEMMA RingSteps ==
    ASSUME Controls!ConstantsOK, ControlsInv,
           \/ joining = "none" /\ \E k \in Ringers : Controls!RingStart(k) \/ Controls!RingStop(k)
           \/ Controls!Joined \/ Controls!Threads
    PROVE  ControlsInv'
<1>1. ControlsTyped /\ Controls!StoppedIsSilent /\ "none" \notin Ringers
  BY DEF ControlsInv, ControlsTyped, Controls!ConstantsOK
<1>2. /\ UNCHANGED <<server, host, applied, call>>
      /\ ports' \in {"unbuilt", "known", "empty"}
  BY <1>1 DEF Controls!RingStart, Controls!RingStop, Controls!Joined, Controls!Threads,
     Controls!ToneOpens, Controls!BuzzBegins, Controls!RingEnds, Controls!Model,
     ControlsTyped
<1>3. ringer' \in RingersOf /\ joining' \in Ringers \cup {"none"} /\ Controls!StoppedIsSilent'
  <2>1. ASSUME NEW k \in Ringers, joining = "none", Controls!RingStart(k)
        PROVE  ringer' \in RingersOf /\ joining' \in Ringers \cup {"none"} /\ Controls!StoppedIsSilent'
    BY <1>1, <2>1 DEF Controls!RingStart, RingersOf, ControlsTyped, Controls!StoppedIsSilent
  <2>2. ASSUME NEW k \in Ringers, joining = "none", Controls!RingStop(k)
        PROVE  ringer' \in RingersOf /\ joining' \in Ringers \cup {"none"} /\ Controls!StoppedIsSilent'
    <3>1. /\ ringer' = [ringer EXCEPT ![k].flag = FALSE, ![k].slot = FALSE]
          /\ joining' = IF ringer[k].slot THEN k ELSE "none"
      BY <2>2 DEF Controls!RingStop
    <3>2. ringer \in RingersOf
      BY <1>1 DEF ControlsTyped
    <3>3. /\ ringer' \in RingersOf /\ ~ringer'[k].slot /\ ringer'[k].thread = ringer[k].thread
          /\ \A j \in Ringers \ {k} : ringer'[j] = ringer[j]
      BY <3>1, <3>2 DEF RingersOf
    <3>4. Controls!StoppedIsSilent'
      BY <1>1, <2>2, <3>1, <3>3 DEF Controls!StoppedIsSilent
    <3> QED
      BY <3>1, <3>3, <3>4
  <2>3. CASE Controls!Joined
    BY <1>1, <2>3 DEF Controls!Joined, RingersOf, ControlsTyped, Controls!StoppedIsSilent
  <2>4. CASE Controls!ToneOpens
    BY <1>1, <2>4 DEF Controls!ToneOpens, RingersOf, ControlsTyped, Controls!StoppedIsSilent
  <2>5. CASE Controls!BuzzBegins
    BY <1>1, <2>5 DEF Controls!BuzzBegins, RingersOf, ControlsTyped, Controls!StoppedIsSilent
  <2>6. ASSUME NEW k \in Ringers, Controls!RingEnds(k)
        PROVE  ringer' \in RingersOf /\ joining' \in Ringers \cup {"none"} /\ Controls!StoppedIsSilent'
    <3>1. /\ ringer' = [ringer EXCEPT ![k].thread = "none", ![k].device = "default"]
          /\ joining' = joining /\ joining \in Ringers \cup {"none"}
      BY <1>1, <2>6 DEF Controls!RingEnds, ControlsTyped
    <3>2. ringer \in RingersOf
      BY <1>1 DEF ControlsTyped
    <3>3. /\ ringer' \in RingersOf /\ ringer'[k].thread = "none"
          /\ \A j \in Ringers \ {k} : ringer'[j] = ringer[j]
      BY <3>1, <3>2 DEF RingersOf
    <3>4. Controls!StoppedIsSilent'
      BY <1>1, <3>1, <3>3 DEF Controls!StoppedIsSilent
    <3> QED
      BY <3>1, <3>3, <3>4
  <2> QED
    BY <2>1, <2>2, <2>3, <2>4, <2>5, <2>6 DEF Controls!Threads
<1>4. ControlsTyped'
  BY <1>1, <1>2, <1>3 DEF ControlsTyped
<1> QED
  BY <1>2, <1>3, <1>4 DEF ControlsInv, OpenOnServer, Controls!CallIsAudible

\* audioserver's restarts.
LEMMA ServerSteps ==
    ASSUME Controls!ConstantsOK, ControlsInv, Controls!ServerDies \/ Controls!ServerComes
    PROVE  ControlsInv'
<1>1. ControlsTyped /\ Controls!StoppedIsSilent /\ OpenOnServer
  BY DEF ControlsInv, ControlsTyped
<1>2. UNCHANGED <<host, applied, ports, ringer, joining>> /\ GoodServer(server')
  BY FreshIsGood DEF Controls!ServerDies, Controls!ServerComes
<1>3. /\ call' \in CallsOf /\ call'.track # "open"
      /\ call'.track = "opening" /\ server'.up => call'.raced
  <2>1. call \in CallsOf
    BY <1>1 DEF ControlsTyped
  <2>2. CASE Controls!ServerDies
    <3>1. /\ server' = [Controls!Fresh EXCEPT !.up = FALSE]
          /\ call' = [track |-> IF call.track = "open" THEN "none" ELSE call.track,
                      raced |-> call.track = "opening"]
      BY <2>2 DEF Controls!ServerDies
    <3>2. ~server'.up
      BY <3>1 DEF Controls!Fresh
    <3>3. (call.track = "opening") \in BOOLEAN
      OBVIOUS
    <3> QED
      BY <2>1, <3>1, <3>2, <3>3 DEF CallsOf
  <2>3. CASE Controls!ServerComes
    <3> DEFINE raced == call.track = "opening"
    <3>1. call' = [call EXCEPT !.raced = raced] /\ call.track # "open"
      BY <1>1, <2>3 DEF Controls!ServerComes, OpenOnServer
    <3>2. raced \in BOOLEAN
      OBVIOUS
    <3>3. call.track = "opening" => raced
      OBVIOUS
    <3> HIDE DEF raced
    <3>4. call' \in CallsOf /\ call'.track = call.track /\ call'.raced = raced
      BY <2>1, <3>1, <3>2 DEF CallsOf
    <3> QED
      BY <3>1, <3>3, <3>4
  <2> QED
    BY <2>2, <2>3
<1>4. ControlsTyped'
  BY <1>1, <1>2, <1>3 DEF ControlsTyped
<1>5. Controls!StoppedIsSilent'
  BY <1>1, <1>2 DEF Controls!StoppedIsSilent
<1> QED
  BY <1>3, <1>4, <1>5 DEF ControlsInv, OpenOnServer, Controls!CallIsAudible

LEMMA ControlsInductive == ASSUME Controls!ConstantsOK PROVE Controls!Spec => []ControlsInv
<1>1. ControlsInv /\ [Controls!Next]_Controls!vars => ControlsInv'
  <2> SUFFICES ASSUME ControlsInv, [Controls!Next]_Controls!vars PROVE ControlsInv'
    OBVIOUS
  <2>1. CASE UNCHANGED Controls!vars
    BY <2>1 DEF Controls!vars, ControlsInv, ControlsTyped, OpenOnServer,
       Controls!CallIsAudible, Controls!StoppedIsSilent
  <2>2. CASE joining = "none" /\ Controls!Loop
    BY <2>2, OrderSteps, CallSteps, RingSteps DEF Controls!Loop
  <2> QED
    BY <2>1, <2>2, RingSteps, ServerSteps DEF Controls!Next
<1> QED
  BY <1>1, ControlsInitially, PTL DEF Controls!Spec

-----------------------------------------------------------------------------
(* The layer.                                                              *)

\* Every part keeps its types: rings, buffers and queues hold no more than they
\* have room for, whoever runs against whom.
THEOREM PartsTyped == HostSpec => []PartsTypeOK
<1>1. DeskInv => Desk!TypeOK
  BY DEF DeskInv
<1>2. CaptureInv => Capture!TypeOK
  BY Constants, CaptureConsequences
<1>3. ControlsInv => Controls!TypeOK
  BY ControlsTypedIsTypeOK DEF ControlsInv
<1> QED
  BY <1>1, <1>2, <1>3, PartsImplemented, Constants, TypeCorrect, DeskInductive, AAudioTyped,
     CaptureInductive, ControlsInductive, PTL DEF PartsTypeOK

\* A stream opens on every device that takes its own mix format, and no failed
\* open, close or death of audioserver leaves a server's stream without a track.
THEOREM StreamsAreCleanlyOpened == HostSpec => []StreamsOpenCleanly
<1>1. DeskInv => Desk!MixFormatOpens
  BY DEF DeskInv
<1> QED
  BY <1>1, PartsImplemented, Constants, DeskInductive, AAudioNothingLeaks, PTL
     DEF StreamsOpenCleanly

\* For any ring, burst and event queue a stream is suspended only on a guest that
\* was silent for more bursts than the queue has places, and every frame a write
\* took is still in front of the mixer or was played, after underruns too.
THEOREM StreamsKeepRunning == HostSpec => StreamsSurvive
BY PartsImplemented, Constants, StallsSuspend, TakenAndHeard, PTL DEF StreamsSurvive

\* On a desktop the cursor stays in the first frame, position() never goes back
\* and, where the device runs no slower than the guest, no frame is passed over;
\* what a call, or a capture at the device's own rate, has not read is the newest
\* that was recorded, in order.  A resampled capture is left out.
THEOREM FramesAreInOrder == HostSpec => FramesStayInOrder
<1>1. DeskInv => Desk!CursorInFirstFrame /\ Desk!CaptureKeepsTheNewest
  BY DEF DeskInv, DeskOrder, OneForOne, Newest, Desk!CaptureKeepsTheNewest
<1>2. CaptureInv => Capture!CallKeepsTheNewest
  BY Constants, CaptureConsequences
<1>3. DeskInv /\ [Desk!Next]_(Desk!vars)
        => [stream.kind = "playback" => tally'.shown >= tally.shown]_(Desk!vars)
  BY Constants, DeskNeverBack
<1>4. DeskInv /\ [Desk!Next]_(Desk!vars)
        => [(stream.kind = "playback" /\ Desk!Num <= Desk!Den /\ deskGuest' = deskGuest
                 /\ stream' = stream)
              => \A i \in 1..(Len(deskRing) - Len(deskRing')) : deskRing[i] <= tally'.got]_(Desk!vars)
  BY Constants, DeskSkipsNothing
<1>5. Desk!Spec => [][Desk!Next]_(Desk!vars)
  BY DEF Desk!Spec
<1> QED
  BY <1>1, <1>2, <1>3, <1>4, <1>5, PartsImplemented, Constants, DeskInductive, CaptureInductive,
     PTL DEF FramesStayInOrder, Desk!PositionIsMonotone, Desk!NoFrameSkipped

\* An open call sounds on the device chosen last, through every restart of
\* audioserver, and a ringer whose stop has returned is silent.
THEOREM CallsSoundWhereChosen ==
    HostSpec => []Controls!CallIsAudible /\ []Controls!StoppedIsSilent
<1>1. ControlsInv => Controls!CallIsAudible /\ Controls!StoppedIsSilent
  BY DEF ControlsInv
<1> QED
  BY <1>1, PartsImplemented, Constants, ControlsInductive, PTL
=============================================================================
