--------------------------- MODULE AudioControls ----------------------------
(***************************************************************************)
(* Routes, volumes, mutes and the ringer of one host: the appliers of      *)
(* audio_impl.rs, audio_policy_impl.rs, audio_routing.rs, ringer_impl.rs   *)
(* and the guest's controls of audio_focus_host_impl.rs, beside an         *)
(* audioserver that may restart and forgets what it was told.              *)
(*                                                                         *)
(* The guest and the arbiter's orders are served by one thread, the loop,  *)
(* so an operation is one step.  The ringtone and the vibration are        *)
(* threads of their own; opening a call's track is two steps, since        *)
(* audioserver may restart between the look at its volumes and the open.   *)
(***************************************************************************)
EXTENDS Integers

CONSTANTS
    MaxIndex,  \* the range of volume indices (MUSIC)
    Ringers    \* "tone", "buzz"

ConstantsOK == MaxIndex \in Nat \ {0} /\ Ringers \subseteq {"tone", "buzz"}

VARIABLES
    server,  \* audioserver: up, volume range set, strategy route, volumes, mutes
    host,    \* COMMS_SPEAKER, ROUTE, and the gate for muted samples
    applied, \* history: the route last applied by anybody
    ports,   \* DeviceModel: "unbuilt", "known", or "empty" for good
    call,    \* the call's track, and whether a restart fell into its opening
    ringer,  \* per kind: flag, slot taken, thread, and the ringtone's device
    joining  \* the kind whose thread the loop waits for, or "none"

vars == <<server, host, applied, ports, call, ringer, joining>>
-----------------------------------------------------------------------------
Devices == {"earpiece", "speaker"}
RouteCodes == {"earpiece", "speaker", "bluetooth"}
Device(speaker) == IF speaker THEN "speaker" ELSE "earpiece"
Clamp(i, lo, hi) == IF i < lo THEN lo ELSE IF i > hi THEN hi ELSE i

\* Unset: the index range of an audioserver nobody initialised, min = max = -1.
Unset == -1
Fresh == [up |-> TRUE, ranged |-> FALSE, strategy |-> "default",
          volume |-> [d \in Devices |-> Unset], muted |-> [d \in Devices |-> FALSE]]
Low  == IF server.ranged THEN 0 ELSE Unset
High == IF server.ranged THEN MaxIndex ELSE Unset
Quiet == [flag |-> FALSE, slot |-> FALSE, thread |-> "none", device |-> "default"]

Init ==
    /\ server = Fresh
    /\ host = [comms |-> FALSE, route |-> "earpiece", muted |-> FALSE]
    /\ applied = "none" /\ ports = "unbuilt"
    /\ call = [track |-> "none", raced |-> FALSE]
    /\ ringer = [k \in Ringers |-> Quiet] /\ joining = "none"
-----------------------------------------------------------------------------
(* set_media_strategy_route and clear_media_strategy_route on the server s.   *)
Routed(s, speaker) == IF s.up THEN [s EXCEPT !.strategy = Device(speaker)] ELSE s
Unrouted(s) == IF s.up THEN [s EXCEPT !.strategy = "default"] ELSE s

(* init_audio_policy: every index range, full scale for MUSIC.                *)
Initialised(s) ==
    IF s.up THEN [s EXCEPT !.ranged = TRUE, !.volume = [d \in Devices |-> MaxIndex]] ELSE s

(* set_media_volume: clamped to the range; the setter also ends a mute.       *)
SetIndex(device, index) ==
    server' = IF server.up
              THEN [server EXCEPT !.volume[device] = Clamp(index, Low, High),
                                  !.muted[device] = FALSE]
              ELSE server

(* DeviceModel::get: built once from the ports enumerated then.               *)
Model == IF ports # "unbuilt" THEN ports ELSE IF server.up THEN "known" ELSE "empty"
-----------------------------------------------------------------------------

(* CommRoute: set_comms_route of the arbiter's decision.                      *)
ApplyRoute(speaker) ==
    /\ host' = [host EXCEPT !.comms = speaker]
    /\ server' = Routed(server, speaker)
    /\ applied' = Device(speaker)
    /\ UNCHANGED <<ports, call, ringer, joining>>

(* controls.set-route of the guest: the same, and the cached route.           *)
SetRoute(route) ==
    /\ host' = [host EXCEPT !.comms = route = "speaker", !.route = route]
    /\ server' = Routed(server, route = "speaker")
    /\ applied' = Device(route = "speaker")
    /\ UNCHANGED <<ports, call, ringer, joining>>

(* CommMode: volumes re-asserted when a session starts; the route override    *)
(* dropped when it ends.                                                      *)
CommMode(comm) ==
    /\ host' = IF comm THEN host ELSE [host EXCEPT !.comms = FALSE]
    /\ server' = IF ~comm THEN Unrouted(server)
                 ELSE IF server.up /\ server.ranged
                 THEN [server EXCEPT !.volume = [d \in Devices |-> MaxIndex]]
                 ELSE server
    /\ applied' = IF comm THEN applied ELSE "none"
    /\ UNCHANGED <<ports, call, ringer, joining>>

(* adjust_volume_on: a step of a tenth of the range, at least one.            *)
AdjustVolume(speaker, up) ==
    LET step == Clamp((High - Low) \div 10, 1, MaxIndex)
        d == Device(speaker) IN
    /\ SetIndex(d, server.volume[d] + (IF up THEN step ELSE -step))
    /\ UNCHANGED <<host, applied, ports, call, ringer, joining>>

(* controls.set-volume: a level of the device that ROUTE names, in tenths.    *)
SetVolume(tenths) ==
    /\ SetIndex(Device(host.route = "speaker"), Low + ((High - Low) * tenths + 5) \div 10)
    /\ UNCHANGED <<host, applied, ports, call, ringer, joining>>

(* set_media_mute: the index read is written back with the mute.              *)
SetMute(speaker, muted) ==
    /\ server' = IF server.up THEN [server EXCEPT !.muted[Device(speaker)] = muted] ELSE server
    /\ UNCHANGED <<host, applied, ports, call, ringer, joining>>

(* AppMute, or the guest's set-mute: samples pass the gate as silence.  The   *)
(* microphone has a gate of its own that works the same.                      *)
SetGate(muted) ==
    /\ host' = [host EXCEPT !.muted = muted]
    /\ UNCHANGED <<server, applied, ports, call, ringer, joining>>
-----------------------------------------------------------------------------
(* create_track of a call: ensure_initialized ...                             *)
Ensure ==
    /\ call.track = "none"
    /\ call' = [track |-> "opening", raced |-> FALSE]
    /\ server' = IF server.ranged THEN server ELSE Initialised(server)
    /\ UNCHANGED <<host, applied, ports, ringer, joining>>

(* ... then the stream, and on success the strategy's route.                  *)
OpenCall ==
    /\ call.track = "opening"
    /\ \/ /\ server.up
          /\ call' = [call EXCEPT !.track = "open"]
          /\ server' = Routed(server, host.comms)
          /\ applied' = Device(host.comms)
       \/ /\ call' = [call EXCEPT !.track = "none"]
          /\ UNCHANGED <<server, applied>>
    /\ ports' = Model
    /\ UNCHANGED <<host, ringer, joining>>

CloseCall ==
    /\ call.track = "open"
    /\ call' = [call EXCEPT !.track = "none"]
    /\ UNCHANGED <<server, host, applied, ports, ringer, joining>>
-----------------------------------------------------------------------------
(* ringtone_start, vibrate_start: nothing while the slot is taken.            *)
RingStart(kind) ==
    /\ ~ringer[kind].slot
    /\ ringer' = [ringer EXCEPT ![kind] =
           [flag |-> TRUE, slot |-> TRUE, thread |-> "starting", device |-> "default"]]
    /\ UNCHANGED <<server, host, applied, ports, call, joining>>

(* ringtone_stop, vibrate_stop: clear the flag, take the slot, and if it was  *)
(* taken wait for the thread: the loop does nothing else until it is gone.    *)
RingStop(kind) ==
    /\ joining' = IF ringer[kind].slot THEN kind ELSE "none"
    /\ ringer' = [ringer EXCEPT ![kind].flag = FALSE, ![kind].slot = FALSE]
    /\ UNCHANGED <<server, host, applied, ports, call>>

Joined ==
    /\ joining # "none" /\ ringer[joining].thread = "none"
    /\ joining' = "none"
    /\ UNCHANGED <<server, host, applied, ports, call, ringer>>

\* Mutant: the thread itself raises the flag when it begins to ring.
MutantToneOpens ==
    /\ "tone" \in Ringers /\ ringer["tone"].thread = "starting"
    /\ ports' = Model
    /\ ringer' = [ringer EXCEPT !["tone"].thread = "ringing", !["tone"].flag = TRUE]
    /\ UNCHANGED <<server, host, applied, call, joining>>

(* ring_loop opens its track, pinned to the loud speaker when the model knows *)
(* the port, and clears the flag and ends when it gets none.                  *)
ToneOpens ==
    /\ "tone" \in Ringers /\ ringer["tone"].thread = "starting"
    /\ ports' = Model
    /\ \/ /\ server.up
          /\ ringer' = [ringer EXCEPT !["tone"].thread = "ringing",
                          !["tone"].device = IF Model = "known" THEN "speaker" ELSE "default"]
       \/ ringer' = [ringer EXCEPT !["tone"].thread = "none", !["tone"].flag = FALSE]
    /\ UNCHANGED <<server, host, applied, call, joining>>

BuzzBegins ==
    /\ "buzz" \in Ringers /\ ringer["buzz"].thread = "starting"
    /\ ringer' = [ringer EXCEPT !["buzz"].thread = "ringing"]
    /\ UNCHANGED <<server, host, applied, ports, call, joining>>

(* A round of either thread sees the flag cleared: the tone closes its track.  *)
RingEnds(kind) ==
    /\ ringer[kind].thread = "ringing" /\ ~ringer[kind].flag
    /\ ringer' = [ringer EXCEPT ![kind].thread = "none", ![kind].device = "default"]
    /\ UNCHANGED <<server, host, applied, ports, call, joining>>
-----------------------------------------------------------------------------
(* audioserver dies, taking tracks with it, and is started again: volume       *)
(* ranges, roles and mutes are gone.                                           *)
ServerDies ==
    /\ server.up /\ server' = [Fresh EXCEPT !.up = FALSE]
    /\ call' = [track |-> IF call.track = "open" THEN "none" ELSE call.track,
                raced |-> call.track = "opening"]
    /\ UNCHANGED <<host, applied, ports, ringer, joining>>

ServerComes ==
    /\ ~server.up /\ server' = Fresh
    /\ call' = [call EXCEPT !.raced = call.track = "opening"]
    /\ UNCHANGED <<host, applied, ports, ringer, joining>>

(* What the loop's thread does, for the arbiter or for the guest.             *)
Loop ==
    \/ \E b \in BOOLEAN : ApplyRoute(b) \/ CommMode(b) \/ SetGate(b)
    \/ \E r \in RouteCodes : SetRoute(r)
    \/ \E s, b \in BOOLEAN : AdjustVolume(s, b) \/ SetMute(s, b)
    \/ \E t \in {0, 4, 10} : SetVolume(t)
    \/ Ensure \/ OpenCall \/ CloseCall
    \/ \E k \in Ringers : RingStart(k) \/ RingStop(k)

Threads == ToneOpens \/ BuzzBegins \/ \E k \in Ringers : RingEnds(k)

Next ==
    \/ joining = "none" /\ Loop
    \/ Joined
    \/ Threads
    \/ ServerDies \/ ServerComes

Spec == Init /\ [][Next]_vars

\* The scheduler runs the threads, and the loop when its join returns.
FairSpec == Spec /\ WF_vars(Joined) /\ WF_vars(ToneOpens) /\ WF_vars(BuzzBegins)
                 /\ \A k \in Ringers : WF_vars(RingEnds(k))
-----------------------------------------------------------------------------
(* Types; a volume is inside the range the server was given.                  *)
TypeOK ==
    /\ server \in [up : BOOLEAN, ranged : BOOLEAN, strategy : Devices \cup {"default"},
                   volume : [Devices -> Unset..MaxIndex], muted : [Devices -> BOOLEAN]]
    /\ \A d \in Devices : server.volume[d] \in Low..High
    /\ host \in [comms : BOOLEAN, route : RouteCodes, muted : BOOLEAN]
    /\ applied \in Devices \cup {"none"}
    /\ ports \in {"unbuilt", "known", "empty"}
    /\ call \in [track : {"none", "opening", "open"}, raced : BOOLEAN]
    /\ ringer \in [Ringers -> [flag : BOOLEAN, slot : BOOLEAN, device : {"default", "speaker"},
                               thread : {"none", "starting", "ringing"}]]
    /\ joining \in Ringers \cup {"none"}

(* An open call can be heard where the last order wants it: on the device the *)
(* arbiter or the guest chose last, also when audioserver was restarted since *)
(* that choice, and with volumes set unless the restart fell into the open.   *)
CallIsAudible ==
    call.track = "open" =>
        /\ applied # "none" => server.strategy = applied
        /\ server.ranged \/ call.raced

(* A stop that has returned is silent: no thread of a kind outlives its slot, *)
(* so a second ring can never overlap the first.                              *)
StoppedIsSilent ==
    \A k \in Ringers : ~ringer[k].slot /\ joining # k => ringer[k].thread = "none"

(* The loop gets back from every stop, whatever audioserver does meanwhile.   *)
StopReturns == joining # "none" ~> joining = "none"

(* The route reported to the guest is the route last applied.                 *)
ReportedRouteIsApplied ==
    applied # "none" => (host.route = "speaker" <=> applied = "speaker")
=============================================================================
