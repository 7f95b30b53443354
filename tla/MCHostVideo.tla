----------------------------- MODULE MCHostVideo -----------------------------
(***************************************************************************)
(* HostVideo for TLC.  Three frames, the last two stored out of order, are *)
(* played once on three machines - one with a hardware decoder, one that   *)
(* insists on it, one without - and with a seek or a second opening on a   *)
(* fourth.  On a panel of 2 x 3, surfaces and a self-view of two           *)
(* rectangles turn twice; decoders come and go on surfaces that are moved, *)
(* two slots for all of them; and a codec of one input and two output      *)
(* buffers draws into a surface that turns once.                           *)
(***************************************************************************)
EXTENDS HostVideo

VARIABLE slice

MCStream == <<0, 2, 1>>
World(noHardware, requireHardware, pin, backends) ==
    [policy |-> [noHardware |-> noHardware, requireHardware |-> requireHardware, pin |-> pin],
     usable |-> backends]
Fourth == World(FALSE, FALSE, "any", {"gstreamer-hw", "libvpx"})
Resting == World(TRUE, FALSE, "any", {"libvpx"})
MCWorlds == {World(FALSE, FALSE, "any", {"gstreamer-hw", "gstreamer-sw"}),
             World(FALSE, TRUE, "gstreamer", {"gstreamer-hw", "gstreamer-sw"}), Fourth, Resting}

R(x, y, w, h) == [x |-> x, y |-> y, w |-> w, h |-> h]
Whole == R(0, 0, 2, 2)
MCPanel == <<2, 3>>
MCRects == {R(0, 0, 1, 2), R(1, 1, 2, 1), Whole}
MCTurns == {0, 90, 180, 270}
MCSensors == {[orientation |-> 270, front |-> TRUE], [orientation |-> 90, front |-> FALSE]}

Slices ==
    CASE part = "play" -> {"once", "again"}
      [] part = "call" -> {"call"}
      [] part = "phone" -> {"places", "shared", "pictures", "buffers"}

\* The parts that do not run start in one way.
MCInit ==
    /\ HostInit /\ slice \in Slices
    /\ LET world == [policy |-> policy, usable |-> usable]
       IN  CASE slice = "once" -> world # Fourth
             [] slice = "again" -> world = Fourth
             [] OTHER -> world = Resting

\* The rectangles of the surfaces and of the self-view.
Asked == {registry'[id].rect : id \in DOMAIN registry'} \union {enc'.rect}

Upright(id) == registry'[id].rect = Whole /\ registry'[id].cvo = 0

\* What a step of a slice may use.
InSlice ==
    /\ UNCHANGED slice
    /\ slice = "once" => player'.gen = 0
    /\ slice = "places" => ~dec'.open /\ Whole \notin Asked
    /\ slice = "shared" =>
           /\ UNCHANGED pool /\ facing'.gen <= 1 /\ facing'.deg \in {0, 90}
           /\ Whole \notin Asked /\ \A id \in DOMAIN registry' : registry'[id].cvo = 0
           /\ enc'.slot # 0 => enc'.sensor.front
    /\ slice = "pictures" =>
           /\ ~enc'.open /\ facing'.gen <= 1 /\ facing'.deg \in {0, 90}
           /\ Cardinality(handles') <= 1 /\ \A id \in DOMAIN registry' : Upright(id)
           /\ Cardinality(frames') <= 1
    /\ slice = "buffers" =>
           /\ ~enc'.open /\ facing'.gen = 0 /\ handles' = {} /\ Cardinality(frames') <= 4

MCSpec == MCInit /\ [][HostNext /\ InSlice]_<<hostVars, slice>>

\* No fair action is without a step of every slice.
FairMCSpec == MCSpec /\ Fair
=============================================================================
