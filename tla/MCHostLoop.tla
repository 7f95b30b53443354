----------------------------- MODULE MCHostLoop -----------------------------
(***************************************************************************)
(* HostLoop for TLC: every launch of a standalone host and one of each     *)
(* other kind; two connections, callbacks, touches and keys, a little of   *)
(* each; a window of three sizes, and deadlines of guests of both kinds.   *)
(*                                                                         *)
(* What is delivered and what the window does are checked in slices: a     *)
(* behaviour stays in the one it starts in.                                *)
(***************************************************************************)
EXTENDS HostLoop

VARIABLE slice

MCConns == {"c1", "c2"}
MCPlatforms == {"desktop", "android"}
Engine == [bg |-> TRUE, paced |-> TRUE]
MCGuests == {Engine, [bg |-> FALSE, paced |-> FALSE]}
MCSizes == 0..2
MCDelays == {0, 3}

Standalone == [kind : {"standalone"}, app : BOOLEAN, listens : BOOLEAN,
               mode : {"none", "bottom", "bottom-bar", "top", "lock"}]
Quiet(kind) == [kind |-> kind, app |-> TRUE, listens |-> FALSE, mode |-> "none"]
MCLaunches == Standalone \union {Quiet("once"), Quiet("desktop"), Quiet("install")}

Slices ==
    CASE part = "events" -> {"lines", "timers", "inputs", "mix"}
      [] part = "shell" -> {"sizes", "deadlines"}
      [] OTHER -> {"all"}

\* The parts that do not run start in one way.
MCInit ==
    /\ HostInit /\ slice \in Slices
    /\ part # "pacing" => role = "bg" /\ ~bgService
    /\ part # "shell" => shell.platform = "desktop"
    /\ part # "shell" \/ slice = "sizes" => shell.guest = Engine
    /\ part # "start" => launch = Quiet("install") /\ arbiter.up /\ arbiter.density

\* What a step of a slice may use: connections, lines, inputs and callbacks; the
\* sizes of the window, or what is scheduled.
Uses(conns, maxLines, maxInputs, maxCallbacks, maxDelay) ==
    /\ \A c \in MCConns \ conns : conn'[c].state = "new"
    /\ lines'.sent <= maxLines /\ made'.inputs <= maxInputs
    /\ timers'.next <= maxCallbacks + 1 /\ \A e \in timers'.heap : e.left <= maxDelay

InSlice ==
    /\ UNCHANGED slice
    /\ slice = "lines" => Uses(MCConns, MaxLines, 0, 0, 0)
    /\ slice = "timers" => Uses({}, 0, 0, MaxCallbacks, MaxDelay)
    /\ slice = "inputs" => Uses({"c1"}, 1, MaxInputs, 0, 0)
    /\ slice = "mix" => Uses({"c1"}, 1, 1, 1, 1)
    /\ slice = "sizes" => dueIn'.call = Shell!Never /\ dueIn'.video = Shell!Never
    /\ slice = "deadlines" => window' \in {1, Shell!None}

\* No fair action is without a step of every slice.
FairMCSpec == MCInit /\ [][HostNext /\ InSlice]_<<hostVars, slice>> /\ Fair
=============================================================================
