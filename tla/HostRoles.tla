----------------------------- MODULE HostRoles -----------------------------
(***************************************************************************)
(* Foreground, background and input focus among the wandr-host processes:  *)
(* app_role.rs (signals) and the role, lifecycle and focus part of         *)
(* run_cwasm_loop in standalone.rs, one instance per process.              *)
(*                                                                         *)
(* The arbiter (external) orders roles by signal.  A handler stores the    *)
(* role in an atomic; the render loop reads it once at the top of an       *)
(* iteration, applies a change to the surface and the guest, may render,   *)
(* and every FocusEvery iterations asks for the input focus again.         *)
(***************************************************************************)
EXTENDS Naturals, FiniteSets

CONSTANTS
    Hosts,       \* wandr-host processes
    NoHost,      \* nobody holds the input focus
    FocusEvery,  \* focus_refresh_interval, in iterations
    MaxOrders,   \* bound: role signals the arbiter sends in all
    Paced        \* TRUE: the arbiter signals a host only when no earlier
                 \* signal to it is still pending

\* What a module that takes these constants assumes of them.
ConstantsOK ==
    /\ NoHost \notin Hosts
    /\ FocusEvery \in Nat \ {0} /\ MaxOrders \in Nat
    /\ Paced \in BOOLEAN

VARIABLES
    wanted,   \* arbiter: the role it last ordered for each host
    orders,   \* arbiter: signals sent
    sigs,     \* kernel: role signals pending for each host
    role,     \* per host: the ROLE atomic
    host,     \* per host: where its render loop is, and its locals
    life,     \* per host: lifecycle current, pending, and last told the guest
    surface,  \* per host: layer and visibility set on SurfaceFlinger
    focus     \* InputFlinger: the host that asked for the focus last

vars == <<wanted, orders, sigs, role, host, life, surface, focus>>

-----------------------------------------------------------------------------
Roles  == {"Foreground", "Background", "OverlayBehind"}
States == {"none", "Resumed", "Paused", "Destroyed"}
PCs    == {"off", "top", "apply", "frame", "refresh", "focus", "gone"}

\* What a role means for the guest and for the surface.
LifeOf(r) == IF r = "Background" THEN "Paused" ELSE "Resumed"
SurfaceOf(r) == [layer   |-> IF r = "Foreground" THEN "fg" ELSE "0",
                 visible |-> r # "Background"]

Running(h) == host[h].pc \notin {"off", "gone"}

TypeOK ==
    /\ wanted \in [Hosts -> Roles]
    /\ orders \in 0..MaxOrders
    /\ sigs \in [Hosts -> SUBSET Roles]
    /\ role \in [Hosts -> Roles]
    /\ host \in [Hosts -> [pc : PCs, cur : Roles, last : Roles \union {"none"},
                           dirty : BOOLEAN, frame : 0..FocusEvery - 1]]
    /\ life \in [Hosts -> [current : States, pending : States, told : States]]
    /\ surface \in [Hosts -> [layer : {"fg", "0"}, visible : BOOLEAN]]
    /\ focus \in Hosts \union {NoHost}

Init ==
    /\ wanted = [h \in Hosts |-> "Background"]
    /\ orders = 0
    /\ sigs = [h \in Hosts |-> {}]
    /\ role = [h \in Hosts |-> "Foreground"]
    /\ host = [h \in Hosts |-> [pc |-> "off", cur |-> "Foreground", last |-> "none",
                                dirty |-> FALSE, frame |-> 0]]
    /\ life = [h \in Hosts |-> [current |-> "Resumed", pending |-> "Resumed",
                                told |-> "none"]]
    /\ surface = [h \in Hosts |-> [layer |-> "0", visible |-> TRUE]]
    /\ focus = NoHost

-----------------------------------------------------------------------------
(* The arbiter and the kernel.                                             *)

\* At most one app is meant to be in the foreground.
MayBeForeground(h) ==
    \A g \in Hosts \ {h} : ~(Running(g) /\ wanted[g] = "Foreground")

\* A launch: newly forked children default to the foreground.
Launch(h) ==
    /\ host[h].pc = "off" /\ MayBeForeground(h)
    /\ wanted' = [wanted EXCEPT ![h] = "Foreground"]
    /\ host' = [host EXCEPT ![h].pc = "top"]
    /\ UNCHANGED <<orders, sigs, role, life, surface, focus>>

\* A role signal.  The kernel keeps one pending instance of each.
Order(h, r) ==
    /\ Running(h) /\ orders < MaxOrders
    /\ Paced => sigs[h] = {}
    /\ r = "Foreground" => MayBeForeground(h)
    /\ wanted' = [wanted EXCEPT ![h] = r]
    /\ orders' = orders + 1
    /\ sigs' = [sigs EXCEPT ![h] = @ \union {r}]
    /\ UNCHANGED <<role, host, life, surface, focus>>

\* role_handler runs: signals that are pending together come in any order.
Deliver(h, r) ==
    /\ r \in sigs[h]
    /\ sigs' = [sigs EXCEPT ![h] = @ \ {r}]
    /\ role' = [role EXCEPT ![h] = r]
    /\ UNCHANGED <<wanted, orders, host, life, surface, focus>>

-----------------------------------------------------------------------------
(* The render loop.                                                        *)

\* Top of an iteration: the role is read once.
ReadRole(h) ==
    /\ host[h].pc = "top"
    /\ host' = [host EXCEPT ![h].pc = "apply", ![h].cur = role[h], ![h].dirty = FALSE]
    /\ UNCHANGED <<wanted, orders, sigs, role, life, surface, focus>>

\* A transition: surface, focus, and the guest's lifecycle if it changes.
ApplyRole(h) ==
    /\ host[h].pc = "apply"
    /\ LET cur == host[h].cur
           target == LifeOf(cur)
       IN  IF cur = host[h].last
           THEN /\ host' = [host EXCEPT ![h].pc = "frame"]
                /\ UNCHANGED <<life, surface, focus>>
           ELSE /\ host' = [host EXCEPT ![h].pc = "frame", ![h].last = cur,
                                        ![h].dirty = TRUE]
                /\ surface' = [surface EXCEPT ![h] = SurfaceOf(cur)]
                /\ focus' = IF cur = "Foreground" THEN h ELSE focus
                /\ life' = IF life[h].current = target THEN life
                           ELSE [life EXCEPT ![h].current = target, ![h].told = target]
    /\ UNCHANGED <<wanted, orders, sigs, role>>

\* No frame: hidden, or nothing dirty and the deadline not reached.
SkipFrame(h) ==
    /\ host[h].pc = "frame"
    /\ host[h].cur = "Background" \/ ~host[h].dirty
    /\ host' = [host EXCEPT ![h].pc = "refresh"]
    /\ UNCHANGED <<wanted, orders, sigs, role, life, surface, focus>>

\* Mutant: hidden surfaces render too.
MutantRenderHidden(h) ==
    /\ host[h].pc = "frame"
    /\ life' = IF life[h].pending = "none" THEN life
               ELSE [life EXCEPT ![h].told = life[h].pending, ![h].pending = "none"]
    /\ host' = [host EXCEPT ![h].pc = "refresh"]
    /\ UNCHANGED <<wanted, orders, sigs, role, surface, focus>>

\* A frame that succeeds fires the pending transition.
RenderFrame(h) ==
    /\ host[h].pc = "frame" /\ host[h].cur # "Background"
    /\ life' = IF life[h].pending = "none" THEN life
               ELSE [life EXCEPT ![h].told = life[h].pending, ![h].pending = "none"]
    /\ host' = [host EXCEPT ![h].pc = "refresh"]
    /\ UNCHANGED <<wanted, orders, sigs, role, surface, focus>>

\* A frame that fails is logged; a poisoned instance ends the process.
FailFrame(h, poisoned) ==
    /\ host[h].pc = "frame" /\ host[h].cur # "Background"
    /\ host' = [host EXCEPT ![h].pc = IF poisoned THEN "gone" ELSE "refresh"]
    /\ focus' = IF poisoned /\ focus = h THEN NoHost ELSE focus
    /\ UNCHANGED <<wanted, orders, sigs, role, life, surface>>

\* End of an iteration: the count, and is_foreground() of the atomic itself.
RefreshFocus(h) ==
    /\ host[h].pc = "refresh"
    /\ LET frame == (host[h].frame + 1) % FocusEvery
           ask == frame = 0 /\ role[h] = "Foreground"
       IN  host' = [host EXCEPT ![h].frame = frame,
                                ![h].pc = IF ask THEN "focus" ELSE "top"]
    /\ UNCHANGED <<wanted, orders, sigs, role, life, surface, focus>>

RequestFocus(h) ==
    /\ host[h].pc = "focus"
    /\ focus' = h
    /\ host' = [host EXCEPT ![h].pc = "top"]
    /\ UNCHANGED <<wanted, orders, sigs, role, life, surface>>

\* The shutdown flag is seen: Destroyed, drain frames, exit.
Shutdown(h) ==
    /\ host[h].pc = "top"
    /\ host' = [host EXCEPT ![h].pc = "gone"]
    /\ life' = [life EXCEPT ![h].current = "Destroyed", ![h].told = "Destroyed"]
    /\ focus' = IF focus = h THEN NoHost ELSE focus
    /\ UNCHANGED <<wanted, orders, sigs, role, surface>>

-----------------------------------------------------------------------------
Iterate(h) ==
    \/ ReadRole(h)
    \/ ApplyRole(h)
    \/ SkipFrame(h)
    \/ RenderFrame(h)
    \/ \E poisoned \in BOOLEAN : FailFrame(h, poisoned)
    \/ RefreshFocus(h)
    \/ RequestFocus(h)

Next ==
    \/ \E h \in Hosts : Launch(h) \/ Iterate(h) \/ Shutdown(h)
    \/ \E h \in Hosts, r \in Roles : Order(h, r) \/ Deliver(h, r)

Spec == Init /\ [][Next]_vars

\* Every loop keeps iterating (naps are bounded), a pending signal is
\* delivered.  The arbiter, launches and shutdowns owe nothing.
Fairness ==
    /\ \A h \in Hosts : WF_vars(Iterate(h))
    /\ \A h \in Hosts, r \in Roles : WF_vars(Deliver(h, r))
FairSpec == Spec /\ Fairness

-----------------------------------------------------------------------------
(* Safety.                                                                 *)

\* What the guest was told last is its host's current state, or nothing yet:
\* the Resumed queued at cold start is never delivered over a later Paused.
GuestIsNotMisled ==
    \A h \in Hosts :
        \/ life[h].told = life[h].current
        \/ life[h].told = "none" /\ life[h].pending = "Resumed"
             /\ life[h].current = "Resumed"

\* A guest is Paused exactly while its surface is hidden, and only the role
\* read last puts it on the foreground layer, also between two iterations.
PausedIffHidden ==
    \A h \in Hosts : Running(h) /\ host[h].last # "none" =>
        /\ surface[h].visible <=> life[h].current = "Resumed"
        /\ surface[h].layer = "fg" => life[h].current = "Resumed"

-----------------------------------------------------------------------------
(* Liveness.                                                               *)

\* Once the arbiter has stopped, every host still running has the role it
\* was last ordered, and its surface and its guest follow.
RolesSettle ==
    \A h \in Hosts :
        <>[](Running(h) => /\ role[h] = wanted[h]
                           /\ life[h].current = LifeOf(wanted[h])
                           /\ surface[h] = SurfaceOf(wanted[h]))

\* The app the arbiter left in the foreground ends up with the input focus
\* and keeps it, whatever late requests of demoted apps come in between.
FocusSettles ==
    \A h \in Hosts :
        <>[](Running(h) /\ wanted[h] = "Foreground" => focus = h)

=============================================================================
