----------------------------- MODULE HostStart -----------------------------
(***************************************************************************)
(* How a host process comes up (standalone.rs, run_once.rs, lib.rs): the   *)
(* surface and what the arbiter answers on the way to it, the load, the    *)
(* control socket, the subscriptions, and how the launch ends.  What the   *)
(* loop does afterwards is in the modules of the loop; here it only hears  *)
(* the lines that come in.                                                 *)
(*                                                                         *)
(* The arbiter is modelled as far as the host depends on it: it answers    *)
(* while it is up, and sends the value of a topic to those subscribed, at  *)
(* once and at every change; a line to a socket nobody bound is lost.      *)
(***************************************************************************)
EXTENDS Naturals, Sequences

CONSTANTS
    Launches,      \* what the process is asked to do: its kind, mode, app
    MaxAttempts,   \* register_chrome_with_arbiter's 10
    MaxValue,      \* bound: changes of the topic
    MaxBoots       \* bound: restarts of the arbiter

ConstantsOK ==
    /\ Launches \subseteq
         [kind : {"standalone", "once", "desktop", "install"}, app : BOOLEAN, listens : BOOLEAN,
          mode : {"none", "bottom", "bottom-bar", "top", "lock"}]
    /\ MaxAttempts \in Nat \ {0} /\ MaxValue \in Nat /\ MaxBoots \in Nat

VARIABLES
    launch,    \* fixed from the start
    pc,        \* where run_with_engine is
    tries,     \* attempts at registering
    surface,   \* the shim's: none, a strip of a height, or the full panel
    insets,    \* the renderer reserves the chrome's strips
    sock,      \* the control socket is bound
    inbox,     \* values that came in over it, oldest first
    heard,     \* the last the guest was given; 0: none
    arbiter    \* up, boot, value, what it knows of the host

hostStart == <<launch, pc, tries, surface, insets, sock, inbox, heard>>
vars == <<hostStart, arbiter>>
-----------------------------------------------------------------------------
Strips == {"bottom", "bottom-bar", "top"}
Ended == {"ok", "failed", "killed"}

Init ==
    /\ launch \in Launches
    /\ pc = "start" /\ tries = 0 /\ surface = "none" /\ insets = FALSE
    /\ sock = FALSE /\ inbox = <<>> /\ heard = 0
    /\ arbiter \in [up : BOOLEAN, boot : {0}, value : {1}, density : BOOLEAN,
                    chrome : {FALSE}, subscribed : {FALSE}]
-----------------------------------------------------------------------------
(* The arbiter.                                                            *)

\* A line to the host; the accept thread queues it for the loop.
Deliver(value) == inbox' = IF sock THEN Append(inbox, value) ELSE inbox

Change ==
    /\ arbiter.up /\ arbiter.value < MaxValue
    /\ arbiter' = [arbiter EXCEPT !.value = @ + 1]
    /\ IF arbiter.subscribed THEN Deliver(arbiter.value + 1) ELSE UNCHANGED inbox
    /\ UNCHANGED <<launch, pc, tries, surface, insets, sock, heard>>

ArbiterDies ==
    /\ arbiter.up /\ arbiter.boot < MaxBoots
    /\ arbiter' = [arbiter EXCEPT !.up = FALSE, !.chrome = FALSE, !.subscribed = FALSE, !.density = FALSE]
    /\ UNCHANGED hostStart

ArbiterComes ==
    /\ ~arbiter.up
    /\ arbiter' = [arbiter EXCEPT !.up = TRUE, !.boot = @ + 1]
    /\ UNCHANGED hostStart
-----------------------------------------------------------------------------
(* The host.                                                               *)

Goto(label) == pc' = label /\ UNCHANGED launch

\* Mutant: subscribed before the socket is bound.
MutantStages == <<"renderer", "panel", "load", "instantiate", "subscribe", "bind", "loop">>

Stages == <<"renderer", "panel", "load", "instantiate", "bind", "subscribe", "loop">>

Proceed == Goto(Stages[1 + CHOOSE i \in DOMAIN Stages : Stages[i] = pc])

\* The keyguard registers once its surface is up.
AfterSurface == IF launch.mode = "lock" /\ launch.app THEN "lock" ELSE "renderer"

\* The chrome strips register first, and are as high as the arbiter answers.
Start ==
    /\ pc = "start" /\ launch.kind = "standalone"
    /\ Goto(IF launch.mode \in {"top", "bottom-bar"} /\ launch.app THEN "register" ELSE "surface")
    /\ surface' = IF launch.mode = "bottom" THEN "initial" ELSE "guessed"
    /\ UNCHANGED <<tries, insets, sock, inbox, heard, arbiter>>

\* Mutant: attempts are not counted.
MutantTry == 0

Try == tries + 1

\* register_chrome_with_arbiter: an answer, of a height if it knows the density,
\* or one attempt more, up to the last.
RegisterChrome ==
    /\ pc \in {"register", "lock"}
    /\ IF arbiter.up
       THEN /\ Goto(IF pc = "lock" THEN "renderer" ELSE "surface")
            /\ arbiter' = [arbiter EXCEPT !.chrome = TRUE]
            /\ surface' = IF pc = "register" /\ arbiter.density THEN "authored" ELSE surface
            /\ UNCHANGED tries
       ELSE /\ tries' = Try
            /\ Goto(IF Try < MaxAttempts THEN pc
                    ELSE IF pc = "lock" THEN "renderer" ELSE "surface")
            /\ UNCHANGED <<surface, arbiter>>
    /\ UNCHANGED <<insets, sock, inbox, heard>>

\* SfSurface::create_overlay, and create if that fails or none is asked for.
CreateSurface(overlay, full) ==
    /\ pc = "surface"
    /\ IF launch.mode \in Strips /\ overlay
       THEN Goto(AfterSurface) /\ UNCHANGED surface
       ELSE IF full THEN Goto(AfterSurface) /\ surface' = "full"
       ELSE Goto("failed") /\ surface' = "none"
    /\ UNCHANGED <<tries, insets, sock, inbox, heard, arbiter>>

\* SkiaRenderer::from_native_window.
Renderer(ok) ==
    /\ pc = "renderer"
    /\ IF ok THEN Proceed ELSE Goto("failed")
    /\ UNCHANGED <<tries, surface, insets, sock, inbox, heard, arbiter>>

Reserved == arbiter.up

(* report_panel_to_arbiter, of a full-screen app: one attempt, whose answer   *)
(* is the insets; the density it reports stays with the arbiter.              *)
ReportPanel ==
    /\ pc = "panel" /\ Proceed
    /\ IF launch.mode = "none"
       THEN /\ insets' = Reserved
            /\ arbiter' = [arbiter EXCEPT !.density = @ \/ arbiter.up]
       ELSE UNCHANGED <<insets, arbiter>>
    /\ UNCHANGED <<tries, surface, sock, inbox, heard>>

\* The loader: an app that was launched gives the panel back; without one, the
\* test frame is drawn.
Load(ok) ==
    /\ pc = "load"
    /\ IF ok THEN Proceed
       ELSE Goto(IF launch.kind = "desktop" \/ (launch.kind = "standalone" /\ ~launch.app)
                 THEN "test" ELSE "failed")
    /\ UNCHANGED <<tries, surface, insets, sock, inbox, heard, arbiter>>

\* run_cwasm_loop's start: the component, its power class, its size.  A window
\* of the desktop has no socket, and a command no loop.
Instantiate(ok) ==
    /\ pc = "instantiate"
    /\ IF ~ok THEN Goto("failed")
       ELSE \/ launch.kind = "standalone" /\ Proceed
            \/ launch.kind = "desktop" /\ Goto("loop")
            \/ launch.kind = "once" /\ Goto("run")
    /\ UNCHANGED <<tries, surface, insets, sock, inbox, heard, arbiter>>

\* spawn_listener; without it the host runs deaf.
Bind(ok) ==
    /\ pc = "bind" /\ Proceed /\ sock' = ok
    /\ UNCHANGED <<tries, surface, insets, inbox, heard, arbiter>>

\* evt-subscribe of a guest that exports the handler: the retained value follows.
Subscribe ==
    /\ pc = "subscribe" /\ Proceed
    /\ IF launch.listens /\ arbiter.up
       THEN arbiter' = [arbiter EXCEPT !.subscribed = TRUE] /\ Deliver(arbiter.value)
       ELSE UNCHANGED <<arbiter, inbox>>
    /\ UNCHANGED <<tries, surface, insets, sock, heard>>

\* The loop hands the guest what came in.
Hear ==
    /\ pc = "loop" /\ inbox # <<>>
    /\ heard' = Head(inbox) /\ inbox' = Tail(inbox)
    /\ UNCHANGED <<launch, pc, tries, surface, insets, sock, arbiter>>

\* run_once: a surface, the load, and one call, whose answer is the exit code.
StartOnce(ok) ==
    /\ pc = "start" /\ launch.kind = "once"
    /\ IF ok THEN Goto("load") /\ surface' = "full" ELSE Goto("failed") /\ UNCHANGED surface
    /\ UNCHANGED <<tries, insets, sock, inbox, heard, arbiter>>

RunOnce(answer) ==
    /\ pc = "run" /\ Goto(IF answer = "ok" THEN "ok" ELSE "failed")
    /\ UNCHANGED <<tries, surface, insets, sock, inbox, heard, arbiter>>

\* lib.rs, run: loaded before there is a window.
StartDesktop ==
    /\ pc = "start" /\ launch.kind = "desktop" /\ Goto("load")
    /\ UNCHANGED <<tries, surface, insets, sock, inbox, heard, arbiter>>

\* find_bundle_root: the directory with the manifest, or the one below it.
BundleRoot(root, wrappers) == root \/ wrappers = 1

\* install_wandrpkg: a directory, or an archive once it is unpacked.
Install(source) ==
    /\ pc = "start" /\ launch.kind = "install"
    /\ Goto(IF source.unpacks /\ BundleRoot(source.root, source.wrappers) /\ source.installs
            THEN "ok" ELSE "failed")
    /\ UNCHANGED <<tries, surface, insets, sock, inbox, heard, arbiter>>

\* The loops end when they are told to, which removes the crash marker too; a
\* process can be killed anywhere.
Shutdown ==
    /\ pc \in {"loop", "test"} /\ Goto("ok") /\ sock' = FALSE
    /\ UNCHANGED <<tries, surface, insets, inbox, heard, arbiter>>

Killed ==
    /\ pc \notin Ended /\ Goto("killed") /\ sock' = FALSE
    /\ UNCHANGED <<tries, surface, insets, inbox, heard, arbiter>>
-----------------------------------------------------------------------------
Starting ==
    \/ Start \/ RegisterChrome \/ ReportPanel \/ Subscribe \/ StartDesktop
    \/ \E overlay, full \in BOOLEAN : CreateSurface(overlay, full)
    \/ \E ok \in BOOLEAN : Renderer(ok) \/ Load(ok) \/ Instantiate(ok) \/ Bind(ok) \/ StartOnce(ok)
    \/ \E answer \in {"ok", "error", "trap"} : RunOnce(answer)
    \/ \E source \in [unpacks : BOOLEAN, root : BOOLEAN, wrappers : 0..2, installs : BOOLEAN] :
         Install(source)

Next == Starting \/ Hear \/ Shutdown \/ Killed \/ Change \/ ArbiterDies \/ ArbiterComes

Spec == Init /\ [][Next]_vars

\* The process is scheduled until it has started; nobody has to end it.
FairSpec == Spec /\ WF_vars(Starting)
-----------------------------------------------------------------------------
\* A host that has subscribed to a topic, with its socket bound, has been told
\* the topic's value, or will read it last of what came in: the retained value is
\* not lost to a socket nobody listens on (standalone.rs, "subscribe NOW that the
\* control socket is bound").
RetainedIsHeard ==
    arbiter.subscribed /\ sock /\ pc = "loop" =>
        (IF inbox = <<>> THEN heard ELSE inbox[Len(inbox)]) = arbiter.value

\* Under an arbiter that was there all along, a host enters its loop in step with
\* it: a full-screen app inside the insets, the chrome registered, a listener
\* subscribed.
InStep ==
    launch.kind = "standalone" /\ pc = "loop" /\ arbiter.boot = 0 /\ arbiter.up =>
        /\ launch.mode = "none" => insets
        /\ launch.app /\ launch.mode \in {"top", "bottom-bar", "lock"} => arbiter.chrome
        /\ launch.listens => arbiter.subscribed

StartsInStep == RetainedIsHeard /\ InStep

\* A launch comes to its loop or to its end, whether or not the arbiter, the
\* surfaces and the loader are there for it.
StartsOrEnds == <>(pc \in {"loop", "test"} \union Ended)
=============================================================================
