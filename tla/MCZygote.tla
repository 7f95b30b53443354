------------------------------ MODULE MCZygote ------------------------------
(***************************************************************************)
(* HostZygote for TLC.  Two pids, so that one can be recycled while the    *)
(* other lives on, and one arbiter; two builds, versions, engines and      *)
(* children; the manifests of some apps.                                   *)
(***************************************************************************)
EXTENDS HostZygote, Sequences

CONSTANTS p1, p2, s1, b1, b2, l1, l2

MCPids == {p1, p2}
MCSubscribers == {s1}
MCBuilds == {b1, b2}
MCTwo == 1..2
MCLoaders == {l1, l2}

\* Preloads without crashes, or one crash without preloads.
Preloads == [preloads |-> TRUE, crashes |-> 0]
OneCrash == [preloads |-> FALSE, crashes |-> 1]
MCStoreSettings == {Preloads, OneCrash}

\* What an app wants: dependencies, of the host, of the system or of an app.
Want(kind, range, iface) == [kind |-> kind, range |-> range, iface |-> iface]
Plain(deps) == [deps |-> deps, mounts |-> <<>>, system |-> FALSE, wifi |-> FALSE]
At(dir, path) == [host |-> dir, guest |-> path, write |-> FALSE]
App(wants, installs, preloads, crashes, launchers) ==
    [wants |-> wants, dirs |-> {"d2"}, installs |-> installs, preloads |-> preloads,
     crashes |-> crashes, children |-> launchers]

\* A package that is preloaded, then updated in place or by a later version; one
\* that two children heal, and one that is updated meanwhile; two that collide;
\* one the loader refuses; directories, of which one is missing.
Of(ver, build) == [ver |-> ver, build |-> build]
Latest == Want("system", 0, TRUE)
Updated == App(Plain(<<Latest>>), <<Of(1, b1), Of(1, b2)>>, TRUE, 0, {l1})
Newer == App(Plain(<<Latest>>), <<Of(1, b1), Of(2, b1)>>, TRUE, 0, {l1})
Shared == App(Plain(<<Latest>>), <<Of(1, b1)>>, FALSE, 1, {l1, l2})
Raced == App(Plain(<<Latest>>), <<Of(1, b1), Of(1, b2)>>, FALSE, 1, {l1})
Collides == App(Plain(<<Want("host", 0, TRUE), Want("system", 1, TRUE), Want("app", 1, TRUE)>>),
                <<Of(1, b1)>>, FALSE, 0, {l1})
Nameless == App(Plain(<<Want("host", 0, FALSE)>>), <<>>, FALSE, 0, {l1})
Mounts == App([deps |-> <<>>, mounts |-> <<At("d1", "/music"), At("d2", "/music"), At("d2", "/all")>>,
               system |-> TRUE, wifi |-> TRUE], <<>>, FALSE, 0, {l1})

MCDepSettings == {Updated, Newer, Shared, Raced, Collides, Nameless, Mounts}

-----------------------------------------------------------------------------
\* The parts that do not run start in one way.
MCInit ==
    /\ HostInit
    /\ part # "store" => env = OneCrash /\ dep = b1
    /\ part # "deps" => setting = Nameless

MCSpec == MCInit /\ [][HostNext]_hostVars
FairMCSpec == MCSpec /\ Fair

(* A store that a crash may leave torn: one version, one engine, one child.  *)
Simple == INSTANCE AppStore WITH Versions <- 1..1, Engines <- 1..1, Loaders <- {l1},
    Settings <- {OneCrash}

ASSUME SimpleConstants == Simple!ConstantsOK

TornSpec ==
    /\ part = "store" /\ Init /\ Simple!Init /\ Deps!Init /\ setting = Nameless
    /\ [][OfStore(Simple!Next)]_hostVars

CorruptionIsHealed == Simple!CorruptionIsHealed
=============================================================================
