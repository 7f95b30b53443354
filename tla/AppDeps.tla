------------------------------ MODULE AppDeps ------------------------------
(***************************************************************************)
(* What an app gets besides its own component: the dependencies its        *)
(* install resolved (app_installer.rs), which every child that launches it *)
(* loads, heals in place and wires into the app's linker (app_loader.rs),  *)
(* and the directories and interfaces its manifest asks for.               *)
(*                                                                         *)
(* One package serves all the dependencies that are not the host's own; a  *)
(* .cwasm is a build compiled by one engine, or a file truncated by a      *)
(* write that has not finished, or never will.                             *)
(***************************************************************************)
EXTENDS Naturals, FiniteSets, Sequences

CONSTANTS
    Versions,      \* of the package, in the order of their names: 1..n
    Builds, Engines,
    Children,
    Settings,      \* the app's manifest, the directories of the machine, the
                   \* children that launch it, and what may happen: preloads,
                   \* the package's installs in their order, and a bound on the
                   \* processes that die amid a write
    NoFile, Torn

ConstantsOK ==
    /\ 1 \in Versions /\ Versions = 1..Cardinality(Versions)
    /\ 1 \in Engines /\ Engines = 1..Cardinality(Engines)
    /\ NoFile # Torn /\ NoFile \notin Children
    /\ {NoFile, Torn} \intersect (Builds \union [build : Builds, engine : Engines]) = {}
    /\ \A s \in Settings :
         /\ s.preloads \in BOOLEAN /\ s.children \subseteq Children
         /\ s.crashes \in Nat /\ s.installs \in Seq([ver : Versions, build : Builds])
         /\ s.wants.deps \in Seq([kind : {"host", "system", "app"}, range : Nat, iface : BOOLEAN])
         /\ s.wants.mounts \in Seq([host : STRING, guest : STRING, write : BOOLEAN])

VARIABLES
    setting,   \* fixed from the start
    package,   \* per version: directory, .wasm, .cwasm, last install finished
    engine,    \* of the host binary
    registry,  \* the zygote's preloaded components, per version
    writer,    \* the package's installer
    key,       \* the app's dependencies_resolved, or NoFile
    child,     \* per child: its load
    count      \* installs and crashes so far

vars == <<setting, package, engine, registry, writer, key, child, count>>
-----------------------------------------------------------------------------
Star == 0  \* the range "*"
NoPackage == [dir |-> FALSE, wasm |-> NoFile, cwasm |-> NoFile, whole |-> FALSE]
IdleWriter == [pc |-> "idle", ver |-> 1, build |-> NoFile]
NoGrants == [mounts |-> {}, wifi |-> FALSE]

\* key, reg: as the child found them.  sound: what it was resolved to stood then,
\* and nobody else has written to the package since.  got: the components.
Idle == [pc |-> "idle", key |-> <<>>, reg |-> [v \in Versions |-> NoFile],
         got |-> <<>>, build |-> NoFile, sound |-> FALSE, why |-> "", grants |-> NoGrants]

Init ==
    /\ setting \in Settings
    /\ package = [v \in Versions |-> NoPackage]
    /\ engine = 1
    /\ registry = [v \in Versions |-> NoFile]
    /\ writer = IdleWriter /\ key = NoFile
    /\ child = [c \in Children |-> Idle]
    /\ count = [installs |-> 0, crashes |-> 0]

Loading(c) == child[c].pc \notin {"idle", "ready", "failed"}

\* Children that are loading while another process writes.
Disturbed(by) ==
    [c \in Children |-> IF c # by /\ Loading(c) THEN [child[c] EXCEPT !.sound = FALSE]
                        ELSE child[c]]

Usable(cwasm) == IF cwasm \in {NoFile, Torn} THEN FALSE ELSE cwasm.engine = engine
-----------------------------------------------------------------------------
(* The installers.                                                         *)

\* pick_version: the last directory for "*", else the one named.
Installed == {v \in Versions : package[v].dir}
Latest == CHOOSE v \in Installed : \A w \in Installed : w <= v
Matches(want) == {v \in Installed : want.range \in {Star, v}}
PickVersion(want) == IF want.range = Star THEN Latest ELSE want.range

\* resolve_dependencies: a host's own pass through, the package is hashed.
Resolvable(want) ==
    \/ want.kind = "host"
    \/ Matches(want) # {} /\ package[PickVersion(want)].wasm # NoFile
Resolved(want) ==
    IF want.kind = "host" THEN [want |-> want, ver |-> 1, build |-> NoFile]
    ELSE [want |-> want, ver |-> PickVersion(want), build |-> package[PickVersion(want)].wasm]

\* install of the app: a dependency that is missing ends it before any write.
InstallApp ==
    /\ \A i \in DOMAIN setting.wants.deps : Resolvable(setting.wants.deps[i])
    /\ key' = [i \in DOMAIN setting.wants.deps |-> Resolved(setting.wants.deps[i])]
    /\ UNCHANGED <<setting, package, engine, registry, writer, child, count>>

Write(v, file, data) ==
    /\ package' = [package EXCEPT ![v][file] = data, ![v].dir = TRUE, ![v].whole = FALSE]
    /\ child' = Disturbed(NoFile)

\* install of the package: its .wasm, then its .cwasm, truncated before filled.
InstallPackage ==
    /\ writer.pc = "idle" /\ count.installs < Len(setting.installs)
    /\ count' = [count EXCEPT !.installs = @ + 1]
    /\ LET next == setting.installs[count'.installs]
       IN  /\ Write(next.ver, "wasm", Torn)
           /\ writer' = [pc |-> "wasm", ver |-> next.ver, build |-> next.build]
    /\ UNCHANGED <<setting, engine, registry, key>>

WritePackage ==
    /\ \/ /\ writer.pc = "wasm" /\ Write(writer.ver, "wasm", writer.build)
          /\ writer' = [writer EXCEPT !.pc = "truncate"]
       \/ /\ writer.pc = "truncate" /\ Write(writer.ver, "cwasm", Torn)
          /\ writer' = [writer EXCEPT !.pc = "fill"]
       \/ /\ writer.pc = "fill"
          /\ package' = [package EXCEPT ![writer.ver].whole = TRUE,
                ![writer.ver].cwasm = [build |-> writer.build, engine |-> engine]]
          /\ child' = Disturbed(NoFile)
          /\ writer' = IdleWriter
    /\ UNCHANGED <<setting, engine, registry, key, count>>

Crash ==
    /\ count.crashes < setting.crashes
    /\ count' = [count EXCEPT !.crashes = @ + 1]
    /\ \/ /\ writer.pc # "idle" /\ writer' = IdleWriter /\ UNCHANGED child
       \/ \E c \in Children : Loading(c) /\ child' = [child EXCEPT ![c] = Idle] /\ UNCHANGED writer
    /\ UNCHANGED <<setting, package, engine, registry, key>>

\* A version is removed from the machine.
Uninstall(v) ==
    /\ writer.pc = "idle" /\ package[v].dir
    /\ package' = [package EXCEPT ![v] = NoPackage]
    /\ child' = Disturbed(NoFile)
    /\ UNCHANGED <<setting, engine, registry, writer, key, count>>

\* preload_all_system_apps, and PRELOAD: the latest version's .cwasm, if it
\* deserializes, for all the package's.
Preload ==
    /\ setting.preloads /\ Installed # {}
    /\ registry' = [v \in Versions |-> IF v = Latest /\ Usable(package[v].cwasm)
                                       THEN package[v].cwasm.build ELSE NoFile]
    /\ UNCHANGED <<setting, package, engine, writer, key, child, count>>

\* A new host binary: zygote and children start over.
Upgrade ==
    /\ engine + 1 \in Engines /\ writer.pc = "idle"
    /\ engine' = engine + 1
    /\ registry' = [v \in Versions |-> NoFile]
    /\ child' = [c \in Children |-> Idle]
    /\ UNCHANGED <<setting, package, writer, key, count>>
-----------------------------------------------------------------------------
(* What the manifest grants.                                               *)

Add(mounted, mount) ==
    IF mount.host \notin setting.dirs \/ (\E m \in mounted : m.guest = mount.guest)
    THEN mounted ELSE mounted \union {mount}

(* apply_mounts: a directory that is missing leaves its path to the next.     *)
Mounted(mounts) ==
    LET upTo[n \in 0..Len(mounts)] == IF n = 0 THEN {} ELSE Add(upTo[n - 1], mounts[n])
    IN  upTo[Len(mounts)]

\* wifi_privileged: of the system's apps, those that opt in.
Privileged == setting.wants.system /\ setting.wants.wifi

Grants == [mounts |-> Mounted(setting.wants.mounts), wifi |-> Privileged]
-----------------------------------------------------------------------------
(* A child's load.                                                         *)

Set(c, new) == child' = [child EXCEPT ![c] = new]
Goto(c, pc) == Set(c, [child[c] EXCEPT !.pc = pc])

\* What a load that has ended leaves.
Fail(c, why) == Set(c, [Idle EXCEPT !.pc = "failed", !.why = why, !.sound = child[c].sound])
Run(c) == Set(c, [Idle EXCEPT !.pc = "ready", !.grants = child[c].grants])
Leave == UNCHANGED <<setting, engine, registry, writer, key, count>>

\* The dependency a child is at.
Dep(c) == child[c].key[Len(child[c].got) + 1]

\* The packages a key names are there: installed to the end, and not removed.
Stand(deps) == \A i \in DOMAIN deps : deps[i].want.kind # "host" => package[deps[i].ver].whole

Fork(c) ==
    /\ ~Loading(c) /\ key # NoFile
    /\ Set(c, [Idle EXCEPT !.pc = "dep", !.key = key, !.reg = registry, !.sound = Stand(key)])
    /\ UNCHANGED package /\ Leave

\* load_dev_path: the first candidate that loads; it has no dependencies.
\* Bound: only where the app is not installed.
LoadDev(c, loads) ==
    /\ ~Loading(c) /\ key = NoFile
    /\ IF \E i \in DOMAIN loads : loads[i]
       THEN Set(c, [Idle EXCEPT !.pc = "wire"])
       ELSE Set(c, [Idle EXCEPT !.pc = "failed", !.why = "missing"])
    /\ UNCHANGED package /\ Leave

\* A dependency the loader has dealt with; a host's own has no component.
Got(c, cwasm) == Set(c, [child[c] EXCEPT !.pc = "dep", !.build = NoFile, !.got = Append(@, cwasm)])

\* Mutant: the last version is loaded, whatever was resolved.
MutantPinned(c) == IF Installed = {} THEN Dep(c).ver ELSE Latest

Pinned(c) == Dep(c).ver

\* load_dep_components: the interface, the directory, and a hash that is
\* compared but, if it differs, only warned about.
CheckDep(c) ==
    /\ child[c].pc = "dep" /\ Len(child[c].got) < Len(child[c].key)
    /\ LET p == package[Dep(c).ver]
       IN  IF ~Dep(c).want.iface THEN Fail(c, "interface")
           ELSE IF Dep(c).want.kind = "host" THEN Got(c, NoFile)
           ELSE IF ~p.dir \/ p.wasm = NoFile THEN Fail(c, "missing")
           ELSE Goto(c, "fetch")
    /\ UNCHANGED package /\ Leave

\* Mutant: only another engine's is compiled again, a torn one is an error.
MutantHeals(cwasm) == cwasm # Torn

Heals(cwasm) == TRUE

(* A preloaded component, or the .cwasm; one that does not deserialize is     *)
(* compiled again from the .wasm.                                             *)
FetchDep(c) ==
    /\ child[c].pc = "fetch"
    /\ LET cwasm == package[Pinned(c)].cwasm
           hit == child[c].reg[Pinned(c)]
       IN  IF cwasm = NoFile THEN Fail(c, "missing")
           ELSE IF hit # NoFile THEN Got(c, [ver |-> Pinned(c), build |-> hit, engine |-> engine])
           ELSE IF Usable(cwasm)
           THEN Got(c, [ver |-> Pinned(c), build |-> cwasm.build, engine |-> engine])
           ELSE IF Heals(cwasm) THEN Goto(c, "read") ELSE Fail(c, "torn")
    /\ UNCHANGED package /\ Leave

ReadDep(c) ==
    /\ child[c].pc = "read"
    /\ LET wasm == package[Pinned(c)].wasm
       IN  IF wasm \in {NoFile, Torn} THEN Fail(c, "missing")
           ELSE Set(c, [child[c] EXCEPT !.pc = "truncate", !.build = wasm])
    /\ UNCHANGED package /\ Leave

\* fs::write of the healed .cwasm, over whatever is there now: also over that of
\* a build installed since the .wasm was read, which is whole no longer.
HealDep(c) ==
    /\ child[c].pc \in {"truncate", "fill"}
    /\ IF ~package[Pinned(c)].dir
       THEN Fail(c, "missing") /\ UNCHANGED package
       ELSE /\ package' = [package EXCEPT ![Pinned(c)].cwasm =
                  IF child[c].pc = "truncate" THEN Torn
                  ELSE [build |-> child[c].build, engine |-> engine],
                ![Pinned(c)].whole = @ /\ child[c].build = package[Pinned(c)].wasm]
            /\ child' = [Disturbed(c) EXCEPT ![c].pc = IF @ = "truncate" THEN "fill" ELSE "again"]
    /\ Leave

\* The second attempt, after which there is no third.
FetchAgain(c) ==
    /\ child[c].pc = "again"
    /\ LET cwasm == package[Pinned(c)].cwasm
       IN  IF Usable(cwasm)
           THEN Got(c, [ver |-> Pinned(c), build |-> cwasm.build, engine |-> engine])
           ELSE Fail(c, "torn")
    /\ UNCHANGED package /\ Leave

\* The app's own component is there; its mounts are read off the setting.
DepsLoaded(c) ==
    /\ child[c].pc = "dep" /\ Len(child[c].got) = Len(child[c].key)
    /\ Set(c, [child[c] EXCEPT !.pc = "wire", !.grants = Grants])
    /\ UNCHANGED package /\ Leave

\* wire_dep_into_linker for each, then the app itself, its on-init and its
\* engine's start: two that export one interface collide in the linker.
Clash(c) ==
    \E i, j \in DOMAIN child[c].got :
        i # j /\ child[c].got[i] # NoFile /\ child[c].got[j] # NoFile
Instantiate(c, traps) ==
    /\ child[c].pc = "wire"
    /\ IF Clash(c) THEN Fail(c, "clash") ELSE IF traps THEN Fail(c, "guest") ELSE Run(c)
    /\ UNCHANGED package /\ Leave

-----------------------------------------------------------------------------
OfChild(c) ==
    \/ Fork(c) \/ CheckDep(c) \/ FetchDep(c) \/ ReadDep(c) \/ HealDep(c) \/ FetchAgain(c)
    \/ DepsLoaded(c)
    \/ \E loads \in {<<FALSE>>, <<FALSE, TRUE>>} : LoadDev(c, loads)
    \/ \E traps \in BOOLEAN : Instantiate(c, traps)

Next ==
    \/ InstallApp
    \/ \E v \in Versions : Uninstall(v)
    \/ InstallPackage \/ WritePackage \/ Crash \/ Preload \/ Upgrade
    \/ \E c \in setting.children : OfChild(c)

Spec == Init /\ [][Next]_vars
-----------------------------------------------------------------------------
\* The package, the app's key and the children have their types.
TypeOK ==
    /\ package \in [Versions -> [dir : BOOLEAN, wasm : Builds \union {NoFile, Torn}, whole : BOOLEAN,
                    cwasm : [build : Builds, engine : Engines] \union {NoFile, Torn}]]
    /\ engine \in Engines /\ registry \in [Versions -> Builds \union {NoFile}]
    /\ writer.pc \in {"idle", "wasm", "truncate", "fill"}
    /\ \A c \in Children : Len(child[c].got) <= Len(child[c].key)

\* A child heals its dependencies: whatever an upgrade, or a process that died
\* while healing, left in the cache, a load nobody else writes across does not
\* fail for it.
DepsSelfHeal ==
    \A c \in Children :
        child[c].pc = "failed" /\ child[c].sound
            => child[c].why \in {"interface", "clash", "guest"}

\* An app starts to run with the versions its install resolved, compiled by
\* this host, and, of a package that stands and that was not preloaded before
\* it changed, with the very build that is installed.
DepsAreAsResolved ==
    [][\A c \in Children : child'[c].pc = "ready" /\ child[c].pc # "ready" =>
        \A i \in DOMAIN child[c].got : child[c].got[i] # NoFile =>
            LET got == child[c].got[i]
                installed == package[got.ver].wasm
            IN  /\ got.ver = child[c].key[i].ver /\ got.engine = engine
                /\ child[c].sound /\ child[c].reg[got.ver] \in {NoFile, installed}
                    => got.build = installed]_child

\* An app is given, at each path it declares, the first of the directories it
\* lists for it that this machine has, and no other.
MountsAreFirstThatExist ==
    [][\A c \in Children : child[c].pc = "dep" /\ child'[c].pc = "wire" =>
        LET list == setting.wants.mounts
        IN  child'[c].grants.mounts =
                {list[i] : i \in {i \in DOMAIN list :
                    /\ list[i].host \in setting.dirs
                    /\ \A j \in 1..i - 1 :
                         list[j].guest = list[i].guest => list[j].host \notin setting.dirs}}]_child
-----------------------------------------------------------------------------
(* What the comments promise and the code does not keep.                   *)

\* app_installer.rs, format_cache_key, "any dep update flips a hash": a child
\* that loads a package of another build than the resolved one does not run.
DepUpdateInvalidates ==
    [][\A c \in Children : child'[c].pc = "ready" /\ child[c].pc # "ready" =>
        \A i \in DOMAIN child[c].got : child[c].got[i] # NoFile
            => child[c].got[i].build = child[c].key[i].build]_child

\* An app that was installed can be loaded: the installer takes a dependency
\* without an interface, which the loader always refuses.
InstalledLoads == \A c \in Children : child[c].why # "interface"
=============================================================================
