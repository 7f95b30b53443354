------------------------------ MODULE AppStore ------------------------------
(***************************************************************************)
(* One installed app on disk, and who writes and reads it: the installer   *)
(* (app_installer.rs), the loader of a launched child with its self-healing *)
(* cache (app_loader.rs), and the zygote's preload registry that children  *)
(* inherit by fork (preload.rs).                                           *)
(*                                                                         *)
(* A component is a build; a .cwasm is a build compiled by one engine; the *)
(* cache key names the build, the engine and the dependency's build.  A    *)
(* file is written in two steps, truncated and then filled, and a process  *)
(* may die between any two steps.                                          *)
(***************************************************************************)
EXTENDS Naturals, FiniteSets

CONSTANTS
    Versions,     \* version directories of the app, in the order pick_latest
                  \* (a string sort) puts them: 1..n
    Builds,       \* wasm contents
    Loaders,      \* children that load the app
    NoFile, Torn, \* absent file; truncated file
    Engines,      \* host builds, in the order they are deployed: 1..n
    Settings,     \* what may happen: whether somebody sends PRELOAD for this
                  \* app, and how many of the processes may die (a bound)
    MaxInstalls   \* bound

VARIABLES
    env,      \* the setting, fixed from the start
    disk,     \* per version: directory, .wasm, .cwasm, cache-key.toml
    dep,      \* the build of the dependency on disk
    engine,   \* the engine of the host binary
    reg,      \* zygote: preload registry, per version's .cwasm path
    inst,     \* the installer process
    load,     \* per child: its loader
    fresh,    \* a PRELOAD came after the last write by the installer
    count     \* installs started, processes that crashed

vars == <<env, disk, dep, engine, reg, inst, load, fresh, count>>

-----------------------------------------------------------------------------
Cwasms == [build : Builds, engine : Engines]
Keys   == [build : Builds, engine : Engines, dep : Builds]
NoDir  == [dir |-> FALSE, wasm |-> NoFile, cwasm |-> NoFile, key |-> NoFile]
Missing == {NoFile, Torn}

ConstantsOK ==
    /\ IsFiniteSet(Versions) /\ 1 \in Versions /\ Versions = 1..Cardinality(Versions)
    /\ IsFiniteSet(Engines) /\ 1 \in Engines /\ Engines = 1..Cardinality(Engines)
    /\ NoFile # Torn /\ Missing \cap (Builds \union Cwasms \union Keys) = {}
    /\ MaxInstalls \in Nat
    /\ Settings \subseteq [preloads : BOOLEAN, crashes : Nat]

InstPCs == {"idle", "mkdir", "wasm", "cwasm", "key"}
LoadPCs == {"idle", "key", "check", "cwasm", "restamp", "get", "loaded", "failed"}

IdleInst == [pc |-> "idle", ver |-> 1, build |-> NoFile, dep |-> NoFile]
IdleLoad == [pc |-> "idle", ver |-> 1, reg |-> [v \in Versions |-> NoFile],
             old |-> FALSE, key |-> NoFile, build |-> NoFile, got |-> NoFile]

TypeOK ==
    /\ env \in Settings
    /\ disk \in [Versions -> [dir : BOOLEAN, wasm : Builds \union Missing,
                              cwasm : Cwasms \union Missing,
                              key : Keys \union Missing]]
    /\ dep \in Builds
    /\ engine \in Engines
    /\ reg \in [Versions -> Builds \union {NoFile}]
    /\ inst \in [pc : InstPCs, ver : Versions, build : Builds \union {NoFile},
                 dep : Builds \union {NoFile}]
    /\ load \in [Loaders -> [pc : LoadPCs, ver : Versions,
                             reg : [Versions -> Builds \union {NoFile}],
                             old : BOOLEAN,
                             key : Keys \union {NoFile},
                             build : Builds \union {NoFile},
                             got : Builds \union {NoFile}]]
    /\ fresh \in BOOLEAN
    /\ count \in [installs : 0..MaxInstalls, crashes : 0..env.crashes]

Init ==
    /\ env \in Settings
    /\ disk = [v \in Versions |-> NoDir]
    /\ dep \in Builds
    /\ engine = 1
    /\ reg = [v \in Versions |-> NoFile]
    /\ inst = IdleInst
    /\ load = [l \in Loaders |-> IdleLoad]
    /\ fresh = TRUE
    /\ count = [installs |-> 0, crashes |-> 0]

Loading(l) == load[l].pc \notin {"idle", "loaded", "failed"}
Installing == inst.pc # "idle"

\* pick_latest_version: the last directory, whatever is in it.
Latest == CHOOSE v \in Versions :
              disk[v].dir /\ \A w \in Versions : disk[w].dir => w <= v
Present == \E v \in Versions : disk[v].dir

-----------------------------------------------------------------------------
(* The installer.  Dependencies are resolved before anything is written;   *)
(* the cache key is written last.                                          *)

Install(v, b) ==
    /\ ~Installing /\ count.installs < MaxInstalls
    /\ \A l \in Loaders : ~Loading(l)
    /\ inst' = [pc |-> "mkdir", ver |-> v, build |-> b, dep |-> dep]
    /\ count' = [count EXCEPT !.installs = @ + 1]
    /\ UNCHANGED <<env, disk, dep, engine, reg, load, fresh>>

MakeDirs ==
    /\ inst.pc = "mkdir"
    /\ disk' = [disk EXCEPT ![inst.ver].dir = TRUE]
    /\ inst' = [inst EXCEPT !.pc = "wasm"]
    /\ fresh' = FALSE
    /\ UNCHANGED <<env, dep, engine, reg, load, count>>

\* fs::write is not atomic: the file is empty first, complete later.
Truncate(v, file) == disk' = [disk EXCEPT ![v][file] = Torn]
Fill(v, file, data) == disk[v][file] = Torn /\ disk' = [disk EXCEPT ![v][file] = data]

InstTruncate(file) ==
    /\ inst.pc = file /\ disk[inst.ver][file] # Torn
    /\ Truncate(inst.ver, file)
    /\ UNCHANGED <<env, dep, engine, reg, inst, load, fresh, count>>

InstWrites(file) ==
    CASE file = "wasm"  -> inst.build
      [] file = "cwasm" -> [build |-> inst.build, engine |-> engine]
      [] file = "key"   -> [build |-> inst.build, engine |-> engine, dep |-> inst.dep]

\* What the installer writes after a file.
NextFile(file) ==
    CASE file = "wasm" -> "cwasm" [] file = "cwasm" -> "key" [] file = "key" -> "idle"

InstFill(file) ==
    /\ inst.pc = file
    /\ Fill(inst.ver, file, InstWrites(file))
    /\ inst' = IF NextFile(file) = "idle" THEN IdleInst
               ELSE [inst EXCEPT !.pc = NextFile(file)]
    /\ fresh' = FALSE
    /\ UNCHANGED <<env, dep, engine, reg, load, count>>

InstCrash ==
    /\ Installing /\ count.crashes < env.crashes
    /\ inst' = IdleInst
    /\ count' = [count EXCEPT !.crashes = @ + 1]
    /\ UNCHANGED <<env, disk, dep, engine, reg, load, fresh>>

-----------------------------------------------------------------------------
(* The zygote.                                                             *)

\* Mutant: an app preloaded before is left as it is.
MutantPreloadOnce ==
    /\ env.preloads /\ Present /\ ~Installing
    /\ LET c == disk[Latest].cwasm
       IN  reg' = IF reg[Latest] = NoFile /\ c \notin Missing
                  THEN IF c.engine = engine
                       THEN [v \in Versions |-> IF v = Latest THEN c.build ELSE NoFile]
                       ELSE reg
                  ELSE reg
    /\ fresh' = TRUE
    /\ UNCHANGED <<env, disk, dep, engine, inst, load, count>>

\* PRELOAD: every version's entries dropped, the latest one deserialized; a
\* .cwasm that does not deserialize is skipped.
Preload ==
    /\ env.preloads /\ Present /\ ~Installing
    /\ LET c == disk[Latest].cwasm
           usable == IF c \in Missing THEN FALSE ELSE c.engine = engine
       IN  reg' = [v \in Versions |-> IF v = Latest /\ usable THEN c.build ELSE NoFile]
    /\ fresh' = TRUE
    /\ UNCHANGED <<env, disk, dep, engine, inst, load, count>>

\* A new host binary: zygote and children start over.
Upgrade ==
    /\ engine + 1 \in Engines /\ ~Installing
    /\ engine' = engine + 1
    /\ reg' = [v \in Versions |-> NoFile]
    /\ load' = [l \in Loaders |-> IdleLoad]
    /\ UNCHANGED <<env, disk, dep, inst, fresh, count>>

\* The dependency is reinstalled with another build.
UpdateDep(b) ==
    /\ b # dep /\ dep' = b
    /\ UNCHANGED <<env, disk, engine, reg, inst, load, fresh, count>>

-----------------------------------------------------------------------------
(* The loader of a child.                                                  *)

\* The registry holds entries the installer has written past: it sends no
\* PRELOAD itself.
Outrun == ~fresh /\ \E v \in Versions : reg[v] # NoFile

\* LAUNCH: the registry comes along; the latest version is picked.
Fork(l) ==
    /\ ~Loading(l) /\ ~Installing
    /\ load' = [load EXCEPT ![l] = [IdleLoad EXCEPT
                   !.pc = IF Present THEN "key" ELSE "failed",
                   !.ver = IF Present THEN Latest ELSE 1, !.reg = reg, !.old = Outrun]]
    /\ UNCHANGED <<env, disk, dep, engine, reg, inst, fresh, count>>

Goto(l, pc) == load' = [load EXCEPT ![l].pc = pc]

ReadKey(l) ==
    /\ load[l].pc = "key"
    /\ LET key == disk[load[l].ver].key
       IN  IF key \in Missing THEN Goto(l, "failed")
           ELSE load' = [load EXCEPT ![l].pc = "check", ![l].key = key]
    /\ UNCHANGED <<env, disk, dep, engine, reg, inst, fresh, count>>

\* The three signs of drift.  The .cwasm's own hash is never looked at.
Drift(key, d) == key.engine # engine \/ key.build # d.wasm \/ d.cwasm = NoFile

\* A missing wasm cannot be read; a truncated one does not compile.
CheckCache(l) ==
    /\ load[l].pc = "check"
    /\ LET d == disk[load[l].ver]
       IN  IF d.wasm \in Missing THEN Goto(l, "failed")
           ELSE load' = [load EXCEPT ![l].build = d.wasm,
                   ![l].pc = IF Drift(load[l].key, d) THEN "cwasm" ELSE "get"]
    /\ UNCHANGED <<env, disk, dep, engine, reg, inst, fresh, count>>

\* Healing: the new .cwasm, then the key with the dependencies preserved.
HealTruncate(l, pc, file) ==
    /\ load[l].pc = pc /\ disk[load[l].ver][file] # Torn
    /\ Truncate(load[l].ver, file)
    /\ UNCHANGED <<env, dep, engine, reg, inst, load, fresh, count>>

HealCwasm(l) ==
    /\ load[l].pc = "cwasm"
    /\ Fill(load[l].ver, "cwasm", [build |-> load[l].build, engine |-> engine])
    /\ Goto(l, "restamp")
    /\ UNCHANGED <<env, dep, engine, reg, inst, fresh, count>>

\* Mutant: the key is re-stamped with what it said before.
MutantRestamp(l) == load[l].key

Restamped(l) == [build |-> load[l].build, engine |-> engine, dep |-> load[l].key.dep]

HealKey(l) ==
    /\ load[l].pc = "restamp"
    /\ Fill(load[l].ver, "key", Restamped(l))
    /\ Goto(l, "get")
    /\ UNCHANGED <<env, dep, engine, reg, inst, fresh, count>>

\* A registry hit wins and is compared with nothing; else the .cwasm must
\* deserialize for this engine.
Get(l) ==
    /\ load[l].pc = "get"
    /\ LET hit == load[l].reg[load[l].ver]
           c == disk[load[l].ver].cwasm
           usable == IF c \in Missing THEN FALSE ELSE c.engine = engine
       IN  IF hit # NoFile
           THEN load' = [load EXCEPT ![l].pc = "loaded", ![l].got = hit]
           ELSE IF usable
           THEN load' = [load EXCEPT ![l].pc = "loaded", ![l].got = c.build]
           ELSE Goto(l, "failed")
    /\ UNCHANGED <<env, disk, dep, engine, reg, inst, fresh, count>>

LoadCrash(l) ==
    /\ Loading(l) /\ count.crashes < env.crashes
    /\ load' = [load EXCEPT ![l] = IdleLoad]
    /\ count' = [count EXCEPT !.crashes = @ + 1]
    /\ UNCHANGED <<env, disk, dep, engine, reg, inst, fresh>>

-----------------------------------------------------------------------------
Next ==
    \/ \E v \in Versions, b \in Builds : Install(v, b)
    \/ MakeDirs
    \/ \E file \in {"wasm", "cwasm", "key"} : InstTruncate(file) \/ InstFill(file)
    \/ InstCrash
    \/ Preload
    \/ Upgrade
    \/ \E b \in Builds : UpdateDep(b)
    \/ \E l \in Loaders :
          \/ Fork(l)
          \/ ReadKey(l)
          \/ CheckCache(l)
          \/ HealTruncate(l, "cwasm", "cwasm")
          \/ HealCwasm(l)
          \/ HealTruncate(l, "restamp", "key")
          \/ HealKey(l)
          \/ Get(l)
          \/ LoadCrash(l)

Spec == Init /\ [][Next]_vars

-----------------------------------------------------------------------------
(* Safety.                                                                 *)

\* A child runs the code that is installed: the component it got was compiled
\* from the wasm on disk when it checked, whatever crashes, host upgrades,
\* preloads and healing of other children came before or in between.  The one
\* other thing it may run is the entry of a registry the installer has written
\* past, inherited as it is; a PRELOAD after the install ends that.
LoadedIsInstalled ==
    \A l \in Loaders :
        load[l].pc = "loaded" =>
            \/ load[l].got = load[l].build
            \/ load[l].old /\ load[l].got = load[l].reg[load[l].ver]

\* A load that succeeded leaves a cache the next one finds fresh: key, wasm,
\* .cwasm and engine agree as far as no other child is rewriting them, and the
\* dependencies are the installer's.
LoadLeavesCacheFresh ==
    \A l \in Loaders : load[l].pc = "get" =>
        LET d == disk[load[l].ver]
        IN  /\ d.key \notin Missing =>
                 d.key = [build |-> d.wasm, engine |-> engine, dep |-> load[l].key.dep]
            /\ d.cwasm \notin Missing => d.cwasm = [build |-> d.wasm, engine |-> engine]

-----------------------------------------------------------------------------
(* What the comments promise and the code does not keep.                   *)

\* app_loader.rs:765-767, "on any drift (host upgrade, manifest mutation, file
\* corruption) re-calls Engine::precompile_component": a load whose wasm and
\* key are readable ends with a component.
CorruptionIsHealed ==
    \A l \in Loaders :
        load[l].pc = "failed" => load[l].build = NoFile

\* preload.rs:25-28 and main.rs:555-558, PRELOAD is "also called by the
\* installer after upgrades": a launch after an install finds no entry that the
\* installer has written past.
InstallerPreloads == \A l \in Loaders : Loading(l) => ~load[l].old
=============================================================================
