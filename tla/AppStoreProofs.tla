--------------------------- MODULE AppStoreProofs ---------------------------
(***************************************************************************)
(* A child runs the component that is installed, and leaves a cache the    *)
(* next one finds fresh, for every number of versions, builds, engines,    *)
(* installs and children that heal the cache at once - as long as at most  *)
(* one process dies, and none where the zygote preloads.  Two deaths can   *)
(* leave a cwasm of another build under a key that matches the wasm.       *)
(***************************************************************************)
EXTENDS HostZygote, FiniteSets, FiniteSetTheorems, WellFoundedInduction, TLAPS

RareCrashes ==
    \A s \in StoreSettings : s.crashes <= 1 /\ (s.preloads => s.crashes = 0)

-----------------------------------------------------------------------------
(* The latest version.                                                     *)

NatLess == {pair \in Nat \X Nat : pair[1] < pair[2]}

LEMMA NatLessWF == IsWellFoundedOn(NatLess, Nat)
BY NatLessThanWellFounded, Zenon DEF OpToRel, NatLess

\* A set of numbers up to n that is not empty has a greatest.
LEMMA Greatest ==
    ASSUME NEW n \in Nat, NEW T \in SUBSET (1..n), T # {}
    PROVE  \E x \in T : \A y \in T : y <= x
<1> DEFINE U == {n - i : i \in T}
<1>1. U \subseteq Nat /\ U # {}
  <2>1. U \subseteq Nat
    OBVIOUS
  <2>2. U # {}
    OBVIOUS
  <2> QED
    BY <2>1, <2>2
<1>2. PICK m \in U : \A y \in U : ~(<<y, m>> \in NatLess)
  <2> HIDE DEF U
  <2> QED
    BY <1>1, NatLessWF, WFMin
<1>3. \A y \in U : ~(y < m)
  BY <1>1, <1>2 DEF NatLess
<1>4. PICK i \in T : m = n - i
  BY <1>2
<1>5. \A j \in T : ~(n - j < n - i)
  BY <1>3, <1>4
<1> QED
  BY <1>4, <1>5

\* The sets Store's assumptions speak of are those of FiniteSetTheorems.
LEMMA SameSets ==
    \A S : (Store!IsFiniteSet(S) <=> IsFiniteSet(S)) /\ Store!Cardinality(S) = Cardinality(S)
<1>1. \A S : Store!IsFiniteSet(S) <=> IsFiniteSet(S)
  BY DEF Store!IsFiniteSet, IsFiniteSet
<1>2. \A S : Store!Cardinality(S) = Cardinality(S)
  BY DEF Store!Cardinality, Cardinality
<1> QED
  BY <1>1, <1>2

\* Versions and engines are numbered.
LEMMA Numbered ==
    ASSUME Store!ConstantsOK
    PROVE  /\ Cardinality(Versions) \in Nat /\ Versions = 1..Cardinality(Versions)
           /\ Engines \subseteq Nat
BY SameSets, FS_CardinalityType DEF Store!ConstantsOK

\* pick_latest_version finds a version when there is one.
LEMMA LatestExists ==
    ASSUME Store!ConstantsOK, Store!Present
    PROVE  Store!Latest \in Versions
<1> DEFINE dirs == {v \in Versions : disk[v].dir}
<1>1. Cardinality(Versions) \in Nat /\ dirs \in SUBSET (1..Cardinality(Versions)) /\ dirs # {}
  BY Numbered DEF Store!Present
<1>2. PICK last \in dirs : \A w \in dirs : w <= last
  <2> HIDE DEF dirs
  <2> QED
    BY <1>1, Greatest
<1>3. \E v \in Versions : disk[v].dir /\ \A w \in Versions : disk[w].dir => w <= v
  BY <1>2
<1> QED
  BY <1>3 DEF Store!Latest

-----------------------------------------------------------------------------
(* Types.                                                                  *)

Entries == [dir : BOOLEAN, wasm : Builds \union Store!Missing, cwasm : Store!Cwasms \union Store!Missing,
            key : Store!Keys \union Store!Missing]
Registries == [Versions -> Builds \union {NoFile}]
Insts == [pc : Store!InstPCs, ver : Versions, build : Builds \union {NoFile}, dep : Builds \union {NoFile}]
Loads == [pc : Store!LoadPCs, ver : Versions, reg : Registries, old : BOOLEAN, key : Store!Keys \union {NoFile},
          build : Builds \union {NoFile}, got : Builds \union {NoFile}]

\* What a loader has read by the time it is at a place.
HasKey(l) == load[l].pc \in {"check", "cwasm", "restamp", "get"}
HasBuild(l) == load[l].pc \in {"cwasm", "restamp", "get"}

Typed ==
    /\ env \in StoreSettings
    /\ disk \in [Versions -> Entries]
    /\ dep \in Builds /\ engine \in Engines
    /\ reg \in Registries
    /\ inst \in Insts /\ (Store!Installing => inst.build \in Builds /\ inst.dep \in Builds)
    /\ load \in [Loaders -> Loads]
    /\ \A l \in Loaders : /\ HasKey(l) => load[l].key \in Store!Keys
                          /\ HasBuild(l) => load[l].build \in Builds
    /\ fresh \in BOOLEAN
    /\ count \in [installs : 0..MaxInstalls, crashes : 0..env.crashes]

\* Replacing one file of one version, or one child's loader, keeps the type.
LEMMA OneFile ==
    ASSUME disk \in [Versions -> Entries], NEW v \in Versions, NEW file \in {"wasm", "cwasm", "key"},
           NEW data, data \in (CASE file = "wasm" -> Builds \union Store!Missing
                              [] file = "cwasm" -> Store!Cwasms \union Store!Missing
                              [] file = "key" -> Store!Keys \union Store!Missing)
    PROVE  [disk EXCEPT ![v][file] = data] \in [Versions -> Entries]
<1>1. [disk[v] EXCEPT ![file] = data] \in Entries
  <2>1. CASE file = "wasm"
    BY <2>1 DEF Entries
  <2>2. CASE file = "cwasm"
    BY <2>2 DEF Entries
  <2>3. CASE file = "key"
    BY <2>3 DEF Entries
  <2> QED
    BY <2>1, <2>2, <2>3
<1> QED
  BY <1>1

LEMMA OneLoad ==
    ASSUME Typed, NEW l \in Loaders, NEW r \in Loads, load' = [load EXCEPT ![l] = r],
           r.pc \in {"check", "cwasm", "restamp", "get"} => r.key \in Store!Keys,
           r.pc \in {"cwasm", "restamp", "get"} => r.build \in Builds
    PROVE  /\ load' \in [Loaders -> Loads]
           /\ \A m \in Loaders : /\ HasKey(m)' => load'[m].key \in Store!Keys
                                 /\ HasBuild(m)' => load'[m].build \in Builds
           /\ load'[l] = r /\ \A m \in Loaders \ {l} : load'[m] = load[m]
BY DEF Typed, HasKey, HasBuild

\* A loader at rest.
LEMMA IdleTyped == ASSUME Store!ConstantsOK PROVE Store!IdleLoad \in Loads /\ Store!IdleInst \in Insts
BY DEF Store!ConstantsOK, Store!IdleLoad, Store!IdleInst, Loads, Insts, Registries, Store!LoadPCs, Store!InstPCs

LEMMA InitTyped == ASSUME Store!ConstantsOK PROVE Store!Init => Typed
<1> SUFFICES ASSUME Store!Init PROVE Typed
  OBVIOUS
<1>1. Store!NoDir \in Entries /\ Store!IdleLoad \in Loads /\ Store!IdleInst \in Insts
  BY IdleTyped DEF Store!NoDir, Entries, Store!Missing
<1>2. disk \in [Versions -> Entries] /\ load \in [Loaders -> Loads] /\ inst \in Insts
  BY <1>1 DEF Store!Init
<1>3. ~Store!Installing /\ \A l \in Loaders : ~HasKey(l) /\ ~HasBuild(l)
  BY DEF Store!Init, Store!IdleInst, Store!IdleLoad, Store!Installing, HasKey, HasBuild
<1>4. count \in [installs : 0..MaxInstalls, crashes : 0..env.crashes]
  BY DEF Store!ConstantsOK, Store!Init
<1>5. engine \in Engines /\ reg \in Registries
  BY DEF Store!ConstantsOK, Store!Init, Registries
<1> QED
  BY <1>2, <1>3, <1>4, <1>5 DEF Store!Init, Typed

\* What the installer and the zygote do keeps the types.
LEMMA StoreTyped ==
    ASSUME Store!ConstantsOK, Typed,
           \/ \E v \in Versions, b \in Builds : Store!Install(v, b)
           \/ Store!MakeDirs \/ Store!InstCrash \/ Store!Preload \/ Store!Upgrade
           \/ \E file \in {"wasm", "cwasm", "key"} : Store!InstTruncate(file) \/ Store!InstFill(file)
           \/ \E b \in Builds : Store!UpdateDep(b)
    PROVE  Typed'
<1> USE DEF Typed, HasKey, HasBuild
<1>1. ASSUME NEW v \in Versions, NEW b \in Builds, Store!Install(v, b) PROVE Typed'
  <2>1. inst' \in Insts /\ inst'.build \in Builds /\ inst'.dep \in Builds
    BY <1>1 DEF Store!Install, Insts, Store!InstPCs
  <2>2. count' \in [installs : 0..MaxInstalls, crashes : 0..env.crashes]
    BY <1>1 DEF Store!Install, Store!ConstantsOK
  <2> QED
    BY <1>1, <2>1, <2>2 DEF Store!Install
<1>2. CASE Store!MakeDirs
  <2>1. disk' \in [Versions -> Entries]
    <3>1. [disk[inst.ver] EXCEPT !.dir = TRUE] \in Entries
      BY DEF Entries, Insts
    <3> QED
      BY <1>2, <3>1 DEF Store!MakeDirs
  <2>2. inst' \in Insts /\ inst'.build = inst.build /\ inst'.dep = inst.dep /\ Store!Installing
    BY <1>2 DEF Store!MakeDirs, Insts, Store!InstPCs, Store!Installing
  <2> QED
    BY <1>2, <2>1, <2>2 DEF Store!MakeDirs
<1>3. CASE Store!InstCrash
  <2>1. count' \in [installs : 0..MaxInstalls, crashes : 0..env.crashes]
    BY <1>3 DEF Store!InstCrash, Store!ConstantsOK
  <2> QED
    BY <1>3, <2>1, IdleTyped DEF Store!InstCrash, Store!Installing, Store!IdleInst
<1>4. CASE Store!Preload
  <2>1. reg' \in Registries
    <3> DEFINE c == disk[Store!Latest].cwasm
               usable == IF c \in Store!Missing THEN FALSE ELSE c.engine = engine
    <3>1. c \in Store!Cwasms \union Store!Missing
      BY <1>4, LatestExists DEF Store!Preload, Entries
    <3>2. usable => c.build \in Builds
      BY <3>1 DEF Store!Cwasms
    <3>3. reg' = [v \in Versions |-> IF v = Store!Latest /\ usable THEN c.build ELSE NoFile]
      BY <1>4 DEF Store!Preload
    <3> HIDE DEF c, usable
    <3> QED
      BY <3>2, <3>3 DEF Registries
  <2> QED
    BY <1>4, <2>1 DEF Store!Preload, Store!Installing
<1>5. CASE Store!Upgrade
  <2>1. reg' \in Registries /\ load' \in [Loaders -> Loads]
    BY <1>5, IdleTyped DEF Store!Upgrade, Registries
  <2>2. \A l \in Loaders : load'[l].pc = "idle"
    BY <1>5 DEF Store!Upgrade, Store!IdleLoad
  <2> QED
    BY <1>5, <2>1, <2>2 DEF Store!Upgrade, Store!Installing
<1>6. ASSUME NEW file \in {"wasm", "cwasm", "key"}, Store!InstTruncate(file) PROVE Typed'
  <2>1. disk' \in [Versions -> Entries]
    BY <1>6, OneFile DEF Store!InstTruncate, Store!Truncate, Insts, Store!Missing
  <2> QED
    BY <1>6, <2>1 DEF Store!InstTruncate, Store!Installing
<1>7. ASSUME NEW file \in {"wasm", "cwasm", "key"}, Store!InstFill(file) PROVE Typed'
  <2>1. Store!Installing /\ inst.build \in Builds /\ inst.dep \in Builds
    BY <1>7 DEF Store!InstFill, Store!Installing
  <2>2. disk' = [disk EXCEPT ![inst.ver][file] = Store!InstWrites(file)]
    BY <1>7 DEF Store!InstFill, Store!Fill
  <2>3. disk' \in [Versions -> Entries]
    <3>1. CASE file = "wasm"
      BY <2>1, <2>2, <3>1, OneFile DEF Store!InstWrites, Insts
    <3>2. CASE file = "cwasm"
      BY <2>1, <2>2, <3>2, OneFile DEF Store!InstWrites, Insts, Store!Cwasms
    <3>3. CASE file = "key"
      BY <2>1, <2>2, <3>3, OneFile DEF Store!InstWrites, Insts, Store!Keys
    <3> QED
      BY <3>1, <3>2, <3>3
  <2>4. inst' \in Insts /\ (inst'.pc # "idle" => inst'.build = inst.build /\ inst'.dep = inst.dep)
    BY <1>7, IdleTyped DEF Store!InstFill, Store!NextFile, Insts, Store!InstPCs, Store!IdleInst
  <2> QED
    BY <1>7, <2>1, <2>3, <2>4 DEF Store!InstFill, Store!Installing
<1>8. ASSUME NEW b \in Builds, Store!UpdateDep(b) PROVE Typed'
  BY <1>8 DEF Store!UpdateDep, Store!Installing
<1> QED
  BY <1>1, <1>2, <1>3, <1>4, <1>5, <1>6, <1>7, <1>8

\* The steps of one child's loader.
LoaderStep(l) ==
    \/ Store!Fork(l) \/ Store!ReadKey(l) \/ Store!CheckCache(l)
    \/ Store!HealTruncate(l, "cwasm", "cwasm") \/ Store!HealCwasm(l)
    \/ Store!HealTruncate(l, "restamp", "key") \/ Store!HealKey(l)
    \/ Store!Get(l) \/ Store!LoadCrash(l)

\* The part of the state a loader that writes nothing leaves alone.
LEMMA LoadOnly ==
    ASSUME Typed, NEW l \in Loaders, NEW r \in Loads, load' = [load EXCEPT ![l] = r],
           r.pc \in {"check", "cwasm", "restamp", "get"} => r.key \in Store!Keys,
           r.pc \in {"cwasm", "restamp", "get"} => r.build \in Builds,
           UNCHANGED <<env, dep, engine, reg, inst, fresh>>, disk' \in [Versions -> Entries],
           count' \in [installs : 0..MaxInstalls, crashes : 0..env.crashes]
    PROVE  Typed'
BY OneLoad DEF Typed, Store!Installing

LEMMA EnvTyped == ASSUME Store!ConstantsOK, Typed PROVE env.crashes \in Nat
BY DEF Store!ConstantsOK, Typed

\* What a loader does keeps the types.
LEMMA LoaderTyped == ASSUME Store!ConstantsOK, Typed, NEW l \in Loaders, LoaderStep(l) PROVE Typed'
<1>0. /\ load[l] \in Loads /\ load[l].ver \in Versions
      /\ disk \in [Versions -> Entries] /\ disk[load[l].ver] \in Entries
      /\ engine \in Engines /\ inst \in Insts /\ reg \in Registries
      /\ count \in [installs : 0..MaxInstalls, crashes : 0..env.crashes]
      /\ HasKey(l) => load[l].key \in Store!Keys
      /\ HasBuild(l) => load[l].build \in Builds
  <2>1. load[l] \in Loads
    BY DEF Typed
  <2>2. load[l].ver \in Versions
    BY <2>1 DEF Loads
  <2>3. disk \in [Versions -> Entries] /\ disk[load[l].ver] \in Entries
    BY <2>2 DEF Typed
  <2>4. (HasKey(l) => load[l].key \in Store!Keys) /\ (HasBuild(l) => load[l].build \in Builds)
    BY DEF Typed
  <2>5. /\ engine \in Engines /\ inst \in Insts /\ reg \in Registries
        /\ count \in [installs : 0..MaxInstalls, crashes : 0..env.crashes]
    BY DEF Typed
  <2> QED
    BY <2>1, <2>2, <2>3, <2>4, <2>5, Zenon
<1>1. CASE Store!Fork(l)
  <2> DEFINE r == [Store!IdleLoad EXCEPT !.pc = IF Store!Present THEN "key" ELSE "failed",
                                   !.ver = IF Store!Present THEN Store!Latest ELSE 1, !.reg = reg,
                                   !.old = Store!Outrun]
  <2>1. 1 \in Versions /\ (Store!Present => Store!Latest \in Versions)
    BY LatestExists DEF Store!ConstantsOK
  <2>2. r \in Loads /\ r.pc \in {"key", "failed"}
    <3>1. Store!Outrun \in BOOLEAN
      BY DEF Store!Outrun
    <3> QED
      BY <1>0, <2>1, <3>1, IdleTyped DEF Store!IdleLoad, Loads, Store!LoadPCs
  <2>3. load' = [load EXCEPT ![l] = r] /\ UNCHANGED <<env, disk, dep, engine, reg, inst, fresh, count>>
    BY <1>1 DEF Store!Fork
  <2> HIDE DEF r
  <2> QED
    BY <1>0, <2>2, <2>3, LoadOnly
<1>2. ASSUME NEW p \in Store!LoadPCs, Store!Goto(l, p),
             p \in {"check", "cwasm", "restamp", "get"} => HasKey(l),
             p \in {"cwasm", "restamp", "get"} => HasBuild(l),
             UNCHANGED <<env, dep, engine, reg, inst, fresh, count>>, disk' \in [Versions -> Entries]
      PROVE Typed'
  <2> DEFINE r == [load[l] EXCEPT !.pc = p]
  <2>1. r \in Loads /\ r.pc = p /\ r.key = load[l].key /\ r.build = load[l].build
    BY <1>0 DEF Loads
  <2>2. load' = [load EXCEPT ![l] = r]
    BY <1>2 DEF Store!Goto
  <2>3. /\ p \in {"check", "cwasm", "restamp", "get"} => r.key \in Store!Keys
        /\ p \in {"cwasm", "restamp", "get"} => r.build \in Builds
    BY <1>0, <1>2, <2>1
  <2> HIDE DEF r
  <2> QED
    BY <1>0, <1>2, <2>1, <2>2, <2>3, LoadOnly
<1>3. CASE Store!ReadKey(l)
  <2> DEFINE stored == disk[load[l].ver].key
             r == [load[l] EXCEPT !.pc = "check", !.key = stored]
  <2>1. CASE stored \in Store!Missing
    BY <1>0, <1>2, <1>3, <2>1 DEF Store!ReadKey, Store!LoadPCs
  <2>2. CASE stored \notin Store!Missing
    <3>1. stored \in Store!Keys
      BY <1>0, <2>2 DEF Entries
    <3>2. r \in Loads /\ r.pc = "check" /\ r.key \in Store!Keys
      BY <1>0, <3>1 DEF Loads, Store!LoadPCs
    <3>3. load' = [load EXCEPT ![l] = r] /\ UNCHANGED <<env, disk, dep, engine, reg, inst, fresh, count>>
      BY <1>3, <2>2 DEF Store!ReadKey
    <3> HIDE DEF r
    <3> QED
      BY <1>0, <3>2, <3>3, LoadOnly
  <2> QED
    BY <2>1, <2>2
<1>4. CASE Store!CheckCache(l)
  <2> DEFINE d == disk[load[l].ver]
             next == IF Store!Drift(load[l].key, d) THEN "cwasm" ELSE "get"
             r == [load[l] EXCEPT !.build = d.wasm, !.pc = next]
  <2>1. CASE d.wasm \in Store!Missing
    BY <1>0, <1>2, <1>4, <2>1 DEF Store!CheckCache, Store!LoadPCs
  <2>2. CASE d.wasm \notin Store!Missing
    <3>1. d.wasm \in Builds /\ load[l].key \in Store!Keys
      BY <1>0, <1>4, <2>2 DEF Entries, Store!CheckCache, HasKey
    <3>2. r \in Loads /\ r.pc \in {"cwasm", "get"} /\ r.key \in Store!Keys /\ r.build \in Builds
      <4> HIDE DEF d
      <4> QED
        BY <1>0, <3>1 DEF Loads, Store!LoadPCs
    <3>3. load' = [load EXCEPT ![l] = r] /\ UNCHANGED <<env, disk, dep, engine, reg, inst, fresh, count>>
      BY <1>4, <2>2 DEF Store!CheckCache
    <3> HIDE DEF r
    <3> QED
      BY <1>0, <3>2, <3>3, LoadOnly
  <2> QED
    BY <2>1, <2>2
<1>5. CASE Store!HealTruncate(l, "cwasm", "cwasm") \/ Store!HealTruncate(l, "restamp", "key")
  <2>1. PICK file \in {"cwasm", "key"} : /\ disk' = [disk EXCEPT ![load[l].ver][file] = Torn]
                                          /\ UNCHANGED <<env, dep, engine, reg, inst, load, fresh, count>>
    BY <1>5 DEF Store!HealTruncate, Store!Truncate
  <2>2. disk' \in [Versions -> Entries]
    <3>1. CASE file = "cwasm"
      BY <1>0, <2>1, <3>1, OneFile DEF Store!Missing
    <3>2. CASE file = "key"
      BY <1>0, <2>1, <3>2, OneFile DEF Store!Missing
    <3> QED
      BY <3>1, <3>2
  <2> QED
    BY <2>1, <2>2 DEF Typed, Store!Installing, HasKey, HasBuild
<1>6. CASE Store!HealCwasm(l)
  <2>1. disk' \in [Versions -> Entries]
    <3>1. [build |-> load[l].build, engine |-> engine] \in Store!Cwasms
      BY <1>0, <1>6 DEF Store!HealCwasm, Store!Cwasms, HasBuild
    <3>2. disk' = [disk EXCEPT ![load[l].ver]["cwasm"] = [build |-> load[l].build, engine |-> engine]]
      BY <1>6 DEF Store!HealCwasm, Store!Fill
    <3> QED
      BY <1>0, <3>1, <3>2, OneFile
  <2>2. HasKey(l) /\ HasBuild(l) /\ Store!Goto(l, "restamp")
    BY <1>6 DEF Store!HealCwasm, HasKey, HasBuild
  <2> QED
    BY <1>2, <1>6, <2>1, <2>2 DEF Store!HealCwasm, Store!LoadPCs
<1>7. CASE Store!HealKey(l)
  <2>1. disk' \in [Versions -> Entries]
    <3>1. Store!Restamped(l) \in Store!Keys
      BY <1>0, <1>7 DEF Store!HealKey, Store!Restamped, Store!Keys, HasKey, HasBuild
    <3>2. disk' = [disk EXCEPT ![load[l].ver]["key"] = Store!Restamped(l)]
      BY <1>7 DEF Store!HealKey, Store!Fill
    <3> QED
      BY <1>0, <3>1, <3>2, OneFile
  <2>2. HasKey(l) /\ HasBuild(l) /\ Store!Goto(l, "get")
    BY <1>7 DEF Store!HealKey, HasKey, HasBuild
  <2> QED
    BY <1>2, <1>7, <2>1, <2>2 DEF Store!HealKey, Store!LoadPCs
<1>8. CASE Store!Get(l)
  <2> DEFINE hit == load[l].reg[load[l].ver]
             c == disk[load[l].ver].cwasm
  <2>1. ASSUME NEW b \in Builds, load' = [load EXCEPT ![l].pc = "loaded", ![l].got = b] PROVE Typed'
    <3> DEFINE r == [load[l] EXCEPT !.pc = "loaded", !.got = b]
    <3>1. r \in Loads /\ r.pc = "loaded"
      BY <1>0 DEF Loads, Store!LoadPCs
    <3>2. load' = [load EXCEPT ![l] = r] /\ UNCHANGED <<env, disk, dep, engine, reg, inst, fresh, count>>
      BY <1>8, <2>1 DEF Store!Get
    <3> HIDE DEF r
    <3> QED
      BY <1>0, <3>1, <3>2, LoadOnly
  <2>2. CASE hit # NoFile
    <3>1. hit \in Builds
      BY <1>0, <2>2 DEF Loads, Registries
    <3> QED
      BY <1>8, <2>1, <2>2, <3>1 DEF Store!Get
  <2>3. CASE hit = NoFile /\ c \notin Store!Missing /\ c.engine = engine
    <3>1. c.build \in Builds
      BY <1>0, <2>3 DEF Entries, Store!Cwasms
    <3> QED
      BY <1>8, <2>1, <2>3, <3>1 DEF Store!Get
  <2>4. CASE hit = NoFile /\ ~(c \notin Store!Missing /\ c.engine = engine)
    <3>1. Store!Goto(l, "failed") /\ UNCHANGED <<env, disk, dep, engine, reg, inst, fresh, count>>
      BY <1>8, <2>4 DEF Store!Get
    <3> QED
      BY <1>0, <1>2, <3>1 DEF Store!LoadPCs
  <2> QED
    BY <2>2, <2>3, <2>4
<1>9. CASE Store!LoadCrash(l)
  <2>1. count' \in [installs : 0..MaxInstalls, crashes : 0..env.crashes]
    BY <1>0, <1>9, EnvTyped DEF Store!LoadCrash
  <2>2. Store!IdleLoad.pc = "idle"
    BY DEF Store!IdleLoad
  <2> QED
    BY <1>0, <1>9, <2>1, <2>2, IdleTyped, LoadOnly DEF Store!LoadCrash
<1> QED
  BY <1>1, <1>3, <1>4, <1>5, <1>6, <1>7, <1>8, <1>9 DEF LoaderStep

\* Every step is one of these.
LEMMA StepCases ==
    ASSUME [Store!Next]_Store!vars
    PROVE  \/ \E v \in Versions, b \in Builds : Store!Install(v, b)
           \/ Store!MakeDirs \/ Store!InstCrash \/ Store!Preload \/ Store!Upgrade
           \/ \E file \in {"wasm", "cwasm", "key"} : Store!InstTruncate(file) \/ Store!InstFill(file)
           \/ \E b \in Builds : Store!UpdateDep(b)
           \/ \E l \in Loaders : LoaderStep(l)
           \/ UNCHANGED Store!vars
BY DEF Store!Next, LoaderStep

LEMMA StaysTyped == ASSUME Store!ConstantsOK PROVE Store!Spec => []Typed
<1>1. Typed /\ [Store!Next]_Store!vars => Typed'
  <2> SUFFICES ASSUME Typed, [Store!Next]_Store!vars PROVE Typed'
    OBVIOUS
  <2>1. CASE UNCHANGED Store!vars
    BY <2>1 DEF Store!vars, Typed, Store!Installing, HasKey, HasBuild
  <2> QED
    BY <2>1, StepCases, StoreTyped, LoaderTyped
<1> QED
  BY <1>1, InitTyped, PTL DEF Store!Spec

-----------------------------------------------------------------------------
(* The inductive invariant.                                                *)

\* A version's files: key and cwasm name the same build and engine; the key is
\* another engine's; the cwasm, the key is what this engine makes of the wasm.
Matching(d) ==
    d.key \notin Store!Missing /\ d.cwasm \notin Store!Missing =>
        d.cwasm.build = d.key.build /\ d.cwasm.engine = d.key.engine
Outdated(d) == d.key \notin Store!Missing => d.key.engine # engine
Current(d) == d.cwasm \notin Store!Missing => d.cwasm = [build |-> d.wasm, engine |-> engine]
Stamped(d, x) == d.key \notin Store!Missing => d.key = [build |-> d.wasm, engine |-> engine, dep |-> x]

\* Who may be between the cwasm and the key of a version.
Busy(v) == inst.pc \in {"wasm", "cwasm"} /\ v = inst.ver
Stamping(v) == inst.pc = "key" /\ v = inst.ver
Healing(v) == \E l \in Loaders : load[l].pc = "restamp" /\ load[l].ver = v

\* A key that matches wasm and engine stands for the cwasm beside it: what
\* breaks that is under way, or was cut off by the one death.
StoreSafe ==
    \A v \in Versions :
        LET d == disk[v]
        IN  /\ Matching(d) \/ Outdated(d) \/ count.crashes > 0 \/ Healing(v) \/ Stamping(v)
            /\ Matching(d) \/ Outdated(d) \/ Current(d) \/ Busy(v)
            /\ d.key \notin Store!Missing => d.key.engine <= engine

\* What the installer has written so far.
Written ==
    /\ inst.pc \in {"cwasm", "key"} => disk[inst.ver].wasm = inst.build
    /\ inst.pc = "key" => disk[inst.ver].cwasm = [build |-> inst.build, engine |-> engine]
    /\ inst.pc \in {"wasm", "cwasm", "key"} => ~fresh

Exclusive == Store!Installing => \A l \in Loaders : ~Store!Loading(l)

\* A registry that may be inherited holds what is installed; without a death a
\* finished cwasm is of the wasm beside it.
Preloaded ==
    \A v \in Versions :
        /\ reg[v] # NoFile /\ fresh => disk[v].wasm = reg[v]
        /\ count.crashes = 0 /\ ~Busy(v) /\ disk[v].cwasm \notin Store!Missing =>
              disk[v].cwasm.build = disk[v].wasm

\* A loader: what it inherited and read is what is installed, unless the
\* installer had written past the registry.
LoadOK(l) ==
    LET r == load[l]
        d == disk[r.ver]
    IN  /\ Store!Loading(l) /\ r.reg[r.ver] # NoFile => r.old \/ d.wasm = r.reg[r.ver]
        /\ HasKey(l) /\ d.key \notin Store!Missing => d.key.dep = r.key.dep
        /\ HasBuild(l) => r.build = d.wasm
        /\ r.pc = "check" /\ r.key.engine = engine /\ r.key.build = d.wasm =>
              Current(d) /\ Stamped(d, r.key.dep)
        /\ r.pc \in {"restamp", "get"} => Current(d)
        /\ r.pc = "get" => Stamped(d, r.key.dep)
        /\ r.pc = "loaded" => r.got = r.build \/ (r.old /\ r.got = r.reg[r.ver])

\* Two loaders of one version preserve the same dependencies.
Agree ==
    \A l, m \in Loaders :
        HasKey(l) /\ HasKey(m) /\ load[l].ver = load[m].ver => load[l].key.dep = load[m].key.dep

IInv ==
    /\ Typed
    /\ StoreSafe /\ Written /\ Exclusive /\ Preloaded
    /\ \A l \in Loaders : LoadOK(l)
    /\ Agree

-----------------------------------------------------------------------------
\* The deaths there may be.
LEMMA Deaths ==
    ASSUME Store!ConstantsOK, RareCrashes, Typed
    PROVE  /\ count.crashes \in {0, 1} /\ env.crashes \in {0, 1}
           /\ count.crashes < env.crashes => count.crashes = 0 /\ count.crashes + 1 = 1
           /\ env.preloads => count.crashes = 0
<1>1. env \in [preloads : BOOLEAN, crashes : Nat] /\ env.crashes <= 1
      /\ (env.preloads => env.crashes = 0)
  BY DEF Store!ConstantsOK, RareCrashes, Typed
<1>2. count.crashes \in 0..env.crashes
  BY DEF Typed
<1> QED
  BY <1>1, <1>2

\* The files of a version have their types.
LEMMA FileTypes ==
    ASSUME Store!ConstantsOK, Typed, NEW v \in Versions
    PROVE  /\ disk[v] \in Entries
           /\ disk[v].wasm \in Builds \union Store!Missing
           /\ disk[v].cwasm \notin Store!Missing => disk[v].cwasm \in Store!Cwasms
           /\ disk[v].key \notin Store!Missing => disk[v].key \in Store!Keys
<1>1. disk[v] \in Entries
  BY DEF Typed
<1> QED
  BY <1>1 DEF Entries

\* No installer is at work beside a loader.
LEMMA NobodyInstalls ==
    ASSUME Exclusive, NEW l \in Loaders, Store!Loading(l)
    PROVE  inst.pc = "idle" /\ \A v : ~Busy(v) /\ ~Stamping(v)
BY DEF Exclusive, Store!Installing, Busy, Stamping

LEMMA InitSafe == ASSUME Store!ConstantsOK PROVE Store!Init => IInv
<1> SUFFICES ASSUME Store!Init PROVE IInv
  OBVIOUS
<1>1. Typed
  BY InitTyped
<1>2. \A v \in Versions : disk[v].key = NoFile /\ disk[v].cwasm = NoFile /\ reg[v] = NoFile
  BY DEF Store!Init, Store!NoDir
<1>3. inst.pc = "idle" /\ \A l \in Loaders : load[l].pc = "idle"
  BY DEF Store!Init, Store!IdleInst, Store!IdleLoad
<1>4. StoreSafe
  BY <1>2 DEF StoreSafe, Matching, Current, Store!Missing
<1>5. Preloaded
  BY <1>2 DEF Preloaded, Store!Missing
<1>6. \A l \in Loaders : LoadOK(l)
  BY <1>3 DEF LoadOK, Store!Loading, HasKey, HasBuild
<1> QED
  BY <1>1, <1>3, <1>4, <1>5, <1>6 DEF IInv, Written, Exclusive, Store!Installing, Agree, HasKey

-----------------------------------------------------------------------------
(* The installer and the zygote.                                           *)

\* While loaders and their files stay, so does what is known of them.
LEMMA Undisturbed ==
    ASSUME IInv, UNCHANGED <<disk, engine, load>>
    PROVE  (\A l \in Loaders : LoadOK(l)') /\ Agree' /\ \A v : Healing(v)' = Healing(v)
BY DEF IInv, LoadOK, Store!Loading, HasKey, HasBuild, Current, Stamped, Agree, Healing

\* The installer's steps that leave the loaders, of which none is loading.
LEMMA NobodyLoads ==
    ASSUME IInv, Store!Installing, UNCHANGED <<engine, load>>
    PROVE  /\ \A l \in Loaders : LoadOK(l)'
           /\ Agree' /\ Exclusive'
           /\ \A v : ~Healing(v) /\ ~Healing(v)'
<1>1. \A l \in Loaders : load[l].pc \in {"idle", "loaded", "failed"}
  BY DEF IInv, Exclusive, Store!Loading
<1>2. \A l \in Loaders : load[l].pc = "loaded" =>
          load[l].got = load[l].build \/ (load[l].old /\ load[l].got = load[l].reg[load[l].ver])
  BY DEF IInv, LoadOK
<1> QED
  BY <1>1, <1>2 DEF LoadOK, Store!Loading, HasKey, HasBuild, Agree, Exclusive, Healing

LEMMA InstallSafe ==
    ASSUME IInv, NEW v \in Versions, NEW b \in Builds, Store!Install(v, b), Typed'
    PROVE  IInv'
<1>1. inst.pc = "idle" /\ inst'.pc = "mkdir" /\ UNCHANGED <<disk, engine, load, reg, fresh>>
      /\ count'.crashes = count.crashes
  BY DEF IInv, Store!Install, Store!Installing, Typed
<1>2. \A w : ~Busy(w) /\ ~Busy(w)' /\ ~Stamping(w) /\ ~Stamping(w)'
  BY <1>1 DEF Busy, Stamping
<1>3. StoreSafe'
  BY <1>1, <1>2, Undisturbed DEF IInv, StoreSafe, Matching, Outdated, Current
<1>4. Written' /\ Preloaded'
  BY <1>1, <1>2 DEF IInv, Written, Preloaded
<1>5. Exclusive'
  BY <1>1 DEF Store!Install, Exclusive, Store!Loading
<1> QED
  BY <1>1, <1>3, <1>4, <1>5, Undisturbed DEF IInv

LEMMA MakeDirsSafe ==
    ASSUME Store!ConstantsOK, RareCrashes, IInv, Store!MakeDirs, Typed'
    PROVE  IInv'
<1>1. /\ inst.pc = "mkdir" /\ inst'.pc = "wasm" /\ inst'.ver = inst.ver /\ inst.ver \in Versions
      /\ ~fresh' /\ UNCHANGED <<engine, load, reg, count>>
  BY DEF IInv, Store!MakeDirs, Typed, Insts
<1>2. \A v \in Versions : /\ disk'[v].wasm = disk[v].wasm /\ disk'[v].cwasm = disk[v].cwasm
                          /\ disk'[v].key = disk[v].key
  BY DEF IInv, Store!MakeDirs, Typed, Entries
<1>3. \A v : ~Busy(v) /\ ~Stamping(v) /\ ~Stamping(v)'
  BY <1>1 DEF Busy, Stamping
<1>4. StoreSafe'
  BY <1>1, <1>2, <1>3, NobodyLoads
     DEF IInv, StoreSafe, Matching, Outdated, Current, Store!Installing
<1>5. Written' /\ Preloaded'
  BY <1>1, <1>2, <1>3 DEF IInv, Written, Preloaded
<1> QED
  BY <1>1, <1>4, <1>5, NobodyLoads DEF IInv, Store!Installing

LEMMA InstCrashSafe ==
    ASSUME Store!ConstantsOK, RareCrashes, IInv, Store!InstCrash, Typed'
    PROVE  IInv'
<1>1. /\ Store!Installing /\ inst'.pc = "idle" /\ UNCHANGED <<disk, engine, load, reg, fresh>>
      /\ count.crashes = 0 /\ count'.crashes = 1
  <2>1. count.crashes < env.crashes /\ count'.crashes = count.crashes + 1
    BY DEF IInv, Store!InstCrash, Typed
  <2> QED
    BY <2>1, Deaths DEF IInv, Store!InstCrash, Store!IdleInst
<1>2. \A v : ~Busy(v)' /\ ~Stamping(v)'
  BY <1>1 DEF Busy, Stamping
<1>3. StoreSafe'
  <2> SUFFICES ASSUME NEW v \in Versions
               PROVE  /\ Matching(disk[v]) \/ Outdated(disk[v]) \/ Current(disk[v])
                      /\ disk[v].key \notin Store!Missing => disk[v].key.engine <= engine
    BY <1>1, <1>2 DEF StoreSafe, Matching, Outdated, Current
  <2>1. CASE Busy(v)
    BY <1>1, <2>1, NobodyLoads DEF IInv, StoreSafe, Busy, Stamping
  <2>2. CASE ~Busy(v)
    BY <1>1, <2>2 DEF IInv, StoreSafe
  <2> QED
    BY <2>1, <2>2
<1>4. Written' /\ Preloaded'
  BY <1>1, <1>2 DEF IInv, Written, Preloaded
<1> QED
  BY <1>1, <1>3, <1>4, NobodyLoads DEF IInv

LEMMA InstTruncateSafe ==
    ASSUME Store!ConstantsOK, IInv, NEW file \in {"wasm", "cwasm", "key"}, Store!InstTruncate(file), Typed'
    PROVE  IInv'
<1>1. /\ inst.pc = file /\ Store!Installing /\ UNCHANGED <<engine, inst, load, reg, fresh, count>>
      /\ disk' = [disk EXCEPT ![inst.ver][file] = Torn]
  BY DEF Store!InstTruncate, Store!Truncate, Store!Installing
<1>2. inst.ver \in Versions /\ disk \in [Versions -> Entries]
  BY DEF IInv, Typed, Insts
<1>3. \A v \in Versions \ {inst.ver} : disk'[v] = disk[v]
  BY <1>1, <1>2
<1>4. disk'[inst.ver] = [disk[inst.ver] EXCEPT ![file] = Torn]
  BY <1>1, <1>2
<1>d. /\ disk[inst.ver] \in Entries
      /\ file # "wasm" => disk'[inst.ver].wasm = disk[inst.ver].wasm
      /\ file # "cwasm" => disk'[inst.ver].cwasm = disk[inst.ver].cwasm
      /\ file # "key" => disk'[inst.ver].key = disk[inst.ver].key
      /\ file = "cwasm" => disk'[inst.ver].cwasm = Torn
      /\ file = "key" => disk'[inst.ver].key = Torn
  BY <1>2, <1>4 DEF Entries
<1>5. \A v : (Busy(v)' <=> Busy(v)) /\ (Stamping(v)' <=> Stamping(v))
             /\ (v # inst.ver => ~Busy(v) /\ ~Stamping(v)) /\ ~Healing(v) /\ ~Healing(v)'
  BY <1>1, NobodyLoads DEF Busy, Stamping
<1>6. StoreSafe'
  <2> SUFFICES ASSUME NEW v \in Versions
               PROVE  /\ Matching(disk'[v]) \/ Outdated(disk'[v]) \/ count.crashes > 0 \/ Stamping(v)
                      /\ Matching(disk'[v]) \/ Outdated(disk'[v]) \/ Current(disk'[v]) \/ Busy(v)
                      /\ disk'[v].key \notin Store!Missing => disk'[v].key.engine <= engine
    BY <1>1, <1>5 DEF StoreSafe, Matching, Outdated, Current
  <2>1. CASE v # inst.ver
    BY <1>1, <1>3, <1>5, <2>1 DEF IInv, StoreSafe, Matching, Outdated, Current
  <2>2. CASE v = inst.ver /\ file # "key"
    <3>1. Busy(v) /\ ~Stamping(v) /\ disk'[v].key = disk[v].key
          /\ (disk'[v].cwasm = disk[v].cwasm \/ disk'[v].cwasm = Torn)
      BY <1>1, <1>d, <2>2 DEF Busy, Stamping
    <3> QED
      BY <1>1, <1>5, <2>2, <3>1 DEF IInv, StoreSafe, Matching, Outdated, Store!Missing
  <2>3. CASE v = inst.ver /\ file = "key"
    BY <1>1, <1>d, <2>3 DEF Matching, Outdated, Store!Missing
  <2> QED
    BY <2>1, <2>2, <2>3
<1>7. Written'
  BY <1>1, <1>d DEF IInv, Written
<1>8. Preloaded'
  <2> SUFFICES ASSUME NEW v \in Versions
               PROVE  /\ reg[v] # NoFile /\ fresh => disk'[v].wasm = reg[v]
                      /\ count.crashes = 0 /\ ~Busy(v) /\ disk'[v].cwasm \notin Store!Missing =>
                            disk'[v].cwasm.build = disk'[v].wasm
    BY <1>1, <1>5 DEF Preloaded
  <2>1. ~fresh
    BY <1>1 DEF IInv, Written
  <2>2. CASE v # inst.ver
    BY <1>3, <2>1, <2>2 DEF IInv, Preloaded
  <2>3. CASE v = inst.ver
    BY <1>1, <1>d, <2>1, <2>3 DEF IInv, Preloaded, Busy
  <2> QED
    BY <2>2, <2>3
<1> QED
  BY <1>1, <1>6, <1>7, <1>8, NobodyLoads DEF IInv

LEMMA InstFillSafe ==
    ASSUME Store!ConstantsOK, IInv, NEW file \in {"wasm", "cwasm", "key"}, Store!InstFill(file), Typed'
    PROVE  IInv'
<1>1. /\ inst.pc = file /\ Store!Installing /\ UNCHANGED <<engine, load, reg, count>> /\ ~fresh'
      /\ disk' = [disk EXCEPT ![inst.ver][file] = Store!InstWrites(file)]
  BY DEF Store!InstFill, Store!Fill, Store!Installing
<1>2. inst \in Insts /\ inst.ver \in Versions /\ disk \in [Versions -> Entries] /\ engine \in Engines
      /\ inst.build \in Builds /\ disk[inst.ver] \in Entries
  BY <1>1 DEF IInv, Typed, Insts
<1>3. \A v \in Versions \ {inst.ver} : disk'[v] = disk[v]
  BY <1>1, <1>2
<1>4. disk'[inst.ver] = [disk[inst.ver] EXCEPT ![file] = Store!InstWrites(file)]
  BY <1>1, <1>2
<1>d. /\ file # "wasm" => disk'[inst.ver].wasm = disk[inst.ver].wasm
      /\ file # "cwasm" => disk'[inst.ver].cwasm = disk[inst.ver].cwasm
      /\ file # "key" => disk'[inst.ver].key = disk[inst.ver].key
      /\ file = "wasm" => disk'[inst.ver].wasm = inst.build
      /\ file = "cwasm" => disk'[inst.ver].cwasm = [build |-> inst.build, engine |-> engine]
      /\ file = "key" => disk'[inst.ver].key
                           = [build |-> inst.build, engine |-> engine, dep |-> inst.dep]
  BY <1>2, <1>4 DEF Entries, Store!InstWrites
<1>i. /\ file = "wasm" => inst'.pc = "cwasm" /\ inst'.ver = inst.ver /\ inst'.build = inst.build
      /\ file = "cwasm" => inst'.pc = "key" /\ inst'.ver = inst.ver /\ inst'.build = inst.build
      /\ file = "key" => inst'.pc = "idle"
  BY <1>1, <1>2 DEF Store!InstFill, Store!NextFile, Insts, Store!IdleInst
<1>w. /\ file # "wasm" => disk[inst.ver].wasm = inst.build
      /\ file = "key" => disk[inst.ver].cwasm = [build |-> inst.build, engine |-> engine]
  BY <1>1 DEF IInv, Written
<1>5. /\ \A v : ~Healing(v) /\ ~Healing(v)'
      /\ \A v : v # inst.ver => ~Busy(v) /\ ~Stamping(v) /\ ~Busy(v)' /\ ~Stamping(v)'
  BY <1>1, <1>i, NobodyLoads DEF Busy, Stamping
<1>e. engine \in Nat
  BY <1>2, Numbered
<1>6. StoreSafe'
  <2> SUFFICES ASSUME NEW v \in Versions
               PROVE  /\ Matching(disk'[v]) \/ Outdated(disk'[v]) \/ count.crashes > 0 \/ Stamping(v)'
                      /\ Matching(disk'[v]) \/ Outdated(disk'[v]) \/ Current(disk'[v]) \/ Busy(v)'
                      /\ disk'[v].key \notin Store!Missing => disk'[v].key.engine <= engine
    BY <1>1, <1>5 DEF StoreSafe, Matching, Outdated, Current
  <2>1. CASE v # inst.ver
    BY <1>3, <1>5, <2>1 DEF IInv, StoreSafe
  <2>2. CASE v = inst.ver /\ file = "wasm"
    <3>1. Busy(v)' /\ ~Stamping(v)
      BY <1>1, <1>i, <2>2 DEF Busy, Stamping
    <3> QED
      BY <1>5, <1>d, <2>2, <3>1 DEF IInv, StoreSafe, Matching, Outdated
  <2>3. CASE v = inst.ver /\ file = "cwasm"
    <3>1. Stamping(v)'
      BY <1>i, <2>3 DEF Stamping
    <3>2. Current(disk'[v])
      BY <1>d, <1>w, <2>3 DEF Current
    <3> QED
      BY <1>d, <2>3, <3>1, <3>2 DEF IInv, StoreSafe
  <2>4. CASE v = inst.ver /\ file = "key"
    <3>1. Matching(disk'[v])
      BY <1>d, <1>w, <2>4 DEF Matching
    <3> QED
      BY <1>d, <1>e, <2>4, <3>1
  <2> QED
    BY <2>1, <2>2, <2>3, <2>4
<1>7. Written'
  BY <1>1, <1>i, <1>d, <1>w DEF Written
<1>8. Preloaded'
  <2> SUFFICES ASSUME NEW v \in Versions, count.crashes = 0, ~Busy(v)', disk'[v].cwasm \notin Store!Missing
               PROVE  disk'[v].cwasm.build = disk'[v].wasm
    BY <1>1 DEF Preloaded
  <2>1. CASE v # inst.ver
    BY <1>3, <1>5, <2>1 DEF IInv, Preloaded
  <2>2. CASE v = inst.ver
    BY <1>i, <1>d, <1>w, <2>2 DEF Busy
  <2> QED
    BY <2>1, <2>2
<1> QED
  BY <1>1, <1>6, <1>7, <1>8, NobodyLoads DEF IInv

\* PRELOAD reads finished files only: nobody dies where it is used.
LEMMA PreloadSafe ==
    ASSUME Store!ConstantsOK, RareCrashes, IInv, Store!Preload, Typed'
    PROVE  IInv'
<1>1. inst.pc = "idle" /\ UNCHANGED <<env, disk, engine, inst, load, count>> /\ count.crashes = 0
  BY Deaths DEF IInv, Store!Preload, Store!Installing
<1>2. \A v : ~Busy(v) /\ (Busy(v)' <=> Busy(v)) /\ (Stamping(v)' <=> Stamping(v))
  BY <1>1 DEF Busy, Stamping
<1>3. ASSUME NEW v \in Versions, reg'[v] # NoFile
      PROVE  disk[v].wasm = reg'[v]
  <2> DEFINE c == disk[Store!Latest].cwasm
             usable == IF c \in Store!Missing THEN FALSE ELSE c.engine = engine
  <2>1. reg'[v] = IF v = Store!Latest /\ usable THEN c.build ELSE NoFile
    BY DEF Store!Preload
  <2>2. v = Store!Latest /\ usable
    BY <1>3, <2>1
  <2>3. c \notin Store!Missing
    BY <2>2
  <2> HIDE DEF usable
  <2> QED
    BY <1>1, <1>2, <2>1, <2>2, <2>3 DEF IInv, Preloaded
<1>4. StoreSafe' /\ Written' /\ Exclusive'
  BY <1>1, <1>2, Undisturbed
     DEF IInv, StoreSafe, Matching, Outdated, Current, Written, Exclusive, Store!Installing
<1>5. Preloaded'
  BY <1>1, <1>2, <1>3 DEF IInv, Preloaded
<1> QED
  BY <1>1, <1>4, <1>5, Undisturbed DEF IInv

\* A new host's engine outdates every key.
LEMMA UpgradeSafe ==
    ASSUME Store!ConstantsOK, IInv, Store!Upgrade, Typed'
    PROVE  IInv'
<1>1. /\ inst.pc = "idle" /\ engine' = engine + 1 /\ UNCHANGED <<disk, inst, fresh, count>>
      /\ \A v \in Versions : reg'[v] = NoFile
      /\ \A l \in Loaders : load'[l].pc = "idle"
  BY DEF Store!Upgrade, Store!Installing, Store!IdleLoad
<1>2. engine \in Nat /\ \A v \in Versions : disk[v].key \notin Store!Missing => disk[v].key.engine \in Nat
  <2>1. Engines \subseteq Nat
    BY Numbered
  <2>2. \A v \in Versions : disk[v].key \notin Store!Missing => disk[v].key.engine \in Engines
    BY FileTypes DEF IInv, Store!Keys
  <2> QED
    BY <2>1, <2>2 DEF IInv, Typed
<1>3. StoreSafe'
  BY <1>1, <1>2 DEF IInv, StoreSafe, Outdated
<1>4. Written' /\ Preloaded' /\ Exclusive'
  BY <1>1 DEF IInv, Written, Preloaded, Busy, Exclusive, Store!Installing
<1>5. (\A l \in Loaders : LoadOK(l)') /\ Agree'
  BY <1>1 DEF LoadOK, Store!Loading, HasKey, HasBuild, Agree
<1> QED
  BY <1>3, <1>4, <1>5 DEF IInv

LEMMA UpdateDepSafe ==
    ASSUME IInv, NEW b \in Builds, Store!UpdateDep(b), Typed'
    PROVE  IInv'
<1>1. UNCHANGED <<disk, engine, reg, inst, load, fresh, count>>
  BY DEF Store!UpdateDep
<1> QED
  BY <1>1, Undisturbed
     DEF IInv, StoreSafe, Matching, Outdated, Current, Written, Exclusive, Store!Installing, Store!Loading,
         Preloaded, Busy, Stamping

-----------------------------------------------------------------------------
(* The loaders.                                                            *)

\* A loader's step that writes nothing: only what it knows itself is in doubt.
LEMMA Reading ==
    ASSUME IInv, NEW l \in Loaders, inst.pc = "idle",
           UNCHANGED <<disk, engine, inst, reg, fresh>>,
           \A m \in Loaders \ {l} : load'[m] = load[m],
           \/ load[l].pc # "restamp" /\ UNCHANGED count
           \/ count.crashes = 0 /\ count'.crashes = 1
    PROVE  /\ StoreSafe' /\ Written' /\ Exclusive' /\ Preloaded'
           /\ \A m \in Loaders \ {l} : LoadOK(m)'
<1>1. \A v : ~Busy(v) /\ ~Busy(v)' /\ ~Stamping(v) /\ ~Stamping(v)'
  BY DEF Busy, Stamping
<1>2. StoreSafe'
  <2>1. CASE load[l].pc # "restamp" /\ UNCHANGED count
    <3>1. \A v : Healing(v) => Healing(v)'
      BY <2>1 DEF Healing
    <3> QED
      BY <1>1, <2>1, <3>1 DEF IInv, StoreSafe, Matching, Outdated, Current
  <2>2. CASE count.crashes = 0 /\ count'.crashes = 1
    BY <1>1, <2>2 DEF IInv, StoreSafe, Matching, Outdated, Current
  <2> QED
    BY <2>1, <2>2
<1>3. Written' /\ Exclusive' /\ Preloaded'
  BY <1>1 DEF IInv, Written, Exclusive, Store!Installing, Preloaded
<1>4. \A m \in Loaders \ {l} : LoadOK(m)'
  BY DEF IInv, LoadOK, Store!Loading, HasKey, HasBuild, Current, Stamped
<1> QED
  BY <1>2, <1>3, <1>4

\* A loader that forgets what it read, or knows no more than it did.
LEMMA Rests ==
    ASSUME IInv, NEW l \in Loaders, \A m \in Loaders \ {l} : load'[m] = load[m],
           load'[l].pc \in {"idle", "key", "failed", "loaded"},
           load'[l].pc = "key" =>
               (load'[l].reg[load'[l].ver] # NoFile =>
                    load'[l].old \/ disk'[load'[l].ver].wasm = load'[l].reg[load'[l].ver]),
           load'[l].pc = "loaded" =>
               \/ load'[l].got = load'[l].build
               \/ load'[l].old /\ load'[l].got = load'[l].reg[load'[l].ver]
    PROVE  LoadOK(l)' /\ Agree'
<1>1. ~HasKey(l)' /\ ~HasBuild(l)'
  BY DEF HasKey, HasBuild
<1>2. LoadOK(l)'
  BY <1>1 DEF LoadOK, Store!Loading
<1>3. Agree'
  BY <1>1 DEF IInv, Agree, HasKey
<1> QED
  BY <1>2, <1>3

LEMMA ForkSafe ==
    ASSUME Store!ConstantsOK, IInv, NEW l \in Loaders, Store!Fork(l), Typed'
    PROVE  IInv'
<1> DEFINE r == [Store!IdleLoad EXCEPT !.pc = IF Store!Present THEN "key" ELSE "failed",
                                 !.ver = IF Store!Present THEN Store!Latest ELSE 1, !.reg = reg,
                                   !.old = Store!Outrun]
<1>1. /\ inst.pc = "idle" /\ UNCHANGED <<disk, engine, inst, reg, fresh, count>>
      /\ load' = [load EXCEPT ![l] = r] /\ load[l].pc # "restamp"
  BY DEF Store!Fork, Store!Installing, Store!Loading
<1>2. /\ r.pc \in {"key", "failed"} /\ r.reg = reg /\ (r.pc = "key" => r.ver \in Versions)
      /\ r.old <=> Store!Outrun
  BY LatestExists DEF Store!IdleLoad
<1>3. load'[l] = r /\ \A m \in Loaders \ {l} : load'[m] = load[m]
  BY <1>1 DEF IInv, Typed
<1> HIDE DEF r
<1>4. r.pc = "key" /\ r.reg[r.ver] # NoFile => r.old \/ disk[r.ver].wasm = r.reg[r.ver]
  BY <1>1, <1>2 DEF IInv, Preloaded, Store!Outrun
<1>5. LoadOK(l)' /\ Agree'
  BY <1>1, <1>2, <1>3, <1>4, Rests
<1>6. /\ StoreSafe' /\ Written' /\ Exclusive' /\ Preloaded'
      /\ \A m \in Loaders \ {l} : LoadOK(m)'
  BY <1>1, <1>3, Reading
<1> QED
  BY <1>5, <1>6 DEF IInv

\* A load that fails or dies.
LEMMA EndsSafe ==
    ASSUME IInv, NEW l \in Loaders, inst.pc = "idle", Typed',
           UNCHANGED <<disk, engine, inst, reg, fresh>>,
           \A m \in Loaders \ {l} : load'[m] = load[m],
           load'[l].pc \in {"idle", "failed"},
           \/ load[l].pc # "restamp" /\ UNCHANGED count
           \/ count.crashes = 0 /\ count'.crashes = 1
    PROVE  IInv'
BY Reading, Rests DEF IInv

LEMMA ReadKeySafe ==
    ASSUME Store!ConstantsOK, IInv, NEW l \in Loaders, Store!ReadKey(l), Typed'
    PROVE  IInv'
<1> DEFINE v == load[l].ver
           d == disk[v]
<1>1. /\ load[l].pc = "key" /\ Store!Loading(l) /\ UNCHANGED <<disk, engine, inst, reg, fresh, count>>
      /\ load[l] \in Loads /\ v \in Versions
  <2>1. load[l] \in Loads
    BY DEF IInv, Typed
  <2> QED
    BY <2>1 DEF Store!ReadKey, Store!Loading, Store!Goto, Loads
<1>2. inst.pc = "idle" /\ ~Busy(v)
  BY <1>1, NobodyInstalls DEF IInv
<1>3. CASE d.key \in Store!Missing
  <2>1. load' = [load EXCEPT ![l].pc = "failed"]
    BY <1>3 DEF Store!ReadKey, Store!Goto
  <2>2. load'[l].pc = "failed" /\ \A m \in Loaders \ {l} : load'[m] = load[m]
    BY <1>1, <2>1 DEF IInv, Typed, Loads
  <2> QED
    BY <1>1, <1>2, <2>2, EndsSafe
<1>4. CASE d.key \notin Store!Missing
  <2>1. load' = [load EXCEPT ![l].pc = "check", ![l].key = d.key]
    BY <1>4 DEF Store!ReadKey
  <2>2. /\ load'[l].pc = "check" /\ load'[l].key = d.key /\ load'[l].ver = v
        /\ load'[l].reg = load[l].reg /\ load'[l].old = load[l].old
        /\ \A m \in Loaders \ {l} : load'[m] = load[m]
    BY <1>1, <2>1 DEF IInv, Typed, Loads
  <2>3. d.key \in Store!Keys /\ (d.cwasm \notin Store!Missing => d.cwasm \in Store!Cwasms)
    BY <1>1, <1>4, FileTypes DEF IInv
  <2>4. ASSUME d.key.engine = engine, d.key.build = d.wasm
        PROVE  Current(d) /\ Stamped(d, d.key.dep)
    <3>1. Matching(d) \/ Current(d)
      BY <1>1, <1>2, <1>4, <2>4 DEF IInv, StoreSafe, Outdated
    <3>2. Matching(d) => Current(d)
      BY <1>4, <2>3, <2>4 DEF Matching, Current, Store!Cwasms
    <3>3. Stamped(d, d.key.dep)
      BY <2>3, <2>4 DEF Stamped, Store!Keys
    <3> QED
      BY <3>1, <3>2, <3>3
  <2>5. LoadOK(l)'
    <3>1. load[l].reg[v] # NoFile => load[l].old \/ d.wasm = load[l].reg[v]
      BY <1>1 DEF IInv, LoadOK
    <3> QED
      BY <1>1, <2>2, <2>4, <3>1 DEF LoadOK, HasKey, HasBuild, Current, Stamped
  <2>6. Agree'
    <3> SUFFICES ASSUME NEW m \in Loaders \ {l}, HasKey(m), load[m].ver = v
                 PROVE  load[m].key.dep = d.key.dep
      BY <1>1, <2>2 DEF IInv, Agree, HasKey
    <3> QED
      BY <1>4 DEF IInv, LoadOK
  <2>7. /\ StoreSafe' /\ Written' /\ Exclusive' /\ Preloaded'
        /\ \A m \in Loaders \ {l} : LoadOK(m)'
    BY <1>1, <1>2, <2>2, Reading
  <2> QED
    BY <2>5, <2>6, <2>7 DEF IInv
<1> QED
  BY <1>3, <1>4

LEMMA CheckCacheSafe ==
    ASSUME Store!ConstantsOK, IInv, NEW l \in Loaders, Store!CheckCache(l), Typed'
    PROVE  IInv'
<1> DEFINE v == load[l].ver
           d == disk[v]
<1>1. /\ load[l].pc = "check" /\ Store!Loading(l) /\ UNCHANGED <<disk, engine, inst, reg, fresh, count>>
      /\ load[l] \in Loads /\ v \in Versions
  <2>1. load[l] \in Loads
    BY DEF IInv, Typed
  <2> QED
    BY <2>1 DEF Store!CheckCache, Store!Loading, Store!Goto, Loads
<1>2. inst.pc = "idle"
  BY <1>1, NobodyInstalls DEF IInv
<1>3. CASE d.wasm \in Store!Missing
  <2>1. load' = [load EXCEPT ![l].pc = "failed"]
    BY <1>3 DEF Store!CheckCache, Store!Goto
  <2>2. load'[l].pc = "failed" /\ \A m \in Loaders \ {l} : load'[m] = load[m]
    BY <1>1, <2>1 DEF IInv, Typed, Loads
  <2> QED
    BY <1>1, <1>2, <2>2, EndsSafe
<1>4. CASE d.wasm \notin Store!Missing
  <2> DEFINE next == IF Store!Drift(load[l].key, d) THEN "cwasm" ELSE "get"
  <2>1. load' = [load EXCEPT ![l].build = d.wasm, ![l].pc = next]
    BY <1>4 DEF Store!CheckCache
  <2> HIDE DEF d
  <2>2. /\ load'[l].pc = next /\ load'[l].key = load[l].key /\ load'[l].ver = v
        /\ load'[l].reg = load[l].reg /\ load'[l].old = load[l].old /\ load'[l].build = d.wasm
        /\ \A m \in Loaders \ {l} : load'[m] = load[m]
    BY <1>1, <2>1 DEF IInv, Typed, Loads
  <2>3. next = "get" => Current(d) /\ Stamped(d, load[l].key.dep)
    BY <1>1 DEF IInv, LoadOK, Store!Drift, d
  <2>4. (load[l].reg[v] # NoFile => load[l].old \/ d.wasm = load[l].reg[v])
        /\ (d.key \notin Store!Missing => d.key.dep = load[l].key.dep)
    BY <1>1 DEF IInv, LoadOK, HasKey, d
  <2>5. next \in {"cwasm", "get"}
    OBVIOUS
  <2> HIDE DEF next
  <2>6. LoadOK(l)'
    BY <1>1, <2>2, <2>3, <2>4, <2>5 DEF LoadOK, HasKey, HasBuild, Current, Stamped, d
  <2>7. Agree'
    BY <1>1, <2>2, <2>5 DEF IInv, Agree, HasKey
  <2>8. /\ StoreSafe' /\ Written' /\ Exclusive' /\ Preloaded'
        /\ \A m \in Loaders \ {l} : LoadOK(m)'
    BY <1>1, <1>2, <2>2, Reading
  <2> QED
    BY <2>6, <2>7, <2>8 DEF IInv
<1> QED
  BY <1>3, <1>4

LEMMA GetSafe ==
    ASSUME Store!ConstantsOK, IInv, NEW l \in Loaders, Store!Get(l), Typed'
    PROVE  IInv'
<1> DEFINE v == load[l].ver
           hit == load[l].reg[v]
           c == disk[v].cwasm
<1>1. /\ load[l].pc = "get" /\ Store!Loading(l) /\ UNCHANGED <<disk, engine, inst, reg, fresh, count>>
      /\ load[l] \in Loads /\ v \in Versions
  <2>1. load[l] \in Loads
    BY DEF IInv, Typed
  <2> QED
    BY <2>1 DEF Store!Get, Store!Loading, Store!Goto, Loads
<1>2. inst.pc = "idle"
  BY <1>1, NobodyInstalls DEF IInv
<1>3. ASSUME NEW b, load' = [load EXCEPT ![l].pc = "loaded", ![l].got = b],
             b = load[l].build \/ (load[l].old /\ b = hit)
      PROVE IInv'
  <2>1. /\ load'[l].pc = "loaded"
        /\ \/ load'[l].got = load'[l].build
           \/ load'[l].old /\ load'[l].got = load'[l].reg[load'[l].ver]
        /\ \A m \in Loaders \ {l} : load'[m] = load[m]
    BY <1>1, <1>3 DEF IInv, Typed, Loads
  <2> QED
    BY <1>1, <1>2, <2>1, Reading, Rests DEF IInv
<1>4. CASE hit # NoFile
  BY <1>1, <1>3, <1>4 DEF Store!Get, IInv, LoadOK, HasBuild
<1>5. CASE hit = NoFile /\ c \notin Store!Missing /\ c.engine = engine
  <2>1. c.build = load[l].build
    <3>1. Current(disk[v]) /\ load[l].build = disk[v].wasm
      BY <1>1 DEF IInv, LoadOK, HasBuild
    <3> QED
      BY <1>5, <3>1 DEF Current
  <2> QED
    BY <1>3, <1>5, <2>1 DEF Store!Get
<1>6. CASE hit = NoFile /\ ~(c \notin Store!Missing /\ c.engine = engine)
  <2>1. load' = [load EXCEPT ![l].pc = "failed"]
    BY <1>6 DEF Store!Get, Store!Goto
  <2>2. load'[l].pc = "failed" /\ \A m \in Loaders \ {l} : load'[m] = load[m]
    BY <1>1, <2>1 DEF IInv, Typed, Loads
  <2> QED
    BY <1>1, <1>2, <2>2, EndsSafe
<1> QED
  BY <1>4, <1>5, <1>6

LEMMA LoadCrashSafe ==
    ASSUME Store!ConstantsOK, RareCrashes, IInv, NEW l \in Loaders, Store!LoadCrash(l), Typed'
    PROVE  IInv'
<1>1. /\ Store!Loading(l) /\ UNCHANGED <<disk, engine, inst, reg, fresh>>
      /\ load' = [load EXCEPT ![l] = Store!IdleLoad]
      /\ count.crashes < env.crashes /\ count'.crashes = count.crashes + 1
  BY DEF IInv, Typed, Store!LoadCrash
<1>2. count.crashes = 0 /\ count'.crashes = 1
  BY <1>1, Deaths DEF IInv
<1>3. load'[l].pc = "idle" /\ \A m \in Loaders \ {l} : load'[m] = load[m]
  BY <1>1 DEF IInv, Typed, Store!IdleLoad
<1>4. inst.pc = "idle"
  BY <1>1, NobodyInstalls DEF IInv
<1> QED
  BY <1>1, <1>2, <1>3, <1>4, EndsSafe

\* What a healing loader writes disturbs no other: it is what this engine makes
\* of the wasm, and keeps the dependencies all of them have read.
LEMMA Heals ==
    ASSUME Store!ConstantsOK, IInv, NEW l \in Loaders, HasBuild(l), Typed',
           UNCHANGED <<engine, inst, reg, fresh, count>>,
           NEW e, disk' = [disk EXCEPT ![load[l].ver] = e],
           e.wasm = disk[load[l].ver].wasm,
           e.cwasm \in {disk[load[l].ver].cwasm, Torn, [build |-> e.wasm, engine |-> engine]},
           e.key \in {disk[load[l].ver].key, Torn,
                      [build |-> e.wasm, engine |-> engine, dep |-> load[l].key.dep]},
           Matching(e) \/ Outdated(e) \/ count.crashes > 0 \/ Healing(load[l].ver)',
           Matching(e) \/ Outdated(e) \/ Current(e),
           NEW p \in {"cwasm", "restamp", "get"}, load' = [load EXCEPT ![l].pc = p],
           p \in {"restamp", "get"} => Current(e),
           p = "get" => Stamped(e, load[l].key.dep)
    PROVE  IInv'
<1> DEFINE v == load[l].ver
           d == disk[v]
<1>1. /\ load[l] \in Loads /\ v \in Versions /\ Store!Loading(l) /\ HasKey(l)
      /\ disk'[v] = e /\ \A w \in Versions \ {v} : disk'[w] = disk[w]
  <2>1. load[l] \in Loads
    BY DEF IInv, Typed
  <2>2. v \in Versions /\ Store!Loading(l) /\ HasKey(l)
    BY <2>1 DEF Loads, Store!Loading, HasBuild, HasKey
  <2> QED
    BY <2>1, <2>2 DEF IInv, Typed
<1>2. /\ load'[l] = [load[l] EXCEPT !.pc = p] /\ load'[l].pc = p /\ load'[l].ver = v
      /\ load'[l].key = load[l].key /\ load'[l].build = load[l].build /\ load'[l].reg = load[l].reg
      /\ load'[l].old = load[l].old
      /\ \A m \in Loaders \ {l} : load'[m] = load[m]
  BY <1>1 DEF IInv, Typed, Loads
<1>3. inst.pc = "idle" /\ \A w : ~Busy(w) /\ ~Stamping(w) /\ ~Busy(w)' /\ ~Stamping(w)'
  <2>1. inst.pc = "idle"
    BY <1>1, NobodyInstalls DEF IInv
  <2> QED
    BY <2>1 DEF Busy, Stamping
<1>4. /\ load[l].reg[v] # NoFile => load[l].old \/ d.wasm = load[l].reg[v]
      /\ d.key \notin Store!Missing => d.key.dep = load[l].key.dep
      /\ load[l].build = d.wasm
  BY <1>1 DEF IInv, LoadOK
<1>e. e.key \notin Store!Missing => e.key.dep = load[l].key.dep
  BY <1>4 DEF Store!Missing
<1>n. engine \in Nat /\ (e.key \notin Store!Missing => e.key.engine <= engine)
  <2>1. engine \in Nat
    BY Numbered DEF IInv, Typed
  <2> QED
    BY <1>1, <2>1 DEF IInv, StoreSafe, Store!Missing
<1>5. StoreSafe'
  <2> SUFFICES ASSUME NEW w \in Versions
               PROVE  /\ \/ Matching(disk'[w]) \/ Outdated(disk'[w]) \/ count.crashes > 0
                         \/ Healing(w)' \/ Stamping(w)'
                      /\ Matching(disk'[w]) \/ Outdated(disk'[w]) \/ Current(disk'[w]) \/ Busy(w)'
                      /\ disk'[w].key \notin Store!Missing => disk'[w].key.engine <= engine
    BY DEF StoreSafe, Matching, Outdated, Current
  <2>1. CASE w = v
    BY <1>1, <1>n, <2>1
  <2>2. CASE w # v
    <3>1. Healing(w) => Healing(w)'
      BY <1>2, <2>2 DEF Healing
    <3> QED
      BY <1>1, <1>3, <2>2, <3>1 DEF IInv, StoreSafe
  <2> QED
    BY <2>1, <2>2
<1>6. Written' /\ Exclusive'
  BY <1>3 DEF Written, Exclusive, Store!Installing
<1>7. Preloaded'
  <2> SUFFICES ASSUME NEW w \in Versions
               PROVE  /\ reg[w] # NoFile /\ fresh => disk'[w].wasm = reg[w]
                      /\ count.crashes = 0 /\ disk'[w].cwasm \notin Store!Missing =>
                            disk'[w].cwasm.build = disk'[w].wasm
    BY <1>3 DEF Preloaded
  <2>1. CASE w = v
    BY <1>1, <1>3, <2>1 DEF IInv, Preloaded, Store!Missing
  <2>2. CASE w # v
    BY <1>1, <1>3, <2>2 DEF IInv, Preloaded
  <2> QED
    BY <2>1, <2>2
<1>8. LoadOK(l)'
  BY <1>1, <1>2, <1>4, <1>e DEF LoadOK, Store!Loading, HasKey, HasBuild, Current, Stamped
<1>9. ASSUME NEW m \in Loaders \ {l} PROVE LoadOK(m)'
  <2>1. CASE load[m].ver # v
    <3>1. disk'[load[m].ver] = disk[load[m].ver] \/ load[m].ver \notin Versions
      BY <1>1, <2>1
    <3>2. load[m].ver \in Versions
      BY DEF IInv, Typed, Loads
    <3> QED
      BY <1>2, <3>1, <3>2 DEF IInv, LoadOK, Store!Loading, HasKey, HasBuild, Current, Stamped
  <2>2. CASE load[m].ver = v
    <3>1. HasKey(m) => load[m].key.dep = load[l].key.dep
      BY <1>1, <2>2 DEF IInv, Agree
    <3>2. load[m].pc \in {"check", "restamp", "get"} /\ Current(d) => Current(e)
      BY DEF Current, Store!Missing
    <3>3. HasKey(m) /\ Stamped(d, load[m].key.dep) => Stamped(e, load[m].key.dep)
      BY <3>1 DEF Stamped, Store!Missing
    <3>4. LoadOK(m)
      BY DEF IInv
    <3>5. load'[m] = load[m] /\ disk'[load[m].ver] = e /\ disk[load[m].ver] = d
      BY <1>1, <1>2, <2>2
    <3> HIDE DEF d
    <3>6. /\ Store!Loading(m) /\ load[m].reg[v] # NoFile =>
                load[m].old \/ d.wasm = load[m].reg[v]
          /\ HasBuild(m) => load[m].build = d.wasm
          /\ load[m].pc = "check" /\ load[m].key.engine = engine /\ load[m].key.build = d.wasm =>
                Current(d) /\ Stamped(d, load[m].key.dep)
          /\ load[m].pc \in {"restamp", "get"} => Current(d)
          /\ load[m].pc = "get" => Stamped(d, load[m].key.dep)
          /\ load[m].pc = "loaded" =>
                load[m].got = load[m].build \/ (load[m].old /\ load[m].got = load[m].reg[v])
      BY <2>2, <3>4, <3>5 DEF LoadOK
    <3>7. e.wasm = d.wasm
      BY DEF d
    <3>8. /\ Store!Loading(m) /\ load[m].reg[v] # NoFile =>
                load[m].old \/ e.wasm = load[m].reg[v]
          /\ HasKey(m) /\ e.key \notin Store!Missing => e.key.dep = load[m].key.dep
          /\ HasBuild(m) => load[m].build = e.wasm
          /\ load[m].pc = "check" /\ load[m].key.engine = engine /\ load[m].key.build = e.wasm =>
                Current(e) /\ Stamped(e, load[m].key.dep)
          /\ load[m].pc \in {"restamp", "get"} => Current(e)
          /\ load[m].pc = "get" => Stamped(e, load[m].key.dep)
          /\ load[m].pc = "loaded" =>
                load[m].got = load[m].build \/ (load[m].old /\ load[m].got = load[m].reg[v])
      BY <1>e, <3>1, <3>2, <3>3, <3>6, <3>7 DEF HasKey
    <3> QED
      BY <2>2, <3>5, <3>8 DEF LoadOK, Store!Loading, HasKey, HasBuild, Current, Stamped
  <2> QED
    BY <2>1, <2>2
<1>10. Agree'
  <2>1. \A m \in Loaders : HasKey(m)' => HasKey(m)
    BY <1>1, <1>2 DEF HasKey
  <2>2. \A m \in Loaders : load'[m].ver = load[m].ver /\ load'[m].key = load[m].key
    BY <1>2
  <2> QED
    BY <2>1, <2>2 DEF IInv, Agree
<1> QED
  BY <1>5, <1>6, <1>7, <1>8, <1>9, <1>10 DEF IInv

\* A file is truncated before it is rewritten.
LEMMA HealTruncateSafe ==
    ASSUME Store!ConstantsOK, IInv, NEW l \in Loaders, Typed',
           Store!HealTruncate(l, "cwasm", "cwasm") \/ Store!HealTruncate(l, "restamp", "key")
    PROVE  IInv'
<1> DEFINE v == load[l].ver
           d == disk[v]
<1>1. load[l] \in Loads /\ v \in Versions /\ d \in Entries /\ disk \in [Versions -> Entries]
      /\ load \in [Loaders -> Loads]
  <2>1. load \in [Loaders -> Loads] /\ disk \in [Versions -> Entries]
    BY DEF IInv, Typed
  <2> QED
    BY <2>1 DEF Loads
<1>2. load' = [load EXCEPT ![l].pc = load[l].pc] /\ UNCHANGED <<engine, inst, reg, fresh, count>>
  BY <1>1 DEF Store!HealTruncate, Loads
<1>3. CASE Store!HealTruncate(l, "cwasm", "cwasm")
  <2> DEFINE e == [d EXCEPT !.cwasm = Torn]
  <2>1. load[l].pc = "cwasm" /\ disk' = [disk EXCEPT ![v] = e]
    BY <1>1, <1>3 DEF Store!HealTruncate, Store!Truncate
  <2>2. e.wasm = d.wasm /\ e.cwasm = Torn /\ e.key = d.key
    BY <1>1 DEF Entries
  <2> HIDE DEF e
  <2>3. Matching(e)
    BY <2>2 DEF Matching, Store!Missing
  <2> QED
    BY <1>1, <1>2, <2>1, <2>2, <2>3, Heals DEF HasBuild
<1>4. CASE Store!HealTruncate(l, "restamp", "key")
  <2> DEFINE e == [d EXCEPT !.key = Torn]
  <2>1. load[l].pc = "restamp" /\ disk' = [disk EXCEPT ![v] = e]
    BY <1>1, <1>4 DEF Store!HealTruncate, Store!Truncate
  <2>2. e.wasm = d.wasm /\ e.cwasm = d.cwasm /\ e.key = Torn
    BY <1>1 DEF Entries
  <2>3. Current(d)
    BY <2>1 DEF IInv, LoadOK
  <2> HIDE DEF e, d
  <2>4. Matching(e) /\ Current(e)
    BY <2>2, <2>3 DEF Matching, Current, Store!Missing
  <2> QED
    BY <1>1, <1>2, <2>1, <2>2, <2>4, Heals DEF HasBuild, d
<1> QED
  BY <1>3, <1>4

\* The new cwasm is of the wasm beside it.
LEMMA HealCwasmSafe ==
    ASSUME Store!ConstantsOK, IInv, NEW l \in Loaders, Store!HealCwasm(l), Typed'
    PROVE  IInv'
<1> DEFINE v == load[l].ver
           d == disk[v]
           e == [d EXCEPT !.cwasm = [build |-> load[l].build, engine |-> engine]]
<1>1. load[l] \in Loads /\ v \in Versions /\ d \in Entries /\ disk \in [Versions -> Entries]
      /\ load \in [Loaders -> Loads]
  <2>1. load \in [Loaders -> Loads] /\ disk \in [Versions -> Entries]
    BY DEF IInv, Typed
  <2> QED
    BY <2>1 DEF Loads
<1>2. /\ load[l].pc = "cwasm" /\ disk' = [disk EXCEPT ![v] = e]
      /\ load' = [load EXCEPT ![l].pc = "restamp"] /\ UNCHANGED <<engine, inst, reg, fresh, count>>
  BY <1>1 DEF Store!HealCwasm, Store!Fill, Store!Goto
<1>3. load[l].build = d.wasm
  BY <1>2 DEF IInv, LoadOK, HasBuild
<1>4. e.wasm = d.wasm /\ e.cwasm = [build |-> d.wasm, engine |-> engine] /\ e.key = d.key
  BY <1>1, <1>3 DEF Entries
<1>5. Healing(v)'
  BY <1>1, <1>2 DEF Healing, Loads
<1> HIDE DEF e, d
<1>6. Current(e)
  BY <1>4 DEF Current
<1> QED
  BY <1>2, <1>4, <1>5, <1>6, Heals DEF HasBuild, d

\* The new key is of the wasm and the cwasm beside it.
LEMMA HealKeySafe ==
    ASSUME Store!ConstantsOK, IInv, NEW l \in Loaders, Store!HealKey(l), Typed'
    PROVE  IInv'
<1> DEFINE v == load[l].ver
           d == disk[v]
           e == [d EXCEPT !.key = Store!Restamped(l)]
<1>1. load[l] \in Loads /\ v \in Versions /\ d \in Entries /\ disk \in [Versions -> Entries]
      /\ load \in [Loaders -> Loads]
  <2>1. load \in [Loaders -> Loads] /\ disk \in [Versions -> Entries]
    BY DEF IInv, Typed
  <2> QED
    BY <2>1 DEF Loads
<1>2. /\ load[l].pc = "restamp" /\ disk' = [disk EXCEPT ![v] = e]
      /\ load' = [load EXCEPT ![l].pc = "get"] /\ UNCHANGED <<engine, inst, reg, fresh, count>>
  BY <1>1 DEF Store!HealKey, Store!Fill, Store!Goto
<1>3. load[l].build = d.wasm /\ Current(d)
  BY <1>2 DEF IInv, LoadOK, HasBuild
<1>4. e.wasm = d.wasm /\ e.cwasm = d.cwasm
      /\ e.key = [build |-> d.wasm, engine |-> engine, dep |-> load[l].key.dep]
  BY <1>1, <1>3 DEF Entries, Store!Restamped
<1> HIDE DEF e, d
<1>5. Current(e) /\ Matching(e) /\ Stamped(e, load[l].key.dep)
  BY <1>3, <1>4 DEF Current, Matching, Stamped
<1> QED
  BY <1>2, <1>4, <1>5, Heals DEF HasBuild, d

-----------------------------------------------------------------------------
LEMMA Inductive == ASSUME Store!ConstantsOK, RareCrashes PROVE Store!Spec => []IInv
<1>1. IInv /\ [Store!Next]_Store!vars => IInv'
  <2> SUFFICES ASSUME IInv, [Store!Next]_Store!vars PROVE IInv'
    OBVIOUS
  <2>0. Typed
    BY DEF IInv
  <2>1. CASE UNCHANGED Store!vars
    BY <2>1 DEF Store!vars, IInv, Typed, Store!Installing, HasKey, HasBuild, StoreSafe, Matching, Outdated,
       Current, Stamped, Busy, Stamping, Healing, Written, Exclusive, Store!Loading, Preloaded,
       LoadOK, Agree
  <2>2. CASE \E v \in Versions, b \in Builds : Store!Install(v, b)
    <3>1. Typed'
      BY <2>0, <2>2, StoreTyped
    <3> QED
      BY <2>2, <3>1, InstallSafe
  <2>3. CASE Store!MakeDirs \/ Store!InstCrash \/ Store!Preload \/ Store!Upgrade
    <3>1. Typed'
      BY <2>0, <2>3, StoreTyped
    <3> QED
      BY <2>3, <3>1, MakeDirsSafe, InstCrashSafe, PreloadSafe, UpgradeSafe
  <2>4. CASE \E file \in {"wasm", "cwasm", "key"} : Store!InstTruncate(file) \/ Store!InstFill(file)
    <3>1. Typed'
      BY <2>0, <2>4, StoreTyped
    <3> QED
      BY <2>4, <3>1, InstTruncateSafe, InstFillSafe
  <2>5. CASE \E b \in Builds : Store!UpdateDep(b)
    <3>1. Typed'
      BY <2>0, <2>5, StoreTyped
    <3> QED
      BY <2>5, <3>1, UpdateDepSafe
  <2>6. ASSUME NEW l \in Loaders, LoaderStep(l) PROVE IInv'
    <3>1. Typed'
      BY <2>0, <2>6, LoaderTyped
    <3> QED
      BY <2>6, <3>1, ForkSafe, ReadKeySafe, CheckCacheSafe, HealTruncateSafe, HealCwasmSafe,
         HealKeySafe, GetSafe, LoadCrashSafe DEF LoaderStep
  <2> QED
    BY <2>1, <2>2, <2>3, <2>4, <2>5, <2>6, StepCases
<1> QED
  BY <1>1, InitSafe, PTL DEF Store!Spec

-----------------------------------------------------------------------------
(* The theorems, for the store beside the other parts.                     *)

\* Whatever part runs, the store goes through one of its own behaviours.
LEMMA StoreImplemented == HostSpec => Store!Spec
<1>1. HostInit => Store!Init
  BY DEF HostInit
<1>2. [HostNext]_hostVars => [Store!Next]_Store!vars
  BY DEF HostNext, OfZygote, OfStore, OfDeps, hostVars, storeVars, Store!vars
<1> QED
  BY <1>1, <1>2, PTL DEF HostSpec, Store!Spec

\* Every variable of the store keeps its type, whatever dies and whatever is
\* preloaded: a loader past the key check holds a whole key, past the hash a
\* whole build.
THEOREM TypeCorrect == HostSpec => []Store!TypeOK
<1>1. Typed => Store!TypeOK
  BY DEF Typed, Store!TypeOK, Entries, Insts, Loads, Registries
<1> QED
  BY <1>1, Constants, StaysTyped, StoreImplemented, PTL

\* A child runs the code that is installed, through every order of installs,
\* host upgrades, preloads and concurrent healing, and through one death.
THEOREM RunsWhatIsInstalled == ASSUME RareCrashes PROVE HostSpec => []LoadedIsInstalled
<1>1. IInv => LoadedIsInstalled
  BY DEF IInv, LoadOK, Store!LoadedIsInstalled, LoadedIsInstalled
<1> QED
  BY <1>1, Constants, Inductive, StoreImplemented, PTL

\* A load that succeeds leaves key, wasm and cwasm in step for the next one.
THEOREM CacheIsFresh == ASSUME RareCrashes PROVE HostSpec => []LoadLeavesCacheFresh
<1>1. IInv => LoadLeavesCacheFresh
  BY DEF IInv, LoadOK, Store!LoadLeavesCacheFresh, LoadLeavesCacheFresh, Current, Stamped
<1> QED
  BY <1>1, Constants, Inductive, StoreImplemented, PTL

=============================================================================
