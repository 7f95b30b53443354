---------------------------- MODULE AppDepsProofs ----------------------------
(***************************************************************************)
(* An app's dependencies: a child that nobody else writes across heals     *)
(* whatever it finds, and an app starts with the dependencies its install  *)
(* resolved, in the directories its manifest lists - for every number of   *)
(* versions, builds, engines, installs, crashes and children, and every    *)
(* manifest.                                                               *)
(***************************************************************************)
EXTENDS AppStoreProofs, SequenceTheorems
-----------------------------------------------------------------------------
(* The dependencies: types.                                                *)

Wants == [kind : {"host", "system", "app"}, range : Nat, iface : BOOLEAN]
Files == Builds \union {NoFile, Torn}
Caches == [build : Builds, engine : Engines] \union {NoFile, Torn}
Packages == [dir : BOOLEAN, wasm : Files, whole : BOOLEAN, cwasm : Caches]
DepRegistries == [Versions -> Builds \union {NoFile}]

\* A resolved dependency: one that is not the host's own is of the package.
Pins == [want : Wants, ver : Nat, build : Files]
Pinned(deps) ==
    /\ deps \in Seq(Pins)
    /\ \A i \in DOMAIN deps : deps[i].want.kind # "host" => deps[i].ver \in Versions

ChildPCs == {"idle", "ready", "failed", "dep", "fetch", "read", "truncate", "fill", "again", "wire"}
Fields == {"pc", "key", "reg", "got", "build", "sound", "why", "grants"}
AtDep(x) == x.pc \in {"fetch", "read", "truncate", "fill", "again"}
AtWork(x) == x.pc \notin {"idle", "ready", "failed"}
DepOf(x) == x.key[Len(x.got) + 1]

\* The components held are those of the first dependencies of the key.
Chosen(deps, got) ==
    /\ Len(got) <= Len(deps)
    /\ \A i \in DOMAIN got : got[i] # NoFile =>
           got[i].ver = deps[i].ver /\ deps[i].want.kind # "host"

IsChild(x) == x = [f \in Fields |-> x[f]]

ChildTyped(x) ==
    /\ IsChild(x)
    /\ x.pc \in ChildPCs /\ Pinned(x.key) /\ x.reg \in DepRegistries
    /\ x.got \in Seq([ver : Nat, build : Builds, engine : Engines] \union {NoFile})
    /\ x.build \in Builds \union {NoFile} /\ x.sound \in BOOLEAN
    /\ AtDep(x) => Len(x.got) + 1 \in DOMAIN x.key /\ DepOf(x).want.kind # "host"
    /\ x.pc \in {"truncate", "fill"} => x.build \in Builds
    /\ Chosen(x.key, x.got)

DepsTyped ==
    /\ setting \in DepSettings
    /\ package \in [Versions -> Packages]
    /\ depEngine \in Engines /\ depReg \in DepRegistries
    /\ writer \in [pc : {"idle", "wasm", "truncate", "fill"}, ver : Versions, build : Builds \union {NoFile}]
    /\ writer.pc # "idle" => writer.build \in Builds
    /\ key = NoFile \/ Pinned(key)
    /\ depCount \in [installs : Nat, crashes : Nat]

(* What a child that nobody disturbed may rely on.                         *)

\* A package that stands has its files, and a cache, if not torn, of its own.
WholeIsThere ==
    \A v \in Versions : package[v].whole =>
        /\ package[v].dir /\ package[v].wasm \in Builds /\ package[v].cwasm # NoFile
        /\ package[v].cwasm # Torn => package[v].cwasm.build = package[v].wasm

\* The installer is past the .wasm.
WriterHasWasm ==
    writer.pc \in {"truncate", "fill"} =>
        package[writer.ver].dir /\ package[writer.ver].wasm = writer.build

\* What a child holds is this host's, and, unless preloaded before, of the package.
Compiled(x) ==
    AtWork(x) => \A i \in DOMAIN x.got : x.got[i] # NoFile => x.got[i].engine = depEngine
UpToDate(x) ==
    \A i \in DOMAIN x.got :
        LET got == x.got[i]
        IN  got # NoFile /\ x.reg[got.ver] \in {NoFile, package[got.ver].wasm}
                => got.build = package[got.ver].wasm

\* What a child has read of the dependency it is at, or written, is there still.
Unharmed(x) ==
    x.sound =>
        /\ AtWork(x) => Deps!Stand(x.key) /\ UpToDate(x)
        /\ x.pc \in {"truncate", "fill"} => x.build = package[DepOf(x).ver].wasm
        /\ x.pc = "again" => Deps!Usable(package[DepOf(x).ver].cwasm)
        /\ x.pc = "failed" => x.why \in {"interface", "clash", "guest"}

Good(x) == ChildTyped(x) /\ Compiled(x) /\ Unharmed(x)

DepsInv ==
    /\ DepsTyped /\ WholeIsThere /\ WriterHasWasm
    /\ DOMAIN child = Loaders /\ child = [c \in Loaders |-> child[c]]
    /\ \A c \in Loaders : Good(child[c])

\* What the assumptions say of the constants.
LEMMA DepsNumbered ==
    ASSUME Deps!ConstantsOK
    PROVE  /\ Cardinality(Versions) \in Nat /\ Versions = 1..Cardinality(Versions)
           /\ 1 \in Versions /\ Engines \subseteq Nat /\ 1 \in Engines
           /\ NoFile # Torn /\ NoFile \notin Loaders
           /\ NoFile \notin Builds /\ Torn \notin Builds
           /\ \A b \in Builds, e \in Engines : [build |-> b, engine |-> e] \notin {NoFile, Torn}
           /\ \A s \in DepSettings :
                 /\ s.children \subseteq Loaders /\ s.wants.deps \in Seq(Wants)
                 /\ s.installs \in Seq([ver : Versions, build : Builds])
<1>1. \A S : Deps!Cardinality(S) = Cardinality(S)
  BY DEF Deps!Cardinality, Cardinality
<1>2. \A S : Deps!IsFiniteSet(S) <=> IsFiniteSet(S)
  BY DEF Deps!IsFiniteSet, IsFiniteSet
<1>3. Versions = 1..Cardinality(Versions) /\ Engines = 1..Cardinality(Engines)
  BY <1>1 DEF Deps!ConstantsOK
<1>4. Cardinality(Versions) \in Nat /\ Engines \subseteq Nat
  <2>1. Store!ConstantsOK
    BY Constants
  <2> QED
    BY <2>1, Numbered
<1>5. /\ 1 \in Versions /\ 1 \in Engines /\ NoFile # Torn /\ NoFile \notin Loaders
      /\ NoFile \notin Builds /\ Torn \notin Builds
      /\ \A s \in DepSettings :
                 /\ s.children \subseteq Loaders /\ s.wants.deps \in Seq(Wants)
                 /\ s.installs \in Seq([ver : Versions, build : Builds])
  BY DEF Deps!ConstantsOK, Wants
<1>6. \A b \in Builds, e \in Engines : [build |-> b, engine |-> e] \notin {NoFile, Torn}
  <2>1. {NoFile, Torn} \intersect [build : Builds, engine : Engines] = {}
    BY DEF Deps!ConstantsOK
  <2> QED
    BY <2>1
<1> QED
  BY <1>3, <1>4, <1>5, <1>6

LEMMA DepsLatestExists ==
    ASSUME Deps!ConstantsOK, Deps!Installed # {}
    PROVE  Deps!Latest \in Versions /\ package[Deps!Latest].dir
<1>1. Cardinality(Versions) \in Nat /\ Deps!Installed \in SUBSET (1..Cardinality(Versions))
  BY DepsNumbered DEF Deps!Installed
<1>2. PICK last \in Deps!Installed : \A w \in Deps!Installed : w <= last
  BY <1>1, Greatest
<1>3. Deps!Latest \in Deps!Installed
  BY <1>2 DEF Deps!Latest
<1> QED
  BY <1>3 DEF Deps!Installed

LEMMA IdleGood ==
    ASSUME Deps!ConstantsOK
    PROVE  /\ ChildTyped(Deps!Idle) /\ Deps!Idle.sound = FALSE
           /\ DOMAIN Deps!Idle = Fields /\ Deps!Idle.got = <<>>
           /\ Compiled(Deps!Idle) /\ Unharmed(Deps!Idle)
<1>1. Pinned(<<>>)
  BY DEF Pinned
<1>2. DOMAIN Deps!Idle = Fields /\ IsChild(Deps!Idle)
  BY DEF Deps!Idle, Fields, IsChild
<1>3. /\ Deps!Idle.pc = "idle" /\ Deps!Idle.key = <<>> /\ Deps!Idle.got = <<>>
      /\ Deps!Idle.reg = [v \in Versions |-> NoFile] /\ Deps!Idle.build = NoFile
      /\ Deps!Idle.sound = FALSE
  BY DEF Deps!Idle
<1>4. [v \in Versions |-> NoFile] \in DepRegistries
  BY DEF DepRegistries
<1>5. Deps!Idle.pc \in ChildPCs /\ ~AtDep(Deps!Idle) /\ Deps!Idle.pc \notin {"truncate", "fill"}
  BY <1>3 DEF ChildPCs, AtDep
<1>6. <<>> \in Seq([ver : Nat, build : Builds, engine : Engines] \union {NoFile})
  OBVIOUS
<1>7. Chosen(<<>>, <<>>)
  BY DEF Chosen
<1>8. ChildTyped(Deps!Idle)
  BY <1>1, <1>2, <1>3, <1>4, <1>5, <1>6, <1>7 DEF ChildTyped
<1>9. Compiled(Deps!Idle) /\ Unharmed(Deps!Idle)
  BY <1>3 DEF Compiled, Unharmed, AtWork
<1> QED
  BY <1>2, <1>3, <1>8, <1>9

LEMMA ItemOf == ASSUME NEW S, NEW s \in Seq(S), NEW i \in DOMAIN s PROVE s[i] \in S
OBVIOUS

\* A step of one child that leaves the package alone.
LEMMA OneChild ==
    ASSUME DepsInv, NEW c \in Loaders, NEW x, child' = [child EXCEPT ![c] = x], Good(x),
           UNCHANGED <<setting, package, depEngine, depReg, writer, key>>,
           depCount' \in [installs : Nat, crashes : Nat]
    PROVE  DepsInv'
<1>1. DOMAIN child' = Loaders /\ child' = [d \in Loaders |-> child'[d]]
  BY DEF DepsInv
<1>2. \A d \in Loaders : child'[d] = IF d = c THEN x ELSE child[d]
  BY DEF DepsInv
<1>3. \A d \in Loaders : Good(child'[d])
  BY <1>2 DEF DepsInv
<1>4. ASSUME NEW d \in Loaders PROVE Good(child[d])'
  <2>1. ChildTyped(child'[d]) /\ Compiled(child'[d]) /\ Unharmed(child'[d])
    BY <1>3 DEF Good
  <2>2. Compiled(child[d])'
    BY <2>1 DEF Compiled, AtWork
  <2>3. Unharmed(child[d])'
    BY <2>1 DEF Unharmed, Deps!Stand, Deps!Usable, DepOf, AtWork, UpToDate
  <2> QED
    BY <2>1, <2>2, <2>3 DEF Good
<1>5. DepsTyped' /\ WholeIsThere' /\ WriterHasWasm'
  BY DEF DepsInv, DepsTyped, WholeIsThere, WriterHasWasm, Pinned
<1> QED
  BY <1>1, <1>4, <1>5 DEF DepsInv

\* What a child's record becomes at the ends of a load, and along it.
LEMMA EndGood ==
    ASSUME Deps!ConstantsOK, NEW sound \in BOOLEAN, NEW why, sound => why \in {"interface", "clash", "guest"}
    PROVE  Good([Deps!Idle EXCEPT !.pc = "failed", !.why = why, !.sound = sound])
<1> DEFINE x == [Deps!Idle EXCEPT !.pc = "failed", !.why = why, !.sound = sound]
<1>1. /\ x.pc = "failed" /\ x.why = why /\ x.sound = sound /\ IsChild(x)
      /\ x.key = Deps!Idle.key /\ x.reg = Deps!Idle.reg /\ x.got = Deps!Idle.got
      /\ x.build = Deps!Idle.build
  BY IdleGood DEF Fields, IsChild
<1> HIDE DEF x
<1>2. ChildTyped(x)
  BY <1>1, IdleGood DEF ChildTyped, ChildPCs, AtDep
<1>3. Unharmed(x) /\ Compiled(x)
  BY <1>1 DEF Unharmed, AtWork, Compiled
<1> QED
  BY <1>2, <1>3 DEF Good, x

LEMMA ReadyGood ==
    ASSUME Deps!ConstantsOK, NEW p \in {"ready", "wire"}, NEW grants
    PROVE  /\ Good([Deps!Idle EXCEPT !.pc = p, !.grants = grants])
           /\ Good([Deps!Idle EXCEPT !.pc = p]) /\ Good(Deps!Idle)
<1>1. ASSUME NEW x, x \in {[Deps!Idle EXCEPT !.pc = p, !.grants = grants], [Deps!Idle EXCEPT !.pc = p]}
      PROVE  Good(x)
  <2>1. /\ x.pc = p /\ x.sound = FALSE /\ IsChild(x)
        /\ x.key = Deps!Idle.key /\ x.reg = Deps!Idle.reg /\ x.got = Deps!Idle.got
        /\ x.build = Deps!Idle.build
    BY <1>1, IdleGood DEF Fields, IsChild
  <2>2. ChildTyped(x)
    BY <2>1, IdleGood DEF ChildTyped, ChildPCs, AtDep
  <2>3. Compiled(x)
    BY <2>1, IdleGood DEF Compiled
  <2> QED
    BY <2>1, <2>2, <2>3 DEF Good, Unharmed
<1>2. Good(Deps!Idle)
  BY IdleGood DEF Good
<1> QED
  BY <1>1, <1>2

\* A child goes to another place of the dependency it is at.
LEMMA MovedGood ==
    ASSUME Deps!ConstantsOK, NEW x, Good(x), AtWork(x), AtDep(x) \/ Len(x.got) + 1 \in DOMAIN x.key,
           AtDep(x) \/ DepOf(x).want.kind # "host",
           NEW p \in ChildPCs, p \in {"fetch", "read", "truncate", "fill", "again"},
           NEW b \in Builds \union {NoFile}, p \in {"truncate", "fill"} => b \in Builds,
           x.sound /\ p \in {"truncate", "fill"} => b = package[DepOf(x).ver].wasm,
           x.sound /\ p = "again" => Deps!Usable(package[DepOf(x).ver].cwasm)
    PROVE  Good([x EXCEPT !.pc = p, !.build = b])
<1> DEFINE y == [x EXCEPT !.pc = p, !.build = b]
<1>1. IsChild(x)
  BY DEF Good, ChildTyped
<1>2. /\ y.pc = p /\ y.build = b /\ IsChild(y) /\ y.key = x.key /\ y.reg = x.reg
      /\ y.got = x.got /\ y.sound = x.sound
  BY <1>1 DEF Fields, IsChild
<1> HIDE DEF y
<1>3. DepOf(y) = DepOf(x) /\ AtWork(y)
  BY <1>2 DEF DepOf, AtWork
<1>4. ChildTyped(y)
  BY <1>2, <1>3 DEF Good, ChildTyped, AtDep
<1>5. UpToDate(x) => UpToDate(y)
  BY <1>2 DEF UpToDate
<1>6. Unharmed(y)
  BY <1>2, <1>3, <1>5 DEF Good, Unharmed
<1>7. Compiled(y)
  BY <1>2, <1>3 DEF Good, Compiled
<1> QED
  BY <1>4, <1>6, <1>7 DEF Good, y

LEMMA GotGood ==
    ASSUME NEW x, Good(x), AtWork(x),
           Len(x.got) + 1 \in DOMAIN x.key,
           NEW cwasm \in [ver : Nat, build : Builds, engine : Engines] \union {NoFile},
           cwasm # NoFile =>
               /\ cwasm.ver = DepOf(x).ver /\ DepOf(x).want.kind # "host" /\ cwasm.engine = depEngine
               /\ x.sound /\ x.reg[cwasm.ver] \in {NoFile, package[cwasm.ver].wasm}
                      => cwasm.build = package[cwasm.ver].wasm
    PROVE  Good([x EXCEPT !.pc = "dep", !.build = NoFile, !.got = Append(@, cwasm)])
<1> DEFINE y == [x EXCEPT !.pc = "dep", !.build = NoFile, !.got = Append(@, cwasm)]
<1>1. IsChild(x)
  BY DEF Good, ChildTyped
<1>2. /\ y.pc = "dep" /\ y.build = NoFile /\ IsChild(y) /\ y.key = x.key /\ y.reg = x.reg
      /\ y.got = Append(x.got, cwasm) /\ y.sound = x.sound
  BY <1>1 DEF Fields, IsChild
<1> HIDE DEF y
<1>3. /\ Len(x.got) \in Nat /\ Len(y.got) = Len(x.got) + 1 /\ DOMAIN y.got = 1..Len(x.got) + 1
      /\ \A i \in 1..Len(x.got) : i \in DOMAIN x.got /\ y.got[i] = x.got[i]
      /\ y.got[Len(x.got) + 1] = cwasm
      /\ y.got \in Seq([ver : Nat, build : Builds, engine : Engines] \union {NoFile})
  BY <1>2 DEF Good, ChildTyped
<1>4. Chosen(y.key, y.got)
  <2>1. Chosen(x.key, x.got) /\ Len(x.key) \in Nat /\ DOMAIN x.key = 1..Len(x.key)
    BY DEF Good, ChildTyped, Pinned
  <2>2. Len(y.got) <= Len(y.key)
    BY <1>2, <1>3, <2>1
  <2> QED
    BY <1>2, <1>3, <2>1, <2>2 DEF Chosen, DepOf
<1>5. ChildTyped(y)
  BY <1>2, <1>3, <1>4 DEF Good, ChildTyped, AtDep, ChildPCs
<1>6. Compiled(y)
  BY <1>2, <1>3 DEF Good, Compiled
<1>7. ASSUME x.sound PROVE UpToDate(y)
  <2>1. UpToDate(x)
    BY <1>7 DEF Good, Unharmed
  <2> QED
    BY <1>2, <1>3, <1>7, <2>1 DEF UpToDate
<1>8. Unharmed(y)
  BY <1>2, <1>7 DEF Good, Unharmed, AtWork
<1> QED
  BY <1>5, <1>6, <1>8 DEF Good, y

\* What a sound child finds of the dependency it is at.
LEMMA SoundFinds ==
    ASSUME Deps!ConstantsOK, DepsInv, NEW c \in Loaders, AtWork(child[c]), child[c].sound,
           Len(child[c].got) + 1 \in DOMAIN child[c].key, DepOf(child[c]).want.kind # "host"
    PROVE  LET p == package[DepOf(child[c]).ver]
           IN  /\ p.whole /\ p.dir /\ p.wasm \in Builds /\ p.cwasm # NoFile
               /\ Deps!Usable(p.cwasm) => p.cwasm.build = p.wasm
<1>1. Good(child[c])
  BY DEF DepsInv
<1>2. DepOf(child[c]).ver \in Versions
  BY <1>1 DEF Good, ChildTyped, Pinned, DepOf
<1>3. package[DepOf(child[c]).ver].whole
  BY <1>1 DEF Good, Unharmed, Deps!Stand, DepOf
<1> QED
  BY <1>2, <1>3 DEF DepsInv, WholeIsThere, Deps!Usable

\* The steps of a child.
LEMMA LoadKeepsGood ==
    ASSUME Deps!ConstantsOK, DepsInv, NEW c \in Loaders,
           \/ Deps!Fork(c) \/ Deps!CheckDep(c) \/ Deps!FetchDep(c) \/ Deps!ReadDep(c)
           \/ Deps!FetchAgain(c) \/ Deps!DepsLoaded(c)
           \/ \E loads \in {<<FALSE>>, <<FALSE, TRUE>>} : Deps!LoadDev(c, loads)
           \/ \E traps \in BOOLEAN : Deps!Instantiate(c, traps)
    PROVE  DepsInv'
<1> DEFINE x == child[c]
<1>1. /\ Good(x) /\ ChildTyped(x) /\ Compiled(x) /\ Unharmed(x) /\ IsChild(x)
      /\ x.sound \in BOOLEAN
  BY DEF DepsInv, Good, ChildTyped
<1>2. UNCHANGED <<setting, package, depEngine, depReg, writer, key, depCount>>
  BY DEF Deps!Fork, Deps!CheckDep, Deps!FetchDep, Deps!ReadDep, Deps!FetchAgain, Deps!DepsLoaded,
         Deps!LoadDev, Deps!Instantiate, Deps!Leave
<1>counts. depCount' \in [installs : Nat, crashes : Nat]
  BY <1>2 DEF DepsInv, DepsTyped
<1> SUFFICES ASSUME TRUE PROVE \E y : Good(y) /\ child' = [child EXCEPT ![c] = y]
  BY <1>2, <1>counts, OneChild
<1>fail. ASSUME NEW why, Deps!Fail(c, why), x.sound => why \in {"interface", "clash", "guest"}
         PROVE  \E y : Good(y) /\ child' = [child EXCEPT ![c] = y]
  BY <1>1, <1>fail, EndGood DEF Deps!Fail, Deps!Set
<1>got. ASSUME NEW cwasm \in [ver : Nat, build : Builds, engine : Engines] \union {NoFile},
               Deps!Got(c, cwasm), AtWork(x), Len(x.got) + 1 \in DOMAIN x.key,
               cwasm # NoFile =>
                   /\ cwasm.ver = DepOf(x).ver /\ DepOf(x).want.kind # "host"
                   /\ cwasm.engine = depEngine
                   /\ x.sound /\ x.reg[cwasm.ver] \in {NoFile, package[cwasm.ver].wasm}
                          => cwasm.build = package[cwasm.ver].wasm
        PROVE  \E y : Good(y) /\ child' = [child EXCEPT ![c] = y]
  BY <1>1, <1>got, GotGood DEF Deps!Got, Deps!Set
<1>at. ASSUME AtDep(x)
       PROVE  /\ AtWork(x) /\ Deps!Dep(c) = DepOf(x) /\ Deps!Pinned(c) = DepOf(x).ver
              /\ DepOf(x).ver \in Versions /\ package[DepOf(x).ver] \in Packages
              /\ Len(x.got) + 1 \in DOMAIN x.key /\ DepOf(x).want.kind # "host"
  <2>1. Len(x.got) + 1 \in DOMAIN x.key /\ DepOf(x).want.kind # "host"
    BY <1>1, <1>at DEF ChildTyped
  <2>2. DepOf(x).ver \in Versions
    BY <1>1, <2>1 DEF ChildTyped, Pinned, DepOf
  <2>3. package[DepOf(x).ver] \in Packages
    BY <2>2 DEF DepsInv, DepsTyped
  <2> QED
    BY <1>at, <2>1, <2>2, <2>3 DEF AtDep, AtWork, Deps!Dep, Deps!Pinned, DepOf
<1>3. CASE Deps!Fork(c)
  <2> DEFINE y == [Deps!Idle EXCEPT !.pc = "dep", !.key = key, !.reg = depReg, !.sound = Deps!Stand(key)]
  <2>1. /\ y.pc = "dep" /\ y.key = key /\ y.reg = depReg /\ y.sound = Deps!Stand(key) /\ IsChild(y)
        /\ y.got = Deps!Idle.got /\ y.build = Deps!Idle.build
    BY IdleGood DEF Fields, IsChild
  <2>2. Deps!Stand(key) \in BOOLEAN
    BY DEF Deps!Stand
  <2>3. child' = [child EXCEPT ![c] = y] /\ Pinned(key) /\ depReg \in DepRegistries
    BY <1>3 DEF Deps!Fork, Deps!Set, DepsInv, DepsTyped
  <2> HIDE DEF y
  <2>got. y.got = <<>> /\ Chosen(y.key, y.got)
    <3>1. y.got = <<>> /\ y.key \in Seq(Pins)
      BY <2>1, <2>3, IdleGood DEF Pinned
    <3> QED
      BY <3>1 DEF Chosen
  <2>4. ChildTyped(y) /\ Compiled(y)
    BY <2>1, <2>2, <2>3, <2>got, IdleGood DEF ChildTyped, ChildPCs, AtDep, Compiled
  <2>5. Unharmed(y)
    BY <2>1, <2>got DEF Unharmed, AtWork, UpToDate
  <2> QED
    BY <2>3, <2>4, <2>5 DEF Good
<1>4. CASE \E loads \in {<<FALSE>>, <<FALSE, TRUE>>} : Deps!LoadDev(c, loads)
  <2>1. CASE Deps!Set(c, [Deps!Idle EXCEPT !.pc = "wire"])
    BY <2>1, ReadyGood DEF Deps!Set
  <2>2. CASE Deps!Set(c, [Deps!Idle EXCEPT !.pc = "failed", !.why = "missing"])
    <3> DEFINE z == [Deps!Idle EXCEPT !.pc = "failed", !.why = "missing"]
               y == [Deps!Idle EXCEPT !.pc = "failed", !.why = "missing", !.sound = FALSE]
    <3>1. z = y
      BY IdleGood DEF Fields, IsChild, Deps!Idle
    <3>2. Good(y)
      BY EndGood
    <3> QED
      BY <2>2, <3>1, <3>2 DEF Deps!Set
  <2> QED
    BY <1>4, <2>1, <2>2 DEF Deps!LoadDev
<1>5. CASE Deps!CheckDep(c)
  <2> DEFINE p == package[Deps!Dep(c).ver]
  <2>1. x.pc = "dep" /\ Len(x.got) < Len(x.key) /\ AtWork(x)
    BY <1>5 DEF Deps!CheckDep, AtWork
  <2>2. Len(x.got) + 1 \in DOMAIN x.key /\ Deps!Dep(c) = DepOf(x)
    BY <1>1, <2>1 DEF ChildTyped, Pinned, Deps!Dep, DepOf
  <2>3. CASE ~Deps!Dep(c).want.iface
    BY <1>5, <2>3, <1>fail DEF Deps!CheckDep
  <2>4. CASE Deps!Dep(c).want.iface /\ Deps!Dep(c).want.kind = "host"
    <3>1. Deps!Got(c, NoFile)
      BY <1>5, <2>4 DEF Deps!CheckDep
    <3> QED
      BY <2>1, <2>2, <3>1, <1>got
  <2>5. CASE Deps!Dep(c).want.iface /\ Deps!Dep(c).want.kind # "host" /\ (~p.dir \/ p.wasm = NoFile)
    <3>1. Deps!Fail(c, "missing")
      BY <1>5, <2>5 DEF Deps!CheckDep
    <3>2. ~x.sound
      BY <2>1, <2>2, <2>5, SoundFinds, DepsNumbered
    <3> QED
      BY <1>1, <3>1, <3>2, <1>fail
  <2>6. CASE Deps!Dep(c).want.iface /\ Deps!Dep(c).want.kind # "host" /\ ~(~p.dir \/ p.wasm = NoFile)
    <3> DEFINE y == [x EXCEPT !.pc = "fetch"]
    <3>1. child' = [child EXCEPT ![c] = y]
      BY <1>5, <2>6 DEF Deps!CheckDep, Deps!Goto, Deps!Set
    <3>2. y = [x EXCEPT !.pc = "fetch", !.build = x.build]
      BY <1>1 DEF IsChild, Fields
    <3>3. Good([x EXCEPT !.pc = "fetch", !.build = x.build])
      BY <1>1, <2>1, <2>2, <2>6, MovedGood DEF ChildPCs, ChildTyped
    <3> QED
      BY <3>1, <3>2, <3>3
  <2> QED
    BY <2>3, <2>4, <2>5, <2>6
<1>6. CASE Deps!FetchDep(c)
  <2> DEFINE cwasm == package[DepOf(x).ver].cwasm
             hit == x.reg[DepOf(x).ver]
             got(b) == [ver |-> DepOf(x).ver, build |-> b, engine |-> depEngine]
  <2>1. AtDep(x)
    BY <1>6 DEF Deps!FetchDep, AtDep
  <2>2. DepOf(x).ver \in Nat /\ depEngine \in Engines
    BY <2>1, <1>at, DepsNumbered DEF DepsInv, DepsTyped
  <2>3. CASE cwasm = NoFile
    <3>1. Deps!Fail(c, "missing")
      BY <1>6, <1>at, <2>1, <2>3 DEF Deps!FetchDep
    <3>2. ~x.sound
      BY <1>at, <2>1, <2>3, SoundFinds
    <3> QED
      BY <1>1, <3>1, <3>2, <1>fail
  <2>4. CASE cwasm # NoFile /\ hit # NoFile
    <3>1. Deps!Got(c, got(hit))
      BY <1>6, <1>at, <2>1, <2>4 DEF Deps!FetchDep
    <3>2. hit \in Builds
      BY <1>1, <1>at, <2>1, <2>4 DEF ChildTyped, DepRegistries
    <3>3. got(hit).ver = DepOf(x).ver /\ got(hit).engine = depEngine /\ got(hit).build = x.reg[DepOf(x).ver]
      OBVIOUS
    <3>4. got(hit) \in [ver : Nat, build : Builds, engine : Engines]
      BY <2>2, <3>2
    <3> HIDE DEF got
    <3> QED
      BY <1>at, <2>1, <2>4, <3>1, <3>3, <3>4, <1>got
  <2>5. CASE cwasm # NoFile /\ hit = NoFile /\ Deps!Usable(cwasm)
    <3>1. Deps!Got(c, got(cwasm.build))
      BY <1>6, <1>at, <2>1, <2>5 DEF Deps!FetchDep
    <3>2. cwasm.build \in Builds
      BY <1>at, <2>1, <2>5 DEF Packages, Caches, Deps!Usable
    <3>3. /\ got(cwasm.build).ver = DepOf(x).ver /\ got(cwasm.build).engine = depEngine
          /\ got(cwasm.build).build = cwasm.build
      OBVIOUS
    <3>4. got(cwasm.build) \in [ver : Nat, build : Builds, engine : Engines]
      BY <2>2, <3>2
    <3>5. x.sound => cwasm.build = package[DepOf(x).ver].wasm
      BY <1>at, <2>1, <2>5, SoundFinds
    <3> HIDE DEF got, cwasm
    <3> QED
      BY <1>at, <2>1, <3>1, <3>3, <3>4, <3>5, <1>got
  <2>6. CASE cwasm # NoFile /\ hit = NoFile /\ ~Deps!Usable(cwasm)
    <3> DEFINE y == [x EXCEPT !.pc = "read"]
    <3>1. child' = [child EXCEPT ![c] = y]
      BY <1>6, <1>at, <2>1, <2>6 DEF Deps!FetchDep, Deps!Goto, Deps!Set, Deps!Heals
    <3>2. y = [x EXCEPT !.pc = "read", !.build = x.build]
      BY <1>1 DEF IsChild, Fields
    <3>3. Good([x EXCEPT !.pc = "read", !.build = x.build])
      BY <1>1, <2>1, <1>at, MovedGood DEF ChildPCs, ChildTyped
    <3> QED
      BY <3>1, <3>2, <3>3
  <2> QED
    BY <2>3, <2>4, <2>5, <2>6
<1>7. CASE Deps!ReadDep(c)
  <2> DEFINE wasm == package[DepOf(x).ver].wasm
  <2>1. AtDep(x)
    BY <1>7 DEF Deps!ReadDep, AtDep
  <2>2. CASE wasm \in {NoFile, Torn}
    <3>1. Deps!Fail(c, "missing")
      BY <1>7, <1>at, <2>1, <2>2 DEF Deps!ReadDep
    <3>2. ~x.sound
      BY <1>at, <2>1, <2>2, SoundFinds, DepsNumbered
    <3> QED
      BY <1>1, <3>1, <3>2, <1>fail
  <2>3. CASE wasm \notin {NoFile, Torn}
    <3>1. child' = [child EXCEPT ![c] = [x EXCEPT !.pc = "truncate", !.build = wasm]]
      BY <1>7, <1>at, <2>1, <2>3 DEF Deps!ReadDep, Deps!Set
    <3>2. wasm \in Builds
      BY <1>at, <2>1, <2>3 DEF Packages, Files
    <3>3. Good([x EXCEPT !.pc = "truncate", !.build = wasm])
      BY <1>1, <2>1, <1>at, <3>2, MovedGood DEF ChildPCs
    <3> QED
      BY <3>1, <3>3
  <2> QED
    BY <2>2, <2>3
<1>8. CASE Deps!FetchAgain(c)
  <2> DEFINE cwasm == package[DepOf(x).ver].cwasm
             got == [ver |-> DepOf(x).ver, build |-> cwasm.build, engine |-> depEngine]
  <2>1. AtDep(x) /\ x.pc = "again"
    BY <1>8 DEF Deps!FetchAgain, AtDep
  <2>2. DepOf(x).ver \in Nat /\ depEngine \in Engines
    BY <2>1, <1>at, DepsNumbered DEF DepsInv, DepsTyped
  <2>3. CASE Deps!Usable(cwasm)
    <3>1. Deps!Got(c, got)
      BY <1>8, <1>at, <2>1, <2>3 DEF Deps!FetchAgain
    <3>2. cwasm.build \in Builds
      BY <1>at, <2>1, <2>3 DEF Packages, Caches, Deps!Usable
    <3>3. got.ver = DepOf(x).ver /\ got.engine = depEngine /\ got.build = cwasm.build
      OBVIOUS
    <3>4. got \in [ver : Nat, build : Builds, engine : Engines]
      BY <2>2, <3>2
    <3>5. x.sound => cwasm.build = package[DepOf(x).ver].wasm
      BY <1>at, <2>1, <2>3, SoundFinds
    <3> HIDE DEF got, cwasm
    <3> QED
      BY <1>at, <2>1, <3>1, <3>3, <3>4, <3>5, <1>got
  <2>4. CASE ~Deps!Usable(cwasm)
    <3>1. Deps!Fail(c, "torn")
      BY <1>8, <1>at, <2>1, <2>4 DEF Deps!FetchAgain
    <3>2. ~x.sound
      BY <1>1, <2>1, <2>4 DEF Unharmed
    <3> QED
      BY <1>1, <3>1, <3>2, <1>fail
  <2> QED
    BY <2>3, <2>4
<1>9. CASE Deps!DepsLoaded(c)
  <2> DEFINE y == [x EXCEPT !.pc = "wire", !.grants = Deps!Grants]
  <2>1. x.pc = "dep" /\ child' = [child EXCEPT ![c] = y]
    BY <1>9 DEF Deps!DepsLoaded, Deps!Set
  <2>2. /\ y.pc = "wire" /\ y.build = x.build /\ IsChild(y) /\ y.key = x.key /\ y.reg = x.reg
        /\ y.got = x.got /\ y.sound = x.sound
    BY <1>1 DEF Fields, IsChild
  <2> HIDE DEF y
  <2>3. ChildTyped(y) /\ Compiled(y)
    BY <1>1, <2>1, <2>2 DEF ChildTyped, AtDep, ChildPCs, Compiled, AtWork
  <2>4. Unharmed(y)
    BY <1>1, <2>1, <2>2 DEF Unharmed, AtWork, UpToDate
  <2> QED
    BY <2>1, <2>3, <2>4 DEF Good
<1>10. CASE \E traps \in BOOLEAN : Deps!Instantiate(c, traps)
  <2>1. CASE Deps!Fail(c, "clash") \/ Deps!Fail(c, "guest")
    BY <2>1, <1>fail
  <2>2. CASE Deps!Run(c)
    BY <2>2, ReadyGood DEF Deps!Run, Deps!Set
  <2> QED
    BY <1>10, <2>1, <2>2 DEF Deps!Instantiate
<1> QED
  BY <1>3, <1>4, <1>5, <1>6, <1>7, <1>8, <1>9, <1>10

\* A record that relies on no file.
Settled(x) ==
    /\ ChildTyped(x)
    /\ x.sound => ~AtWork(x) /\ (x.pc = "failed" => x.why \in {"interface", "clash", "guest"})

LEMMA SettledGood ==
    ASSUME NEW c, Settled(child'[c]), Compiled(child'[c]), depEngine' = depEngine \/ ~AtWork(child'[c])
    PROVE  Good(child[c])'
<1>1. Unharmed(child[c])'
  BY DEF Settled, Unharmed, AtWork
<1>2. Compiled(child[c])'
  BY DEF Compiled, AtWork
<1> QED
  BY <1>1, <1>2 DEF Settled, Good

\* What a write leaves of those it disturbs.
LEMMA DisturbedSettled ==
    ASSUME DepsInv, NEW by, NEW c \in Loaders, c # by
    PROVE  Settled(Deps!Disturbed(by)[c]) /\ Compiled(Deps!Disturbed(by)[c])
<1> DEFINE y == [child[c] EXCEPT !.sound = FALSE]
<1>1. Good(child[c]) /\ ChildTyped(child[c]) /\ IsChild(child[c])
  BY DEF DepsInv, Good, ChildTyped
<1>2. CASE AtWork(child[c])
  <2>1. Deps!Disturbed(by)[c] = y
    BY <1>2 DEF Deps!Disturbed, Deps!Loading, AtWork
  <2>2. /\ y.pc = child[c].pc /\ y.key = child[c].key /\ y.reg = child[c].reg /\ y.got = child[c].got
        /\ y.build = child[c].build /\ y.sound = FALSE /\ IsChild(y)
    BY <1>1 DEF IsChild, Fields
  <2> HIDE DEF y
  <2>3. ChildTyped(y)
    BY <1>1, <2>2 DEF ChildTyped, AtDep, DepOf
  <2>4. Compiled(y)
    BY <1>1, <2>2 DEF Good, Compiled, AtWork
  <2> QED
    BY <2>1, <2>2, <2>3, <2>4 DEF Settled
<1>3. CASE ~AtWork(child[c])
  <2>1. Deps!Disturbed(by)[c] = child[c]
    BY <1>3 DEF Deps!Disturbed, Deps!Loading, AtWork
  <2> QED
    BY <1>1, <1>3, <2>1 DEF Settled, Good, Unharmed
<1> QED
  BY <1>2, <1>3

\* A step that disturbs every child, or starts it over.
LEMMA ManyChildren ==
    ASSUME Deps!ConstantsOK, DepsInv,
           \/ child' = Deps!Disturbed(NoFile) /\ UNCHANGED depEngine
           \/ child' = [c \in Loaders |-> Deps!Idle]
           \/ UNCHANGED <<package, depEngine, child>>
           \/ UNCHANGED <<package, depEngine>> /\ \E c \in Loaders : child' = [child EXCEPT ![c] = Deps!Idle]
    PROVE  /\ DOMAIN child' = Loaders /\ child' = [c \in Loaders |-> child'[c]]
           /\ \A c \in Loaders : Good(child[c])'
<1>1. CASE child' = Deps!Disturbed(NoFile) /\ UNCHANGED depEngine
  <2>1. DOMAIN child' = Loaders /\ child' = [c \in Loaders |-> child'[c]]
    BY <1>1 DEF Deps!Disturbed
  <2>2. \A c \in Loaders : Settled(child'[c]) /\ Compiled(child'[c])
    BY <1>1, DisturbedSettled, DepsNumbered
  <2> QED
    BY <1>1, <2>1, <2>2, SettledGood
<1>2. CASE child' = [c \in Loaders |-> Deps!Idle]
  <2>1. DOMAIN child' = Loaders /\ child' = [c \in Loaders |-> child'[c]]
    BY <1>2
  <2>2. \A c \in Loaders : Settled(child'[c]) /\ Compiled(child'[c]) /\ ~AtWork(child'[c])
    BY <1>2, IdleGood DEF Settled, Compiled, AtWork, Deps!Idle
  <2> QED
    BY <2>1, <2>2, SettledGood
<1>same. ASSUME UNCHANGED <<package, depEngine>>, NEW c \in Loaders, child'[c] = child[c]
         PROVE  Good(child[c])'
  <2>1. ChildTyped(child'[c]) /\ Compiled(child[c]) /\ Unharmed(child[c])
    BY <1>same DEF DepsInv, Good
  <2>2. Unharmed(child[c])'
    BY <1>same, <2>1 DEF Unharmed, Deps!Stand, Deps!Usable, DepOf, AtWork, UpToDate
  <2>3. Compiled(child[c])'
    BY <1>same, <2>1 DEF Compiled, AtWork
  <2> QED
    BY <2>1, <2>2, <2>3 DEF Good
<1>3. CASE UNCHANGED <<package, depEngine, child>>
  BY <1>3, <1>same DEF DepsInv
<1>4. ASSUME UNCHANGED <<package, depEngine>>, NEW c \in Loaders, child' = [child EXCEPT ![c] = Deps!Idle]
      PROVE  /\ DOMAIN child' = Loaders /\ child' = [d \in Loaders |-> child'[d]]
             /\ \A d \in Loaders : Good(child[d])'
  <2>1. DOMAIN child' = Loaders /\ child' = [d \in Loaders |-> child'[d]]
    BY <1>4 DEF DepsInv
  <2>2. Good(child[c])'
    <3>1. child'[c] = Deps!Idle
      BY <1>4 DEF DepsInv
    <3> QED
      BY <1>4, <3>1, IdleGood, SettledGood DEF Settled
  <2>3. \A d \in Loaders \ {c} : Good(child[d])'
    BY <1>4, <1>same DEF DepsInv
  <2> QED
    BY <2>1, <2>2, <2>3
<1> QED
  BY <1>1, <1>2, <1>3, <1>4

\* The installers, the zygote and the crashes.
LEMMA PackageKeepsGood ==
    ASSUME Deps!ConstantsOK, DepsInv,
           \/ Deps!InstallApp \/ \E v \in Versions : Deps!Uninstall(v)
           \/ Deps!InstallPackage \/ Deps!WritePackage \/ Deps!Crash \/ Deps!Preload \/ Deps!Upgrade
    PROVE  DepsInv'
<1>0. DepsTyped /\ WholeIsThere /\ WriterHasWasm
  BY DEF DepsInv
<1>idle. /\ Deps!IdleWriter \in [pc : {"idle", "wasm", "truncate", "fill"}, ver : Versions, build : Builds \union {NoFile}]
         /\ Deps!IdleWriter.pc = "idle"
  BY DepsNumbered DEF Deps!IdleWriter
<1>children. DOMAIN child' = Loaders /\ child' = [c \in Loaders |-> child'[c]] /\ \A c \in Loaders : Good(child[c])'
  <2>1. CASE \/ \E v \in Versions : Deps!Uninstall(v)
             \/ Deps!InstallPackage \/ Deps!WritePackage
    <3>1. child' = Deps!Disturbed(NoFile) /\ UNCHANGED depEngine
      BY <2>1 DEF Deps!Uninstall, Deps!InstallPackage, Deps!WritePackage, Deps!Write
    <3> QED
      BY <3>1, ManyChildren
  <2>2. CASE Deps!InstallApp \/ Deps!Preload
    <3>1. UNCHANGED <<package, depEngine, child>>
      BY <2>2 DEF Deps!InstallApp, Deps!Preload
    <3> QED
      BY <3>1, ManyChildren
  <2>3. CASE Deps!Crash
    <3>1. CASE UNCHANGED <<package, depEngine, child>>
      BY <3>1, ManyChildren
    <3>2. CASE UNCHANGED <<package, depEngine>> /\ \E c \in Loaders : child' = [child EXCEPT ![c] = Deps!Idle]
      BY <3>2, ManyChildren
    <3> QED
      BY <2>3, <3>1, <3>2 DEF Deps!Crash
  <2>4. CASE Deps!Upgrade
    <3>1. child' = [c \in Loaders |-> Deps!Idle]
      BY <2>4 DEF Deps!Upgrade
    <3> QED
      BY <3>1, ManyChildren
  <2> QED
    BY <2>1, <2>2, <2>3, <2>4
<1>1. CASE Deps!InstallApp
  <2> DEFINE deps == setting.wants.deps
  <2>1. deps \in Seq(Wants)
    BY <1>0, DepsNumbered DEF DepsTyped
  <2>2. ASSUME NEW i \in DOMAIN deps
        PROVE  /\ Deps!Resolved(deps[i]) \in Pins /\ Deps!Resolved(deps[i]).want = deps[i]
               /\ deps[i].kind # "host" => Deps!Resolved(deps[i]).ver \in Versions
    <3>1. deps[i] \in Wants
      BY <2>1
    <3>2. CASE deps[i].kind = "host"
      BY <3>1, <3>2 DEF Deps!Resolved, Pins, Files
    <3>3. CASE deps[i].kind # "host"
      <4> DEFINE ver == Deps!PickVersion(deps[i])
      <4>1. Deps!Matches(deps[i]) # {}
        BY <1>1, <3>3 DEF Deps!InstallApp, Deps!Resolvable
      <4>2. PICK v \in Versions : package[v].dir /\ deps[i].range \in {Deps!Star, v}
        BY <4>1 DEF Deps!Matches, Deps!Installed
      <4>3. ver \in Versions
        BY <4>2, DepsLatestExists DEF Deps!PickVersion, Deps!Installed
      <4>4. ver \in Nat /\ package[ver].wasm \in Files
        BY <1>0, <4>3, DepsNumbered DEF DepsTyped, Packages
      <4> HIDE DEF ver
      <4>5. Deps!Resolved(deps[i]) = [want |-> deps[i], ver |-> ver, build |-> package[ver].wasm]
        BY <3>3 DEF Deps!Resolved, ver
      <4> QED
        BY <3>1, <4>3, <4>4, <4>5 DEF Pins
    <3> QED
      BY <3>2, <3>3
  <2>3. key' = [i \in DOMAIN deps |-> Deps!Resolved(deps[i])]
    BY <1>1 DEF Deps!InstallApp
  <2>4. Pinned(key')
    <3>1. DOMAIN deps = 1..Len(deps) /\ Len(deps) \in Nat
      BY <2>1
    <3> HIDE DEF deps
    <3> QED
      BY <2>2, <2>3, <3>1 DEF Pinned
  <2>5. DepsTyped' /\ WholeIsThere' /\ WriterHasWasm'
    BY <1>0, <1>1, <2>4 DEF Deps!InstallApp, DepsTyped, WholeIsThere, WriterHasWasm
  <2> QED
    BY <1>children, <2>5 DEF DepsInv
<1>2. ASSUME NEW v \in Versions, Deps!Uninstall(v) PROVE DepsInv'
  <2>1. Deps!NoPackage \in Packages /\ ~Deps!NoPackage.whole
    BY DEF Deps!NoPackage, Packages, Files, Caches
  <2>2. package' = [package EXCEPT ![v] = Deps!NoPackage] /\ writer.pc = "idle"
        /\ UNCHANGED <<setting, depEngine, depReg, writer, key, depCount>>
    BY <1>2 DEF Deps!Uninstall
  <2>3. DepsTyped' /\ WholeIsThere' /\ WriterHasWasm'
    BY <1>0, <2>1, <2>2 DEF DepsTyped, WholeIsThere, WriterHasWasm
  <2> QED
    BY <1>children, <2>3 DEF DepsInv
<1>write. ASSUME NEW v \in Versions, NEW file \in {"wasm", "cwasm"}, NEW data,
                 file = "wasm" => data \in Files, file = "cwasm" => data \in Caches,
                 Deps!Write(v, file, data)
          PROVE  /\ package' \in [Versions -> Packages] /\ WholeIsThere'
                 /\ package'[v].dir /\ package'[v][file] = data
                 /\ file = "cwasm" => package'[v].wasm = package[v].wasm
  <2> DEFINE p == [package[v] EXCEPT ![file] = data, !.dir = TRUE, !.whole = FALSE]
  <2>1. package[v] \in Packages
    BY <1>0 DEF DepsTyped
  <2>2. p \in Packages /\ ~p.whole /\ p.dir /\ p[file] = data /\ (file = "cwasm" => p.wasm = package[v].wasm)
    <3>1. CASE file = "wasm"
      BY <1>write, <2>1, <3>1 DEF Packages
    <3>2. CASE file = "cwasm"
      BY <1>write, <2>1, <3>2 DEF Packages
    <3> QED
      BY <3>1, <3>2
  <2>3. package' = [package EXCEPT ![v] = p]
    BY <1>0, <1>write DEF Deps!Write, DepsTyped
  <2> HIDE DEF p
  <2>4. package' \in [Versions -> Packages] /\ package'[v] = p
        /\ \A w \in Versions \ {v} : package'[w] = package[w]
    BY <1>0, <2>2, <2>3 DEF DepsTyped
  <2>5. WholeIsThere'
    BY <1>0, <2>2, <2>4 DEF WholeIsThere
  <2> QED
    BY <2>2, <2>4, <2>5
<1>3. CASE Deps!InstallPackage
  <2> DEFINE next == setting.installs[depCount'.installs]
  <2>1. next \in [ver : Versions, build : Builds]
    <3>1. setting.installs \in Seq([ver : Versions, build : Builds])
      BY <1>0, DepsNumbered DEF DepsTyped
    <3>2. depCount'.installs = depCount.installs + 1 /\ depCount.installs \in Nat
          /\ depCount.installs < Len(setting.installs)
      BY <1>0, <1>3 DEF Deps!InstallPackage, DepsTyped
    <3>3. depCount'.installs \in DOMAIN setting.installs
      BY <3>1, <3>2
    <3> QED
      BY <3>1, <3>3, ItemOf
  <2>2. Deps!Write(next.ver, "wasm", Torn) /\ writer' = [pc |-> "wasm", ver |-> next.ver, build |-> next.build]
    BY <1>3 DEF Deps!InstallPackage
  <2>3. package' \in [Versions -> Packages] /\ WholeIsThere'
    BY <1>write, <2>1, <2>2 DEF Files
  <2>4. depCount' \in [installs : Nat, crashes : Nat]
    BY <1>0, <1>3 DEF Deps!InstallPackage, DepsTyped
  <2> HIDE DEF next
  <2>5. DepsTyped' /\ WriterHasWasm'
    BY <1>0, <1>3, <2>1, <2>2, <2>3, <2>4 DEF Deps!InstallPackage, DepsTyped, WriterHasWasm
  <2> QED
    BY <1>children, <2>3, <2>5 DEF DepsInv
<1>4. CASE Deps!WritePackage
  <2>0. UNCHANGED <<setting, depEngine, depReg, key, depCount>> /\ writer.ver \in Versions
    BY <1>0, <1>4 DEF Deps!WritePackage, DepsTyped
  <2>1. CASE writer.pc = "wasm" /\ Deps!Write(writer.ver, "wasm", writer.build) /\ writer' = [writer EXCEPT !.pc = "truncate"]
    <3>1. writer.build \in Files
      BY <1>0, <2>1 DEF DepsTyped, Files
    <3>2. package' \in [Versions -> Packages] /\ WholeIsThere'
          /\ package'[writer.ver].dir /\ package'[writer.ver].wasm = writer.build
      BY <1>write, <2>0, <2>1, <3>1
    <3>3. DepsTyped' /\ WriterHasWasm'
      BY <1>0, <2>0, <2>1, <3>2 DEF DepsTyped, WriterHasWasm
    <3> QED
      BY <1>children, <3>2, <3>3 DEF DepsInv
  <2>2. CASE writer.pc = "truncate" /\ Deps!Write(writer.ver, "cwasm", Torn) /\ writer' = [writer EXCEPT !.pc = "fill"]
    <3>1. package' \in [Versions -> Packages] /\ WholeIsThere'
          /\ package'[writer.ver].dir /\ package'[writer.ver].wasm = package[writer.ver].wasm
      BY <1>write, <2>0, <2>2 DEF Caches
    <3>2. DepsTyped' /\ WriterHasWasm'
      BY <1>0, <2>0, <2>2, <3>1 DEF DepsTyped, WriterHasWasm
    <3> QED
      BY <1>children, <3>1, <3>2 DEF DepsInv
  <2>3. CASE writer.pc = "fill" /\ writer' = Deps!IdleWriter
             /\ package' = [package EXCEPT ![writer.ver].whole = TRUE,
                   ![writer.ver].cwasm = [build |-> writer.build, engine |-> depEngine]]
    <3> DEFINE p == [package[writer.ver] EXCEPT !.whole = TRUE,
                        !.cwasm = [build |-> writer.build, engine |-> depEngine]]
    <3>1. writer.build \in Builds /\ depEngine \in Engines /\ package[writer.ver] \in Packages
          /\ package[writer.ver].dir /\ package[writer.ver].wasm = writer.build
      BY <1>0, <2>0, <2>3 DEF DepsTyped, WriterHasWasm
    <3>2. p \in Packages /\ p.dir /\ p.wasm = writer.build /\ p.cwasm = [build |-> writer.build, engine |-> depEngine]
      BY <3>1 DEF Packages, Caches
    <3>3. p.cwasm # NoFile
      BY <3>1, <3>2, DepsNumbered
    <3>4. package' = [package EXCEPT ![writer.ver] = p]
      BY <1>0, <2>0, <2>3 DEF DepsTyped
    <3> HIDE DEF p
    <3>5. package' \in [Versions -> Packages] /\ WholeIsThere'
      BY <1>0, <2>0, <3>1, <3>2, <3>3, <3>4 DEF DepsTyped, WholeIsThere
    <3>6. DepsTyped' /\ WriterHasWasm'
      BY <1>0, <1>idle, <2>0, <2>3, <3>5 DEF DepsTyped, WriterHasWasm
    <3> QED
      BY <1>children, <3>5, <3>6 DEF DepsInv
  <2> QED
    BY <1>4, <2>1, <2>2, <2>3 DEF Deps!WritePackage
<1>5. CASE Deps!Crash
  <2>1. depCount' \in [installs : Nat, crashes : Nat]
    BY <1>0, <1>5 DEF Deps!Crash, DepsTyped
  <2>2. DepsTyped' /\ WholeIsThere' /\ WriterHasWasm'
    BY <1>0, <1>5, <1>idle, <2>1 DEF Deps!Crash, DepsTyped, WholeIsThere, WriterHasWasm
  <2> QED
    BY <1>children, <2>2 DEF DepsInv
<1>6. CASE Deps!Preload
  <2>1. depReg' \in DepRegistries
    <3>1. ASSUME NEW v \in Versions, Deps!Usable(package[v].cwasm) PROVE package[v].cwasm.build \in Builds
      BY <1>0, <3>1 DEF DepsTyped, Packages, Caches, Deps!Usable
    <3> QED
      BY <1>6, <3>1 DEF Deps!Preload, DepRegistries
  <2>2. DepsTyped' /\ WholeIsThere' /\ WriterHasWasm'
    BY <1>0, <1>6, <2>1 DEF Deps!Preload, DepsTyped, WholeIsThere, WriterHasWasm
  <2> QED
    BY <1>children, <2>2 DEF DepsInv
<1>7. CASE Deps!Upgrade
  <2>1. depReg' \in DepRegistries
    BY <1>7 DEF Deps!Upgrade, DepRegistries
  <2>2. DepsTyped' /\ WholeIsThere' /\ WriterHasWasm'
    BY <1>0, <1>7, <2>1 DEF Deps!Upgrade, DepsTyped, WholeIsThere, WriterHasWasm
  <2> QED
    BY <1>children, <2>2 DEF DepsInv
<1> QED
  BY <1>1, <1>2, <1>3, <1>4, <1>5, <1>6, <1>7

\* A child that heals writes what it read, and disturbs the others.
LEMMA HealKeepsGood == ASSUME Deps!ConstantsOK, DepsInv, NEW c \in Loaders, Deps!HealDep(c) PROVE DepsInv'
<1> DEFINE x == child[c]
           v == DepOf(x).ver
           data == IF x.pc = "truncate" THEN Torn ELSE [build |-> x.build, engine |-> depEngine]
           p == [package[v] EXCEPT !.cwasm = data, !.whole = @ /\ x.build = package[v].wasm]
           y == [x EXCEPT !.pc = IF @ = "truncate" THEN "fill" ELSE "again"]
<1>0. DepsTyped /\ WholeIsThere /\ WriterHasWasm
  BY DEF DepsInv
<1>1. /\ Good(x) /\ ChildTyped(x) /\ Compiled(x) /\ Unharmed(x) /\ IsChild(x)
      /\ x.sound \in BOOLEAN
  BY DEF DepsInv, Good, ChildTyped
<1>2. x.pc \in {"truncate", "fill"} /\ AtDep(x) /\ AtWork(x) /\ x.build \in Builds
  BY <1>1 DEF Deps!HealDep, AtDep, AtWork, ChildTyped
<1>3. Len(x.got) + 1 \in DOMAIN x.key /\ DepOf(x).want.kind # "host"
  BY <1>1, <1>2 DEF ChildTyped
<1>4. v \in Versions /\ package[v] \in Packages
  BY <1>0, <1>1, <1>3 DEF ChildTyped, Pinned, DepOf, DepsTyped
<1>5. Deps!Pinned(c) = v
  BY DEF Deps!Pinned, Deps!Dep, DepOf
<1>6. UNCHANGED <<setting, depEngine, depReg, writer, key, depCount>>
  BY DEF Deps!HealDep, Deps!Leave
<1>7. CASE ~package[v].dir
  <2>1. Deps!Fail(c, "missing") /\ UNCHANGED package
    BY <1>5, <1>7 DEF Deps!HealDep
  <2>2. ~x.sound
    BY <1>2, <1>3, <1>7, SoundFinds
  <2>3. \E z : Good(z) /\ child' = [child EXCEPT ![c] = z]
    BY <1>1, <2>1, <2>2, EndGood DEF Deps!Fail, Deps!Set
  <2> QED
    BY <1>0, <1>6, <2>1, <2>3, OneChild DEF DepsTyped
<1>8. CASE package[v].dir
  <2>1. /\ package' = [package EXCEPT ![v].cwasm = data, ![v].whole = @ /\ x.build = package[v].wasm]
        /\ child' = [Deps!Disturbed(c) EXCEPT ![c].pc = IF @ = "truncate" THEN "fill" ELSE "again"]
    BY <1>5, <1>8 DEF Deps!HealDep
  <2>2. data \in Caches /\ data # NoFile /\ (data # Torn => data.build = x.build)
    BY <1>0, <1>2, DepsNumbered DEF Caches, DepsTyped
  <2>3. /\ p \in Packages /\ p.wasm = package[v].wasm /\ p.dir = package[v].dir
        /\ p.cwasm = data /\ p.whole = (package[v].whole /\ x.build = package[v].wasm)
    <3> HIDE DEF data
    <3> QED
      BY <1>4, <2>2 DEF Packages
  <2>4. package' = [package EXCEPT ![v] = p]
    <3> HIDE DEF data
    <3> QED
      BY <1>0, <1>4, <2>1 DEF DepsTyped
  <2>5. package' \in [Versions -> Packages] /\ package'[v] = p /\ \A w \in Versions \ {v} : package'[w] = package[w]
    <3> HIDE DEF p
    <3> QED
      BY <1>0, <1>4, <2>3, <2>4 DEF DepsTyped
  <2>6. DepsTyped' /\ WholeIsThere' /\ WriterHasWasm'
    <3> HIDE DEF p, data
    <3>1. DepsTyped'
      BY <1>0, <1>6, <2>5 DEF DepsTyped
    <3>2. WholeIsThere'
      BY <1>0, <1>8, <2>2, <2>3, <2>5 DEF WholeIsThere
    <3>3. WriterHasWasm'
      BY <1>0, <1>6, <2>3, <2>5 DEF WriterHasWasm, DepsTyped
    <3> QED
      BY <3>1, <3>2, <3>3
  <2>7. DOMAIN child' = Loaders /\ child' = [d \in Loaders |-> child'[d]] /\ child'[c] = y
        /\ \A d \in Loaders \ {c} : child'[d] = Deps!Disturbed(c)[d]
    <3>1. Deps!Disturbed(c)[c] = x /\ DOMAIN Deps!Disturbed(c) = Loaders
      BY DEF Deps!Disturbed
    <3> QED
      BY <2>1, <3>1
  <2>8. /\ y.pc = (IF x.pc = "truncate" THEN "fill" ELSE "again")
        /\ y.key = x.key /\ y.reg = x.reg /\ y.got = x.got
        /\ y.build = x.build /\ y.sound = x.sound /\ IsChild(y)
    BY <1>1 DEF IsChild, Fields
  <2>9. Good(child[c])'
    <3> HIDE DEF p, y
    <3>1. ChildTyped(y)
      BY <1>1, <1>2, <1>3, <2>8 DEF ChildTyped, AtDep, ChildPCs, DepOf
    <3>2. ASSUME x.sound PROVE x.build = package[v].wasm
      BY <1>1, <1>2, <3>2 DEF Unharmed
    <3>3. x.sound => \A w \in Versions : package[w].whole => package'[w].whole
      BY <2>3, <2>5, <3>2
    <3>4. x.sound => Deps!Stand(x.key)'
      <4>1. x.sound => Deps!Stand(x.key)
        BY <1>1, <1>2 DEF Unharmed
      <4>2. \A i \in DOMAIN x.key : x.key[i].want.kind # "host" => x.key[i].ver \in Versions
        BY <1>1 DEF ChildTyped, Pinned
      <4> QED
        BY <2>7, <2>8, <3>3, <4>1, <4>2 DEF Deps!Stand
    <3>cur. x.sound => UpToDate(child[c])'
      <4>1. x.sound => UpToDate(x)
        BY <1>1, <1>2 DEF Unharmed
      <4>2. \A w \in Versions : package'[w].wasm = package[w].wasm
        BY <2>3, <2>5
      <4>3. ASSUME NEW i \in DOMAIN x.got, x.got[i] # NoFile PROVE x.got[i].ver \in Versions
        <5>1. Chosen(x.key, x.got) /\ Pinned(x.key)
          BY <1>1 DEF ChildTyped
        <5>2. i \in DOMAIN x.key
          BY <1>1, <5>1 DEF Chosen, Pinned, ChildTyped
        <5> QED
          BY <4>3, <5>1, <5>2 DEF Chosen, Pinned
      <4>4. child'[c].got = x.got /\ child'[c].reg = x.reg
        BY <2>7, <2>8
      <4> QED
        BY <4>1, <4>2, <4>3, <4>4 DEF UpToDate
    <3>comp. Compiled(child[c])'
      BY <1>1, <1>2, <1>6, <2>7, <2>8 DEF Compiled
    <3>5. DepOf(y).ver = v
      BY <2>8 DEF DepOf
    <3>6. y.sound /\ y.pc = "fill" => y.build = package'[v].wasm
      BY <2>3, <2>5, <2>8, <3>2
    <3>7. y.pc = "again" =>
              package'[v].cwasm \notin {NoFile, Torn} /\ package'[v].cwasm.engine = depEngine'
      BY <1>0, <1>2, <1>6, <2>3, <2>5, <2>8, DepsNumbered DEF DepsTyped
    <3>8. Unharmed(child[c])'
      BY <2>7, <2>8, <3>4, <3>5, <3>6, <3>7, <3>cur DEF Unharmed, AtWork, Deps!Usable
    <3> QED
      BY <2>7, <3>1, <3>8, <3>comp DEF Good
  <2>10. \A d \in Loaders \ {c} : Good(child[d])'
    BY <1>6, <2>7, DisturbedSettled, SettledGood
  <2> QED
    BY <2>6, <2>7, <2>9, <2>10 DEF DepsInv
<1> QED
  BY <1>7, <1>8

\* Every step keeps what a sound child relies on.
LEMMA DepsStep == ASSUME Deps!ConstantsOK, DepsInv, [Deps!Next]_(Deps!vars) PROVE DepsInv'
<1>1. \A c \in setting.children : c \in Loaders
  BY DepsNumbered DEF DepsInv, DepsTyped
<1>2. ASSUME NEW c \in Loaders, Deps!OfChild(c) PROVE DepsInv'
  BY <1>2, LoadKeepsGood, HealKeepsGood DEF Deps!OfChild
<1>3. ASSUME UNCHANGED Deps!vars PROVE DepsInv'
  <2>1. UNCHANGED <<setting, package, depEngine, depReg, writer, key, child, depCount>>
    BY <1>3 DEF Deps!vars
  <2>2. \A c \in Loaders : Good(child[c])'
    BY <2>1, ManyChildren
  <2>3. DepsTyped' /\ WholeIsThere' /\ WriterHasWasm'
    BY <2>1 DEF DepsInv, DepsTyped, WholeIsThere, WriterHasWasm
  <2> QED
    BY <2>1, <2>2, <2>3 DEF DepsInv
<1> QED
  BY <1>1, <1>2, <1>3, PackageKeepsGood DEF Deps!Next

LEMMA DepsStart == ASSUME Deps!ConstantsOK, Deps!Init PROVE DepsInv
<1>1. Deps!NoPackage \in Packages /\ ~Deps!NoPackage.whole
  BY DEF Deps!NoPackage, Packages, Files, Caches
<1>2. /\ writer.pc = "idle"
      /\ writer \in [pc : {"idle", "wasm", "truncate", "fill"}, ver : Versions, build : Builds \union {NoFile}]
  BY DepsNumbered DEF Deps!Init, Deps!IdleWriter
<1>3. depReg \in DepRegistries /\ package \in [Versions -> Packages] /\ depCount \in [installs : Nat, crashes : Nat]
  BY <1>1 DEF Deps!Init, DepRegistries
<1>4. DepsTyped /\ WholeIsThere /\ WriterHasWasm
  BY <1>1, <1>2, <1>3, DepsNumbered DEF Deps!Init, DepsTyped, WholeIsThere, WriterHasWasm
<1>5. \A c \in Loaders : Good(child[c])
  BY ReadyGood DEF Deps!Init
<1> QED
  BY <1>4, <1>5 DEF DepsInv, Deps!Init

\* The host's dependencies behave as AppDeps says.
LEMMA DepsImplemented == HostSpec => Deps!Spec
<1>1. HostInit => Deps!Init
  BY DEF HostInit
<1>2. [HostNext]_hostVars => [Deps!Next]_(Deps!vars)
  BY DEF HostNext, OfZygote, OfStore, OfDeps, hostVars, depVars, Deps!vars
<1> QED
  BY <1>1, <1>2, PTL DEF HostSpec, Deps!Spec

\* A child heals its dependencies: however many versions, engines, children and
\* installs there are, whatever the manifest, and whoever dies amid a write, a
\* load that nobody else writes across fails only for an interface that is
\* missing, two that clash, or the guest's own trap.
THEOREM DepsAreHealed == HostSpec => []DepsSelfHeal
<1>1. Deps!Init => DepsInv
  BY Constants, DepsStart
<1>2. DepsInv /\ [Deps!Next]_(Deps!vars) => DepsInv'
  BY Constants, DepsStep
<1>3. DepsInv => DepsSelfHeal
  BY DEF DepsSelfHeal, Deps!DepsSelfHeal, DepsInv, Good, Unharmed
<1> QED
  BY <1>1, <1>2, <1>3, DepsImplemented, PTL DEF Deps!Spec
-----------------------------------------------------------------------------
\* The least of a set of numbers.
LEMMA Least ==
    ASSUME NEW T \in SUBSET Nat, T # {}
    PROVE  \E x \in T : \A y \in T : x <= y
<1>1. PICK m \in T : \A y \in T : ~(<<y, m>> \in NatLess)
  BY NatLessWF, WFMin
<1>2. \A y \in T : ~(y < m)
  BY <1>1 DEF NatLess
<1> QED
  BY <1>1, <1>2

FirstThatExist(list, dirs, n) ==
    {list[i] : i \in {i \in 1..n :
        /\ list[i].host \in dirs
        /\ \A j \in 1..i - 1 : list[j].guest = list[i].guest => list[j].host \notin dirs}}

LEMMA OneMore ==
    ASSUME NEW dirs, NEW list, NEW n \in Nat
    PROVE  FirstThatExist(list, dirs, n + 1) =
               IF \/ list[n + 1].host \notin dirs
                  \/ \E m \in FirstThatExist(list, dirs, n) : m.guest = list[n + 1].guest
               THEN FirstThatExist(list, dirs, n)
               ELSE FirstThatExist(list, dirs, n) \union {list[n + 1]}
<1> DEFINE first(i) == /\ list[i].host \in dirs
                       /\ \A j \in 1..i - 1 : list[j].guest = list[i].guest => list[j].host \notin dirs
<1>1. \A k \in Nat : FirstThatExist(list, dirs, k) = {list[i] : i \in {i \in 1..k : first(i)}}
  BY DEF FirstThatExist
<1>2. first(n + 1) <=> /\ list[n + 1].host \in dirs
                       /\ \A m \in FirstThatExist(list, dirs, n) : m.guest # list[n + 1].guest
  <2>1. ASSUME list[n + 1].host \in dirs, ~first(n + 1)
        PROVE  \E m \in FirstThatExist(list, dirs, n) : m.guest = list[n + 1].guest
    <3> DEFINE T == {j \in 1..n : list[j].guest = list[n + 1].guest /\ list[j].host \in dirs}
    <3>1. T # {} /\ T \in SUBSET Nat
      BY <2>1
    <3>2. PICK j \in T : \A k \in T : j <= k
      <4> HIDE DEF T
      <4> QED
        BY <3>1, Least
    <3>3. first(j) /\ j \in 1..n
      BY <3>2
    <3>4. list[j] \in FirstThatExist(list, dirs, n)
      BY <1>1, <3>3
    <3> QED
      BY <3>2, <3>4
  <2>2. ASSUME first(n + 1), NEW m \in FirstThatExist(list, dirs, n) PROVE m.guest # list[n + 1].guest
    <3>1. PICK i \in 1..n : m = list[i] /\ first(i)
      BY <1>1, <2>2
    <3> QED
      BY <2>2, <3>1
  <2> QED
    BY <2>1, <2>2
<1>3. \A i \in 1..n + 1 : i \in 1..n \/ i = n + 1
  OBVIOUS
<1>4. {list[i] : i \in {i \in 1..n + 1 : first(i)}} =
      {list[i] : i \in {i \in 1..n : first(i)}} \union (IF first(n + 1) THEN {list[n + 1]} ELSE {})
  <2> HIDE DEF first
  <2> QED
    BY <1>3
<1>5. FirstThatExist(list, dirs, n + 1) =
          FirstThatExist(list, dirs, n) \union (IF first(n + 1) THEN {list[n + 1]} ELSE {})
  <2>1. n + 1 \in Nat
    OBVIOUS
  <2> HIDE DEF first
  <2> QED
    BY <1>1, <1>4, <2>1
<1> HIDE DEF first
<1> QED
  BY <1>2, <1>5

\* apply_mounts, directory by directory.
LEMMA MountedIsFirst ==
    ASSUME NEW list, Len(list) \in Nat
    PROVE  Deps!Mounted(list) = FirstThatExist(list, setting.dirs, Len(list))
<1> DEFINE N == Len(list)
           want == [n \in 0..N |-> FirstThatExist(list, setting.dirs, n)]
           upTo(f) == f = [n \in 0..N |-> IF n = 0 THEN {} ELSE Deps!Add(f[n - 1], list[n])]
           got == CHOOSE f : upTo(f)
<1>1. ASSUME NEW n \in 1..N
      PROVE  Deps!Add(FirstThatExist(list, setting.dirs, n - 1), list[n])
                 = FirstThatExist(list, setting.dirs, n)
  <2>1. ASSUME NEW k \in Nat
        PROVE  Deps!Add(FirstThatExist(list, setting.dirs, k), list[k + 1])
                   = FirstThatExist(list, setting.dirs, k + 1)
    BY OneMore DEF Deps!Add
  <2>2. n - 1 \in Nat /\ (n - 1) + 1 = n
    OBVIOUS
  <2> QED
    BY <2>1, <2>2
<1>2. FirstThatExist(list, setting.dirs, 0) = {}
  BY DEF FirstThatExist
<1>3. upTo(want)
  <2>1. \A n \in 0..N : n # 0 => n \in 1..N /\ n - 1 \in 0..N
    OBVIOUS
  <2> QED
    BY <1>1, <1>2, <2>1
<1>4. upTo(got)
  <2> HIDE DEF upTo, want
  <2> QED
    BY <1>3
<1>5. \A n \in 0..N : got[n] = want[n]
  <2> HIDE DEF got
  <2> DEFINE T == {n \in 0..N : got[n] # want[n]}
  <2>1. SUFFICES ASSUME T # {} PROVE FALSE
    OBVIOUS
  <2>2. PICK n \in T : \A k \in T : n <= k
    <3>1. T \in SUBSET Nat
      OBVIOUS
    <3> HIDE DEF T
    <3> QED
      BY <2>1, <3>1, Least
  <2>3. n # 0
    BY <1>2, <1>4, <2>2
  <2>4. n - 1 \in 0..N /\ n - 1 \notin T
    BY <2>2, <2>3
  <2>5. got[n - 1] = want[n - 1]
    BY <2>4
  <2>6. got[n] = Deps!Add(got[n - 1], list[n]) /\ want[n] = Deps!Add(want[n - 1], list[n])
    <3> HIDE DEF want
    <3> QED
      BY <1>3, <1>4, <2>3
  <2> QED
    BY <2>2, <2>5, <2>6
<1> QED
  BY <1>5 DEF Deps!Mounted

\* Nobody but the child itself moves it on, and it starts only from where
\* everything it loaded is wired, and is granted its mounts on the way there.
LEMMA SamePlace == ASSUME DepsInv, NEW by, NEW c \in Loaders PROVE Deps!Disturbed(by)[c].pc = child[c].pc
<1>1. IsChild(child[c])
  BY DEF DepsInv, Good, ChildTyped
<1>2. [child[c] EXCEPT !.sound = FALSE].pc = child[c].pc
  BY <1>1 DEF IsChild, Fields
<1> QED
  BY <1>2 DEF Deps!Disturbed

MovesOn(c) ==
    /\ child'[c].pc = "ready" /\ child[c].pc # "ready" => child[c].pc = "wire"
    /\ child[c].pc = "dep" /\ child'[c].pc = "wire" =>
           child'[c].grants.mounts = Deps!Mounted(setting.wants.mounts)

LEMMA EveryChildMovesOn ==
    ASSUME Deps!ConstantsOK, DepsInv, [Deps!Next]_(Deps!vars), NEW c \in Loaders
    PROVE  MovesOn(c)
<1>1. CASE child'[c].pc \in {child[c].pc, "idle"}
  BY <1>1 DEF MovesOn
<1>2. CASE UNCHANGED Deps!vars
  BY <1>1, <1>2 DEF Deps!vars
<1>3. CASE \/ Deps!InstallApp \/ \E v \in Versions : Deps!Uninstall(v)
           \/ Deps!InstallPackage \/ Deps!WritePackage \/ Deps!Crash \/ Deps!Preload \/ Deps!Upgrade
  <2>1. \/ child' = Deps!Disturbed(NoFile) \/ child' = child \/ child' = [d \in Loaders |-> Deps!Idle]
        \/ \E d \in Loaders : child' = [child EXCEPT ![d] = Deps!Idle]
    BY <1>3 DEF Deps!InstallApp, Deps!Uninstall, Deps!InstallPackage, Deps!WritePackage, Deps!Write,
                Deps!Crash, Deps!Preload, Deps!Upgrade
  <2>2. Deps!Idle.pc = "idle" /\ DOMAIN child = Loaders
    BY DEF Deps!Idle, DepsInv
  <2>3. child'[c].pc \in {child[c].pc, "idle"}
    <3> HIDE DEF Deps!Idle
    <3> QED
      BY <2>1, <2>2, SamePlace
  <2> QED
    BY <1>1, <2>3
<1>4. ASSUME NEW d \in Loaders, Deps!OfChild(d), d # c PROVE MovesOn(c)
  <2>1. \/ \E y : child' = [child EXCEPT ![d] = y]
        \/ \E p : child' = [Deps!Disturbed(d) EXCEPT ![d].pc = p]
    BY <1>4 DEF Deps!OfChild, Deps!Fork, Deps!CheckDep, Deps!FetchDep, Deps!ReadDep, Deps!HealDep,
                Deps!FetchAgain, Deps!DepsLoaded, Deps!LoadDev, Deps!Instantiate, Deps!Fail, Deps!Run,
                Deps!Got, Deps!Goto, Deps!Set
  <2>2. child'[c] \in {child[c], Deps!Disturbed(d)[c]}
    BY <1>4, <2>1 DEF DepsInv, Deps!Disturbed
  <2> QED
    BY <1>1, <2>2, SamePlace
<1>5. CASE Deps!OfChild(c)
  <2>0. IsChild(child[c]) /\ DOMAIN child = Loaders
    BY DEF DepsInv, Good, ChildTyped
  <2>set. ASSUME NEW y, Deps!Set(c, y) PROVE child'[c] = y
    BY <2>0, <2>set DEF Deps!Set
  <2>idle. /\ IsChild(Deps!Idle) /\ Deps!Idle.pc = "idle"
    BY IdleGood DEF ChildTyped, Deps!Idle
  <2>fail. ASSUME NEW why, Deps!Fail(c, why) PROVE child'[c].pc = "failed"
    BY <2>fail, <2>set, <2>idle DEF Deps!Fail, IsChild, Fields
  <2>goto. ASSUME NEW p, Deps!Goto(c, p) PROVE child'[c].pc = p
    BY <2>goto, <2>set, <2>0 DEF Deps!Goto, IsChild, Fields
  <2>got. ASSUME NEW w, Deps!Got(c, w) PROVE child'[c].pc = "dep"
    BY <2>got, <2>set, <2>0 DEF Deps!Got, IsChild, Fields
  <2>1. CASE Deps!Fork(c)
    <3>1. child'[c].pc = "dep"
      BY <2>1, <2>set, <2>idle DEF Deps!Fork, IsChild, Fields
    <3> QED
      BY <3>1 DEF MovesOn
  <2>2. CASE Deps!CheckDep(c)
    <3>1. child'[c].pc \in {"failed", "dep", "fetch"}
      BY <2>2, <2>fail, <2>got, <2>goto DEF Deps!CheckDep
    <3> QED
      BY <3>1 DEF MovesOn
  <2>3. CASE Deps!FetchDep(c)
    <3>1. child'[c].pc \in {"failed", "dep", "read"}
      BY <2>3, <2>fail, <2>got, <2>goto DEF Deps!FetchDep
    <3> QED
      BY <3>1 DEF MovesOn
  <2>4. CASE Deps!ReadDep(c)
    <3>1. child[c].pc = "read"
      BY <2>4 DEF Deps!ReadDep
    <3>2. CASE Deps!Fail(c, "missing")
      BY <3>2, <2>fail DEF MovesOn
    <3>3. ASSUME NEW w, Deps!Set(c, [child[c] EXCEPT !.pc = "truncate", !.build = w]) PROVE MovesOn(c)
      <4>1. child'[c].pc = "truncate"
        BY <3>3, <2>set, <2>0 DEF IsChild, Fields
      <4> QED
        BY <4>1 DEF MovesOn
    <3> QED
      BY <2>4, <3>2, <3>3 DEF Deps!ReadDep
  <2>5. CASE Deps!HealDep(c)
    <3>1. child[c].pc \in {"truncate", "fill"}
      BY <2>5 DEF Deps!HealDep
    <3>2. CASE Deps!Fail(c, "missing")
      BY <3>2, <2>fail DEF MovesOn
    <3>3. CASE child' = [Deps!Disturbed(c) EXCEPT ![c].pc = IF @ = "truncate" THEN "fill" ELSE "again"]
      <4>1. Deps!Disturbed(c)[c] = child[c] /\ DOMAIN Deps!Disturbed(c) = Loaders
        BY DEF Deps!Disturbed
      <4>2. child'[c] = [child[c] EXCEPT !.pc = IF @ = "truncate" THEN "fill" ELSE "again"]
        BY <3>3, <4>1
      <4>3. child'[c].pc \in {"fill", "again"}
        BY <4>2, <2>0 DEF IsChild, Fields
      <4> QED
        BY <4>3 DEF MovesOn
    <3> QED
      BY <2>5, <3>2, <3>3 DEF Deps!HealDep
  <2>6. CASE Deps!FetchAgain(c)
    <3>1. child'[c].pc \in {"failed", "dep"}
      BY <2>6, <2>fail, <2>got DEF Deps!FetchAgain
    <3> QED
      BY <3>1 DEF MovesOn
  <2>7. CASE Deps!DepsLoaded(c)
    <3>1. child[c].pc = "dep" /\ child'[c] = [child[c] EXCEPT !.pc = "wire", !.grants = Deps!Grants]
      BY <2>7, <2>set DEF Deps!DepsLoaded
    <3>2. child'[c].pc = "wire" /\ child'[c].grants = Deps!Grants
      BY <3>1, <2>0 DEF IsChild, Fields
    <3> QED
      BY <3>1, <3>2 DEF MovesOn, Deps!Grants
  <2>8. CASE \E loads \in {<<FALSE>>, <<FALSE, TRUE>>} : Deps!LoadDev(c, loads)
    <3>1. child[c].pc # "dep"
      BY <2>8 DEF Deps!LoadDev, Deps!Loading
    <3>2. child'[c].pc \in {"wire", "failed"}
      BY <2>8, <2>set, <2>idle DEF Deps!LoadDev, IsChild, Fields
    <3> QED
      BY <3>1, <3>2 DEF MovesOn
  <2>9. CASE \E traps \in BOOLEAN : Deps!Instantiate(c, traps)
    <3>1. child[c].pc = "wire"
      BY <2>9 DEF Deps!Instantiate
    <3> QED
      BY <3>1 DEF MovesOn
  <2> QED
    BY <1>5, <2>1, <2>2, <2>3, <2>4, <2>5, <2>6, <2>7, <2>8, <2>9 DEF Deps!OfChild
<1>6. \A d \in setting.children : d \in Loaders
  BY DepsNumbered DEF DepsInv, DepsTyped
<1> QED
  BY <1>2, <1>3, <1>4, <1>5, <1>6 DEF Deps!Next

\* What a child that is about to start holds.
LEMMA HoldsResolved ==
    ASSUME Deps!ConstantsOK, DepsInv, NEW c \in Loaders, child[c].pc = "wire",
           NEW i \in DOMAIN child[c].got, child[c].got[i] # NoFile
    PROVE  LET got == child[c].got[i]
               installed == package[got.ver].wasm
           IN  /\ got.ver = child[c].key[i].ver /\ got.engine = depEngine
               /\ child[c].sound /\ child[c].reg[got.ver] \in {NoFile, installed}
                   => got.build = installed
<1>1. ChildTyped(child[c]) /\ Compiled(child[c]) /\ Unharmed(child[c]) /\ AtWork(child[c])
  BY DEF DepsInv, Good, AtWork
<1>2. Chosen(child[c].key, child[c].got) /\ (child[c].sound => UpToDate(child[c]))
  BY <1>1 DEF ChildTyped, Unharmed
<1> QED
  BY <1>1, <1>2 DEF Chosen, UpToDate, Compiled

\* An app starts with the versions its install resolved, compiled by this host
\* and, of a package that stands and was not preloaded before it changed, of the
\* build that is installed; and in the first of the directories it lists for
\* each path that the machine has - for any manifest and any number of children.
THEOREM AppsStartFaithfully == HostSpec => AppsStartAsInstalled
<1>1. Deps!Init => DepsInv
  BY Constants, DepsStart
<1>2. DepsInv /\ [Deps!Next]_(Deps!vars) => DepsInv'
  BY Constants, DepsStep
<1>3. ASSUME DepsInv, [Deps!Next]_(Deps!vars)
      PROVE  [\A c \in Loaders : child'[c].pc = "ready" /\ child[c].pc # "ready" =>
                \A i \in DOMAIN child[c].got : child[c].got[i] # NoFile =>
                    LET got == child[c].got[i]
                        installed == package[got.ver].wasm
                    IN  /\ got.ver = child[c].key[i].ver /\ got.engine = depEngine
                        /\ child[c].sound /\ child[c].reg[got.ver] \in {NoFile, installed}
                            => got.build = installed]_child
  <2>1. SUFFICES ASSUME NEW c \in Loaders, child'[c].pc = "ready", child[c].pc # "ready",
                        NEW i \in DOMAIN child[c].got, child[c].got[i] # NoFile
                 PROVE  LET got == child[c].got[i]
                            installed == package[got.ver].wasm
                        IN  /\ got.ver = child[c].key[i].ver /\ got.engine = depEngine
                            /\ child[c].sound /\ child[c].reg[got.ver] \in {NoFile, installed}
                                => got.build = installed
    OBVIOUS
  <2>2. child[c].pc = "wire"
    BY <1>3, <2>1, Constants, EveryChildMovesOn DEF MovesOn
  <2> QED
    BY <1>3, <2>1, <2>2, Constants, HoldsResolved
<1>4. ASSUME DepsInv, [Deps!Next]_(Deps!vars)
      PROVE  [\A c \in Loaders : child[c].pc = "dep" /\ child'[c].pc = "wire" =>
                LET list == setting.wants.mounts
                IN  child'[c].grants.mounts =
                        {list[i] : i \in {i \in DOMAIN list :
                            /\ list[i].host \in setting.dirs
                            /\ \A j \in 1..i - 1 :
                                 list[j].guest = list[i].guest => list[j].host \notin setting.dirs}}]_child
  <2> DEFINE list == setting.wants.mounts
  <2>1. SUFFICES ASSUME NEW c \in Loaders, child[c].pc = "dep", child'[c].pc = "wire"
                 PROVE  child'[c].grants.mounts =
                          {list[i] : i \in {i \in DOMAIN list :
                            /\ list[i].host \in setting.dirs
                            /\ \A j \in 1..i - 1 :
                                 list[j].guest = list[i].guest => list[j].host \notin setting.dirs}}
    OBVIOUS
  <2>2. child'[c].grants.mounts = Deps!Mounted(list)
    BY <1>4, <2>1, Constants, EveryChildMovesOn DEF MovesOn
  <2>3. Len(list) \in Nat /\ DOMAIN list = 1..Len(list)
    <3>1. list \in Seq([host : STRING, guest : STRING, write : BOOLEAN])
      BY <1>4, Constants DEF DepsInv, DepsTyped, Deps!ConstantsOK
    <3> QED
      BY <3>1
  <2>4. Deps!Mounted(list) = FirstThatExist(list, setting.dirs, Len(list))
    BY <2>3, MountedIsFirst
  <2> QED
    BY <2>2, <2>3, <2>4 DEF FirstThatExist
<1>5. HostSpec => Deps!DepsAreAsResolved
  BY <1>1, <1>2, <1>3, DepsImplemented, PTL DEF Deps!Spec, Deps!DepsAreAsResolved
<1>6. HostSpec => Deps!MountsAreFirstThatExist
  BY <1>1, <1>2, <1>4, DepsImplemented, PTL DEF Deps!Spec, Deps!MountsAreFirstThatExist
<1> QED
  BY <1>5, <1>6 DEF AppsStartAsInstalled
==============================================================================
