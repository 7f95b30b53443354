# wandr-host: specifications, model checking and proofs

wandr-host runs WebAssembly UI applications.  On Android a *zygote* process
forks one host process per application; each host owns a surface and runs a
render loop around its guest, and is told what to do by the *arbiter*, a daemon
outside this repository.  This directory models the parts of the host whose
correctness depends on order, on failure or on time, checks them with TLC and
proves some of them with TLAPS.

## 1. Inventory

Paths are relative to `src/src/` of the source tree.

| part | state it keeps | operations | talks to |
|------|----------------|------------|----------|
| zygote (`zygote.rs`) | `child_pids()`, `exit_subscribers()`, the listen socket | LAUNCH, KILL, SUBSCRIBE_EXITS, PRELOAD; reap, broadcast, sweep | arbiter and installer over a socket; kernel; forked hosts |
| application store (`app_installer.rs`, `app_loader.rs`, `preload.rs`) | version directories, wasm, cwasm, cache key; resolved dependencies; preload registry | install, load, heal, preload, wire | file system, wasmtime, zygote |
| host start (`standalone.rs`, `run_once.rs`, `lib.rs`) | surface, insets, socket, subscriptions | register, create, load, bind, subscribe | arbiter, SurfaceFlinger |
| roles (`app_role.rs`, `lifecycle_standalone.rs`, top of the loop in `standalone.rs`) | the `ROLE` and `SHUTDOWN` atomics, `last_role`, lifecycle states | signal handlers; the transition block; focus refresh | arbiter by signals; SurfaceFlinger; guest |
| loop pacing (`standalone.rs`) | two deadlines, doze cadence, idle clock | wake, background tick, render, doze stretch, nap | guest, arbiter |
| loop geometry (`standalone.rs`, `canvas_impl.rs`, `sf_surface.rs`) | orientation, insets, keyboard, overlay strip and rectangle, buffer size | geometry and keyboard lines, height requests, flips | arbiter, SurfaceFlinger, guest |
| inbound lines, input, scheduler (`ime_inbound.rs`, `input.rs`, `scheduler_impl.rs`) | event queues, some atomics; heap, handle table, cancelled set | accept, queue, drain, dispatch; schedule, cancel, fire | arbiter, guest, loop |
| windowed host (`lib.rs`) | window, sizes, lifecycle, four deadlines | window events, redraw, wait | window system, guest |
| call audio (`audio_impl.rs`, `wasi_audio_impl.rs`) | jitter and capture buffers, position clock | write, read, start, pause, flush, drain, close; two pump threads | guest, AudioFlinger |
| AAudio tracks (`audio_impl.rs`) | data ring counters, service events | open, write, read, start, pause, close | guest, audioserver |
| desktop audio (`audio_desktop.rs`) | ring, resampling cursor | open, write, read, flush; device callback | guest, cpal |
| routing, volumes, ringer (`audio_policy_impl.rs`, `audio_routing.rs`, `audio_focus_host_impl.rs`, `ringer_impl.rs`) | cached route, flags; thread slots | routes, volumes, mutes; ring start and stop | guest, arbiter, audioserver |
| video, desktop (`video_desktop.rs`, `video_host_impl.rs`, `crates/wandr-video`) | pending and scheduled frames, in-flight count, surfaces; camera thread | submit, decode, present, seek, composite; encode | guest, codec, camera |
| video, phone (`video.rs`, `cpp/sf_surface.cpp`) | codec buffers, held frames, slots, placement | submit, take, present, attach, turn | guest, MediaCodec, compositor |
| canvas (`canvas_impl.rs`, `wasi_canvas_002_impl.rs`, `cpp/wasi_drawable.cpp`) | canvas stack, surface, resource table, counted layers, font caches | frame, record, capture, draw, drop, build text | guest, Skia |
| arbiter clients, device services, platform support | nothing, or the other side's | forwarding | — |

What is hard in it, and what correct means:

* *zygote*: accept loop, reaper, the kernel's reuse of pids and the children run
  concurrently; either side may die and come back.  Every live child can be
  killed, nobody else is, deaths reach the arbiter.
* *store*: files written in order by processes that die; caches of caches; packages
  shared by consumers.  What runs is what is installed.
* *host start*: the arbiter may be down, answer late or restart between two
  queries, and answers a subscription on a socket the host must have bound.  A
  host is in its loop in step with the arbiter, or has ended.
* *roles*: orders are signals, which do not queue and do not keep their order; the
  loop reads the role once per iteration.  Surface, guest and focus agree with the
  last order.
* *pacing*: four time sources and three gates decide one nap.  No spin, and no
  gate that closes for good.
* *geometry*: a flip is recorded in one iteration and applied in the next, with
  other resizes in between and a compositor that may refuse.  The guest lays out
  to the size that is drawn.
* *events*: a thread fills queues and writes past them, callbacks schedule and cancel
  callbacks, a trapped guest refuses every call.  Nothing is lost, doubled or late
  for ever.
* *windowed host*: sizes change with and without an event, the window goes and comes.
* *audio*: guest, pump and device interleave between lock and call; audioserver dies.
  A FIFO, a monotone clock, nothing leaked, no silent call, no ring that goes on.
* *video*: frames in flight across seeks, drops and three owners; a cap that may
  starve its own player; a codec with a few buffers; a panel that turns.
* *canvas*: one canvas for all frames, resized under a frame; counts across the guest's
  handles and captures; a renderer replaced on a warm resume.

`PROJECT.json` lists every component with its status and every hazard at its
line.

## 2. Modules

| module | models | checked in run | proofs |
|--------|--------|-----------|--------|
| `Zygote` | accept loop, reaper, kernel, children, arbiters | `zygote`, `zygote_kill_foreign` | `ZygoteProofs` |
| `AppStore` | one app on disk: installer, loaders, preload registry | `zygote`, `app_store_torn` | `AppStoreProofs` |
| `AppDeps` | an app's dependencies, mounts and interfaces | `zygote` | `AppDepsProofs` |
| `HostStart` | every kind of launch up to its loop or its end | `host_loop` | `LoopProofs` |
| `LoopPacing` | deadlines, doze and the nap of the standalone loop | `host_loop`, `loop_pacing_doze` | `LoopProofs` |
| `LoopEvents` | lines, touches, keys and callbacks, and the stages that deliver them | `host_loop` | `LoopProofs` |
| `DesktopShell` | the windowed host's loop | `host_loop` | `LoopProofs` |
| `HostRoles` | role signals and the role, lifecycle and focus part of the loop, several hosts | `host_surface` | `HostSurfaceProofs` |
| `LoopGeometry` | orientation, insets, keyboard and overlay of one loop | `host_surface` | `HostSurfaceProofs` |
| `CanvasFrame` | the window's canvas from frame to frame, with video under it | `host_surface` | `HostSurfaceProofs` |
| `CanvasScene` | the guest's recordings, prints and counted layers | `host_surface` | `HostSurfaceProofs` |
| `TextFonts` | the paragraph builder and the faces its styles get | `host_surface` | `HostSurfaceProofs` |
| `CallPump`, `CallStream` | a call's output track; the FIFO it implements | `host_audio`, `call_pump_live`, `call_pump_pause` | `CallPumpProofs` |
| `CallCapture` | a call's capture and its pump | `host_audio` | `AudioProofs` |
| `AAudioTrack` | the AAudio backend: ring, events, a dying server | `host_audio` | `AudioProofs` |
| `DeskAudio` | a desktop's streams and their resampling callbacks | `host_audio`, `desk_capture_rate` | `AudioProofs` |
| `AudioControls` | routes, volumes, mutes and the ringers | `host_audio` | `AudioProofs` |
| `DesktopVideo` | playback: backends, decoder, cap, presentation, surface | `host_video`, `video_seek` | `VideoProofs` |
| `CallVideo` | the camera encoder and its capture thread | `host_video` | `VideoProofs` |
| `AndroidVideo` | codec buffers, held frames, slots and places on the panel | `host_video` | `VideoProofs` |

Every component module has its state as VARIABLES, one action per step between
two points where another actor can run, and its bounds as CONSTANTS with named
assumptions.  Operators called `Mutant...` are not part of a specification: each
is a definition with one plausible mistake in it, and `PROJECT.json` ("mutants")
names the property that mistake violates.

### Composition

A *layer* holds the components that make up one part of a host: `HostZygote` (what is
installed and who is alive), `HostLoop`, `HostSurface`, `HostAudio` and `HostVideo`.  It
instantiates each component, names the constants of all of them, assumes of each what the
component assumes, and states as its own the properties a run checks.  Components of a
layer that share no variable would only multiply each other's states, so the variable
`part` says which of them a behaviour is about and the others stay at rest: `OfX(A)` is
a step of component X, and the checked state graph is the disjoint union of theirs.
Each proof module shows first that `HostSpec` implements the specification of each of its
components, so an invariant of a component is one of the layer.  Where components do
share state they are one module: guest, pump and mixer in `CallPump`; roles, signals and
focus of several hosts in `HostRoles`; listener thread, queues, heap and loop stages in
`LoopEvents`; decoder, player and surface in `DesktopVideo`.

A run checks a layer through its `MC` module, which only gives the constants small values
and lets the resting components start in one way.  Nothing is proved about an `MC` module
and no property stands in one.  `MCHostLoop` and `MCHostVideo` have a variable
`slice` besides: one module under several choices of what a behaviour may use (`lines`,
`timers`, `inputs`, `mix`; `sizes`, `deadlines`; `once`, `again`; `places`, `shared`,
`pictures`, `buffers`), because all at once has too many states.  The theorems are about the layer without slices.

### Zygote

`accept` and `reaper` are the program counters and locals of the two threads of
`zygote.rs`.  A statement that takes `child_pids()` or `exit_subscribers()` is an
action of its own, because the lock is released in between:

| action | code |
|--------|------|
| `Fork`, `Insert`, `Ack` | `handle_one`: fork, `child_pids().insert`, the OK line (whose failure only returns the error: the child lives on and stays registered) |
| `KillCheck`, `KillSend` | `handle_kill`: membership, then `kill(2)` |
| `Subscribe` | SUBSCRIBE_EXITS |
| `ReaperWait`, `ReaperRemove`, `ReaperBroadcast` | `spawn_reaper` and `broadcast_exit` |
| `ChildInstallHandlers`, `ChildBind`, `ChildExitCleanly`, `ChildDie` | the child's start and end, as far as signals and its control socket see them |
| `Startup` | `serve` with `sweep_stale_host_sockets` |
| `ForeignStart`, `ForeignExit`, `OrphanExit`, `ArbiterGone`, `ArbiterSeesEof`, `Crash` | kernel and environment |

`PromptReuse = FALSE` says the pid space does not wrap around while one thread
holds a pid in a local variable.  With `TRUE` the properties about pids are lost
whatever the code does, since `kill(2)` and `wait(2)` name processes by number.

### HostRoles

`role[h]` is the `ROLE` atomic, `host[h]` the loop's locals, `life[h]` the
lifecycle with the transition still queued and what the guest was told last.
`ReadRole` is the single load at the top of an iteration; `ApplyRole` the
transition block; `RenderFrame`, `SkipFrame`, `FailFrame` the frame; `RefreshFocus`
reads the atomic a second time, `RequestFocus` acts on it.  `Order` and `Deliver`
are the arbiter's `kill` and the signal handler: a set per host, because a pending
standard signal neither counts nor keeps an order.  `Paced` restricts the arbiter
to one pending order per host.

### LoopPacing

A deadline is the time left until it.  `Wake`, `BgTick`, `Render`, `Stretch` and
`Nap` are the parts of one iteration in order, each with its negative branch;
guest calls take 0..`MaxWork`.  `did` is history: what this iteration did.

### LoopGeometry

`TakeHeight`, `ApplyOrient`, `KeyboardInset`, `Geometry`, `Frame` follow the loop.  `r`
is the renderer (buffer size, orientation, insets), `rect` the surface, `told` the
arguments of the last `on_resize`.  A flip is due while `auth` (what the arbiter
pushed) differs from `r.orient`.  `Place` is `set_overlay_geometry` with its failure:
the caller goes on.

### CallPump and CallStream

The guest's thread (`guest`), the pump thread (`pump`) and AudioFlinger (`ring`, `af`)
share `OutState` (`out`, `buf`) under a lock neither thread keeps across a call into
`audioclient`; each locked block and each such call is an action.  Real frames are
numbered, silence is 0.  `CallStream` is the promise, a bounded FIFO that loses
nothing except in a flush or a close, and `StreamIsFifo` is the refinement: what
waits is the ring, the pump's chunk and the buffer, in this order, without the
silence.

### AppStore and AppDeps

A file is truncated in one step and filled in the next, and a process may die
between any two steps.  A build stands for the contents of a wasm, a compiled module
for the build and the engine it came from, a key for the three hashes of
`cache-key.toml`.  `Install`, `MakeDirs`, `InstTruncate` and `InstFill` are the installer
in its order; `ReadKey`, `CheckCache`, `HealTruncate`, `HealCwasm`, `HealKey` and `Get`
the loader; `Preload` the registry and `Fork` what a child inherits of it; `InstCrash`
and `LoadCrash` the deaths; `Upgrade` a new host binary.  A hit in the registry is taken as
it is, whatever the installer has written since: `old` marks a child that inherited such a
registry, and `LoadedIsInstalled` lets nothing else through.  Installer and loaders exclude each other, loaders do
not exclude each other.
Two children that share a version may heal it at once; the theorems of section 4 are
about exactly that.

`AppDeps` has one package serving all of an app's dependencies, installed and updated in
place while children load.  `Resolve` is what the consumer's install pins, `Pinned` what
a launch finds under it, `HealDep` the re-precompile in place.  A healer that read the old
wasm and writes after a newer install leaves a cwasm of code that is no longer there:
`whole` marks packages this has not happened to, and the properties are stated of them.

### HostStart

`pc` follows `run_with_engine`, `run_once` and the desktop's `run` from the process to the
loop: `Try` is one attempt at registering the chrome, `CreateSurface`, `Renderer`, `Load`,
`Instantiate`, `Bind` and `Subscribe` succeed or fail, `Stages` is their order.  The arbiter
is up or down, restarts (`boot`), changes a topic's value and sends it to those subscribed; a
line to a socket nobody bound is lost.

### LoopEvents

`Accept`, `ReadLine` and `Eof` are the listener thread, which serves one connection until it
ends; a queued line is numbered, a direct one writes `gate`.  `PollInput`, `PassInput` (the look at
the gate), `DispatchInput` (the call into the guest, with the listener in between),
`DrainQueue`, `HandleLine`, `DrainTimers`, `Fire`, `BgTick`, `Frame` and `Nap` are the
stages of an iteration.  Every call into the guest (`GuestCall`) may schedule, cancel or trap.

### DesktopShell

The winit application: events change `window` and `sizes`, `RedrawRequested` reconciles,
calls the guest and schedules, `AboutToWait` takes the earliest deadline, `Tick` is time that
passes asleep or without a window.

### Audio: CallCapture, AAudioTrack, DeskAudio, AudioControls

`CallCapture` numbers frames as the device records them; the pump's lock, unlocked read and
lock again are three steps, and a stream may be replaced between them.  `AAudioTrack`
keeps the distance of the two ring counters (`lead`, below zero when the mixer has passed the
host), the undelivered service events and what was taken and not played yet (`unheard`);
`Open` may fail at each stage, and the server may die at any time.  The silence pump of
`--probe-call-stall` is no part of it: `create_track` leaves it out on purpose.  `DeskAudio` keeps the
resampler's cursor in units of one frame over the denominator; flush is two locked
sections with the callback between them.  `AudioControls` has an audioserver that forgets
volumes and routes when it restarts, a call opened in two steps, and two ringers with
their flag, slot and thread.

### Video: DesktopVideo, CallVideo, AndroidVideo

A frame is its timestamp and the seek generation it was decoded in.  `DesktopVideo` has the
codec crate's choice of a backend (`Candidates`, `Serves`), GStreamer's thread and its move to
software for a deep stream (`Probed`), the reorder
buffer, the count in flight with its cap, and a player that feeds by back-pressure.
`CallVideo` has the capture thread, the guest that encodes the newest picture, and the join.
`AndroidVideo` has a codec's buffers by index, the frames that hold them, slots with their
owner, rectangle and angle, and the device's turns.  A reset or an attach takes the buffers
back whatever the guest holds; `dec.kept` tells that it held some, `dec.torn` that a decoder
with a slot was dropped, and `nth` tells frames with one index apart.

### Drawing: CanvasFrame, CanvasScene, TextFonts

A picture is two regions, in and out of the clip a guest may set.  `CanvasFrame` is
`get_current_buffer`, drawing, present and a window that is resized meanwhile.  `CanvasScene`
is the resource table with the counts of `WasiDrawable`; layers may capture each other and
themselves, and to draw one that does is the end of the process (`Endless`, `Overflow`).  `TextFonts` is the builder's
buffered operations, their replay, and the lookup through cache, bundled fonts and the
system before and after a warm resume.



## 3. Runs

| run | bounds | what it shows |
|-----|--------|---------------|
| `zygote` | 2 pids, 1 arbiter, a zygote that may die; 2 versions, builds, engines and loaders, 2 installs, one crash or preloads; 7 manifests with up to 2 dependencies | every live child is killable; a stale entry has been logged; KILL stays in the family unless a pid was logged untracked; the sweep spares living hosts; a death reaches a subscribed arbiter; what is loaded is installed and leaves a fresh cache; dependencies heal; an app gets what its install resolved, and the first directory that exists |
| `host_loop` | intervals 1..4, cadences 0 and 3; 2 connections and 2 lines, 3 callbacks, 2 inputs; 2 window events; every launch, 2 attempts, 3 values, 1 arbiter restart | no spin; frames, pump and the frame after a promotion; lines once and in order, callbacks accounted for and fired in the end, a trapped host exits; one touch at most slips past a blanking; a launch ends or starts in step; a window's deadlines and size |
| `host_surface` | 4 settings of a panel of a few pixels, batches of 2; 2 hosts, 2 orders; 2 frames, 3 window sizes; 2 layers with 2 captures a recording; 3 families, 4 operations, 1 resume | the guest is not misled and knows its size; buffers fit, overlays keep their edge, flips are applied; roles and focus settle; each frame is its own and whole; layers are counted, and freed but for loops; text as written |
| `host_audio` | call: ring 2, buffer 3, 4 frames, all calls; desktop: ring 3, rates 1:1, 2:3, 3:2; AAudio: ring 4, 2 opens; capture: ring 3, buffer 4, 2 streams | FIFO refinement; writes fit; position; order kept by resampling and capture; opens fall back and leak nothing; only stalls suspend a stream, and what a write took is played; a call is audible, a stopped ringer silent |
| `call_pump_live` | ring 4, buffer 5, 6 frames, write/start/close | first start on a full ring; what was accepted is heard |
| `host_video` | 3 frames stored out of order, 4 machines, 1 seek or second opening; 3 pictures; a panel of 2 by 3 with 2 turns, 2 slots, 2 surfaces and a self-view; 2 codecs of 1 input and 2 output buffers, 2 frames per index | playback goes on within the count and the budget; what decodes is within the policy; a call's pictures, keyframes and camera; no buffer is lost; places follow the turns while decoders attach and go |

Why the bounds are enough:

* *zygote*: two pids make a child and the reuse of the pid of a dead one overlap with
  a second child in every phase; the theorems hold for any number.
* *store*: a version superseded and the same version reinstalled, an engine
  newer than the cache, two healers of one version.  One crash, or preloads, is a real
  limit: section 4.
* *pacing*: the poll, idle and background caps differ, the doze cadence lies between
  them, the warm-up ends, and the idle time reaches its threshold.
* *events*: two lines make a batch and one that comes after it; three callbacks make
  one fire, one cancelled from inside it and one scheduled by it.
* *host start*: two attempts are a failure that is retried and the last one; three values
  are the retained one, one that overtakes the subscription and a later one.
* *roles*: two orders are the least with an order superseded, and two hosts the least
  with a focus taken over.
* *geometry*: one orientation per edge; heights below and above the insets, so that
  the clamp at one pixel happens.
* *call pump*: a ring of two with a buffer of three makes the chunk shorter than,
  equal to and longer than the backlog, and the buffer full while the ring is not;
  four frames overrun both.  The liveness run takes a ring of four, so that the start
  threshold `Target \div 2` is not the smallest amount.
* *desktop audio*: one ratio on each side of one; bursts longer than the ring.
* *video*: a reorder depth of one needs a second frame before the first is due, and a
  software budget of one is below it, so the floor of the cap decides.  A panel
  that is not square tells width from height; two turns make a half turn.  Two slots are the
  least for a dropped decoder's slot to pass to another surface, two codecs the least for
  a frame of the one before, two frames per index the least for one held across a reset
  beside the new one.
* *frames, scenes, text*: two frames show what the first leaves to the second; two layers
  capture each other and themselves; a family that app and system both have shows precedence.

Deadlock is not checked: each system may stop, as a bounded guest, a bounded
arbiter or a process that exits does.  That the parts which must not stop go on is what
the liveness properties say.

Fairness is stated in each module's `FairSpec` and repeated, per part, in the layers:

* `Zygote`: the reaper is a thread that blocks only in `wait(2)` (strong fairness per
  pid: the kernel does not pass over one zombie for ever); the accept loop finishes
  a launch it began.  Clients, children and crashes owe nothing.
* `CallPump`: a call once made returns, the pump thread cycles every 10 ms, the mixer
  plays an active track.
* `HostRoles`, `LoopPacing`, `LoopGeometry`, `LoopEvents`, `DesktopShell`: the loop
  iterates, since naps are bounded and guest calls are assumed to return; a pending signal
  is delivered; the listener thread runs, and a peer that connected hangs up some time
  (the arbiter opens a connection per line).  Arbiter, user and guest owe nothing else.
* `HostStart`: the process is scheduled until it has started.
* `AudioControls`, `CallVideo`: the ring and capture threads are scheduled, a camera
  answers, and a join returns when its thread has ended.
* `DesktopVideo`, `AndroidVideo`: time passes, and the player and the loop go on polling.

### Disagreements

Six runs end in a counterexample to something the source says of itself; the lines
are quoted in `PROJECT.json` ("findings").

| run | claim | what happens |
|-----|-------|--------------|
| `zygote_kill_foreign` | KILL signals only our own children | a child reaped before its pid is inserted leaves the pid in the set; reused, it passes the check |
| `app_store_torn` | corruption is healed | a truncated cwasm under a matching key fails every load |
| `call_pump_pause` | pause = stop now | the pump, between its check and `audioclient::start`, starts the track after the pause |
| `loop_pacing_doze` | frames come at the doze cadence | each iteration pushes the deadline out again: none comes |
| `desk_capture_rate` | the capture ring holds frames at the guest's rate | the cursor advances by the ratio where its inverse is needed |
| `video_seek` | a seek discards queued work | a frame already scheduled is painted after it |

Others met while modelling are stated as definitions beside the properties, without a run
of their own; each was found not to hold:

* `AppDeps!DepUpdateInvalidates`: the installer's comment has any dependency update flip a
  hash; the loader only warns.  `AppDeps!InstalledLoads`: the installer accepts a dependency
  without an interface, which the loader refuses.
* `AudioControls!ReportedRouteIsApplied`: the cached route does not follow the arbiter's.
* `AppStore!InstallerPreloads`: the zygote's and the preloader's comments have the installer send
  PRELOAD after an upgrade; it does not, so a preloaded app runs its former code until somebody
  does.
* `LoopEvents!EarTouchesAreDropped`: the blanked panel is looked at when a touch is
  dispatched, so one made while it was blank is delivered when it is not any more.
* `DesktopShell!HostKnowsWhatGuestSaw`: a lifecycle call that fails counts as seen.
  `InputIsDrawn`: a key requests no redraw.
* `DesktopVideo!RequiredIsDelivered`: `require_hardware` is to refuse software; a deep stream is
  rebuilt on it all the same.
* `DesktopVideo!MemoryIsBounded`, `ShownNeverGoesBack`, `ImplementationIsTrue`,
  `EmbedderSurfaceLives`: GStreamer's lane overshoots the cap; an older late frame is
  painted over a newer one; a hardware name may decode in software; a decoder's drop
  takes an attached surface with it.
* `AndroidVideo!QueueFullIsBackPressure`: a chunk that is too large keeps its input buffer.
  `SurfacesKeepTheirSlots`: a decoder destroys a slot its surface still names.
* `TextFonts!FallbackKeepsAppFonts`: a warm resume loses the bundled fonts of the fallback.

Without a definition: EXITED may precede the OK line of the same pid; forked children
inherit subscriber streams; role signals pending together are handled in the kernel's
order, so the earlier may win for good; the pump's mark can overwrite a pause's flag; a
chunk already taken is heard after a flush; a demoted host may take the focus once more;
the doze leaves the background pump's cadence alone; an overlay is not moved when only
the chrome height changes; a preload does not compare the key; geometry pushed to a chrome host between registering and binding is lost, and a
restarted arbiter is never subscribed to again; a callback cancelled by an earlier one of
its batch still fires; a key-up whose key-down fell before the panel was blanked is
dropped; a hidden host whose guest trapped lives on; the device model caches an empty port
table; a ringer start after an open that failed is ignored until a stop; a layer that
captures itself is never freed; what a guest leaves on the canvas limits the next frame's
clear; a surface whose slot cannot be allocated is reported as open.

## 4. Proofs

TLAPS proves, for every value of the constants that meets the modules' named
assumptions:

| theorem | for any | statement |
|---------|---------|-----------|
| `ZygoteProofs!TypeCorrect`, `KillableAlways`, `StaleOnlyIfLogged`, `LostStreams`, `KillsStayInFamily`, `SweepTakesTheDead` | pids and subscribers | every safety property of the zygote |
| `AppStoreProofs!TypeCorrect` | versions, builds, engines, loaders, installs and deaths | types |
| `AppStoreProofs!RunsWhatIsInstalled`, `CacheIsFresh` | the same, with `RareCrashes` | `LoadedIsInstalled`, `LoadLeavesCacheFresh` |
| `AppDepsProofs!DepsAreHealed`, `AppsStartFaithfully` | packages, manifests, ranges, installs and deaths | `DepsSelfHeal`, `AppsStartAsInstalled` |
| `LoopProofs!NeverSpins` | intervals and cadences | no busy loop |
| `LoopProofs!LoopStartsInStep` | launches, attempts, values and arbiter restarts | `StartsInStep` |
| `LoopProofs!NothingLost`, `BlankPanel` | connections, lines, inputs, callbacks, cancels and traps | lines once and in order, callbacks accounted for, one touch at most past a blanking |
| `LoopProofs!WindowServed` | sizes, window events and deadlines | `WindowIsServed` |
| `HostSurfaceProofs!TypeCorrect`, `NeverMisled`, `PausedMeansHidden` | hosts and orders | guest, lifecycle and surface agree |
| `HostSurfaceProofs!WholeFrames` | saves, sizes and presenters, video under them, for guests that restore what they save | `FramesAreWhole` |
| `HostSurfaceProofs!GeometryTypes`, `LayoutIsCurrent`, `BufferAlwaysFits`, `OverlayKeepsItsEdge` | panel, pushes and refusals | sizes and places |
| `HostSurfaceProofs!ScenesCounted` | recordings, prints and layers nested in any way, loops included | `ScenesAreCounted` |
| `HostSurfaceProofs!TextAsWritten` | families, paragraphs of any length and resumes | `BuiltAsWritten` |
| `CallPumpProofs!TypeCorrect`, `NothingIsRefused`, `ClockNeverAhead`, `ClockNeverBack` | ring, buffer and guest | capacities, and the position clock |
| `CallPumpProofs!TrackIsAFifo` | the same | `CallPump` implements `CallStream` |
| `CallPumpProofs!FirstStartIsFull` | the same, for a guest that neither pauses nor flushes | `StartsOnAFullRing` |
| `AudioProofs!PartsTyped`, `StreamsAreCleanlyOpened`, `StreamsKeepRunning`, `FramesAreInOrder`, `CallsSoundWhereChosen` | capacities, rates, formats, devices and deaths of audioserver | `PartsTypeOK`, `StreamsOpenCleanly`, `StreamsSurvive`, `FramesStayInOrder`, the safety half of `CallsSoundAndRingersStop` |
| `VideoProofs!PolicyBinds` | policies, pins and backends | `AccelerationIsHonoured` |
| `VideoProofs!FramesAreBooked` | streams, reorder depths, budgets, worlds and seeks | `InFlightCounted` |
| `VideoProofs!CallsAreServed` | pictures, requests and openings | `CallIsServed` |
| `VideoProofs!BuffersComeBack` | buffers, frames, codecs and surfaces | `BuffersAreAccounted` |
| `VideoProofs!PicturesKeepTheirPlaces` | panel, slots, turns, surfaces and decoders, with `RealRects` | `PicturesAreInPlace` |

Three theorems have a hypothesis beyond the modules' assumptions.  `RareCrashes` and the
guest that neither pauses nor flushes are explained below; both are what the run checks, and
TLC finds the properties violated without them.  `RealRects` says that no guest asks for an
empty rectangle: `set_geometry` refuses one and the surface keeps its former place, while the
property names what was asked for.

The invariants and why they are needed:

* *Zygote*.  That a live child is in the set is not inductive: the reaper may be about
  to remove the same number.  The invariant adds that the pid the reaper holds is free
  (`ReapedIsFree`, where the assumption on pid reuse enters), what the pid awaiting
  insertion can be (`ForkedOK`) and what a KILL was allowed for (`KillTargetOK`).  A dead
  zygote has no threads and no children (`DownOK`), and a descriptor of a stream is
  held by a child only while the stream is served (`FdsOK`).  The sweep needs `DownOK`
  as well: with no child of its own, a zygote that is down can lose a socket only to its next
  start, which sweeps the dead, or to an orphan that ends.
* *AppStore*.  The loader never looks at the hash of a cwasm, so a key that matches the wasm
  must stand for the cwasm beside it.  `StoreSafe` says of each version that key and cwasm
  name the same build and engine, or the key is another engine's, or the cwasm is what
  this engine makes of the wasm - and who may be in between (an installer, a healer, the
  one death).  `Agree` is why concurrent healers do no harm: they have read the same
  dependencies, so each writes what the others would.  `Heals` states once what a
  healer's write does to every other loader.  `RareCrashes` - at most one death, none
  beside preloads - is needed: with two deaths an installer cut off before the key and
  another cut off before the cwasm leave a cwasm of one build under a key and a wasm of
  another, and TLC finds `LoadedIsInstalled` violated at two deaths and three installs, as
  it does with one death where the zygote preloads.
* *AppDeps*.  `DepsInv` says of each child alone what it may rely on (`Good`): what it holds
  are the versions its key pins, in the key's order (`Chosen`), compiled by this host's
  engine (`Compiled`), and, if nobody wrote to a package under it, of the package's wasm
  (`UpToDate`, `Unharmed`).  `WholeIsThere` and `WriterHasWasm` carry an installer from the
  wasm to the cwasm.  A step of one child is shown to leave the others' records alone, and a
  write to a package to mark exactly those it may have misled.  That the mounts take the
  first directory that exists is an induction over the list of grants (`Least`,
  `FirstThatExist`).
* *LoopPacing*.  Past the pump a service's tick lies ahead unless the iteration has
  taken time, and past the gate a visible guest's frame lies ahead; so the nap, the
  least of the cap and the deadlines that count, is positive (`NapIsPositive`).
* *HostStart*.  What has come in and what has been heard follow the arbiter's value only
  from the subscription on, and only while the socket is bound: `SubscribedLast` ties the
  last line of the inbox to the value, and `InsetsKept` and `ChromeKnown` carry what each
  stage settled to the loop, over arbiter restarts that void it.
* *LoopEvents*.  `LinesInv`: batch and queue together are the lines from the last one handled
  to the last one queued, without a gap, and outside its stage the batch is empty.
  `TimersInv`: a handle given out is in exactly one place - pending in heap and table,
  cancelled but still in the heap, fired or about to be - and a cancelled one that has left
  the heap never comes back.  `Fire` calls into the guest, which may schedule and cancel
  anything: the lemmas speak of any guest call.  `BlankInv`: while the panel is blanked a touch
  that is past the look at the gate is the first and the last that will slip through.
* *DesktopShell*.  The nap is computed in one event and spent in another.  `SleepsUntilDue`
  bounds it by every deadline that counts, and `FrameIsNear` bounds what a callback that has
  overtaken its frame may be late by.
* *HostRoles*.  Host by host: only the cold start queues a transition; a loop that met no
  role told nothing; past the transition block the role read is the role applied; a
  running host's state and surface are those of the last applied role.  A step of one
  host is shown to leave the others' records alone (`OneHost`, `Frame`).
* *CanvasFrame*.  A guest that is `tidy` restores what it saves: `Mirrors` says that the
  canvas' stack of clips is that of the calls still open, so the frame ends where it began,
  and `Inking` that no region of a tidy frame is blank or of an earlier frame.
* *CanvasScene*.  `SceneInv`: a layer's count is its handle and what the canvases and the
  living layers' contents capture of it, and no freed layer is named.  A drop breaks this in
  the middle of its cascade, so `Balanced` also counts what is still due to be taken off
  (`RoundBalances`): a round frees what reaches zero and makes due what it had captured.  As
  many rounds as there are layers are enough, for a round that leaves something due has freed
  a layer (`UnrefBalances`).  Nothing stops a layer from
  capturing itself, which keeps it for ever.  That nothing else is left once nobody holds
  anything is `NothingIsLeft`: a layer still counted is then captured by another one, which
  reaches all it reaches and more, unless the two lie on a loop; and the layers are finitely
  many.  The sums and the two recursions
  (`Reached`, `Unref`) are solved by induction on finite sets (`SubsetInduction`).
* *TextFonts*.  `Sofar` follows the replay: after so many operations the stack has `Depth`
  styles, each opened by a push that nothing has closed since, and the runs are the texts so
  far, each in the style on top (`StackMoves`, `TopIsInForce`).  `TextInv` adds the caches: a
  renderer that inherits them has the app's fonts, and no other face is cached for a bundled
  family.  The attempt showed two guards of a CASE to overlap where the code is an if and its
  else, in `Lookup` and in `LoopGeometry!OverlayRect`; both are written so now.
* *LoopGeometry*.  The size told is the size drawn unless a flip is due; everything that
  changes one of the two either tells the guest or leaves a flip due.  `PlaceFits` states
  once what a move does, refused or not.
* *CallPump*.  `RoomIsThere`: between reading the ring and writing to it only the mixer
  and a flush touch it, and both make room.  `Clock` follows flush through its five
  steps: the backlog read first is an upper bound of what is cleared later, as the pump
  only drains, and the guest is in the call and cannot write.  `Counters` bounds what
  has moved by what was accepted.  The refinement maps ring, chunk and buffer, without the
  silence, to the queue of `CallStream`; `InTransit` says where frames cannot be, and each
  action of the model is a step of the abstract one (`Accepts`, `Plays`, `Discards`) or a
  stutter (`Stays`).  That the silence can be left out of a concatenation piece by piece is
  what takes induction; it is made by showing that a set of numbers holds 0 and every
  successor (`SetInduction`), which no operator parameter is needed for.
  `FirstStartIsFull` follows a start through `BeforeStart` and `FillsTheRing`: what is in the
  ring and what is still missing make the target.  A pause is the way round it, and a flush
  between drain and write another.
* *AAudioTrack*.  `EventsDrained`: until the service gives the stream up, no more events wait
  than bursts went by since the guest's last write or read, so that the burst that overflows
  the queue comes to a silent guest.  `WriteFits`: whether or not the mixer has passed the
  host, a write leaves what was in flight and what it took, within the ring.
* *DeskAudio*.  `DeskOrder`: the ring holds the frames last entered, in order, unless they are
  resampled on the way in.  `DeskClock` bounds the position shown by what has left the ring,
  and inside a flush by what will have; the cursor stays in the first frame for any two
  rates, by arithmetic on fractions of one frame (`DeskInv`).
* *CallCapture*.  Buffer, the pump's hands and ring are consecutive pieces of what was
  recorded (`CallOrder`), those of an earlier stream not counted: the pump appends only
  under the handle it read.
* *AudioControls*.  An open call's server is up, and a call being opened will find the
  volumes set unless audioserver was restarted since the look at them (`OpenOnServer`).
* *DesktopVideo*.  The lane that decodes is a candidate under the policy alone, whatever the
  guest preferred: the preference narrows the candidates or is dropped.  The first chunk may
  move a deep stream to software, or leave it where it shows nothing, and that only when there
  is no software to move to (`LaneInv`).
  For `FramesAreBooked` it must be known where every frame is (`FramesInv`): those that wait
  in the codec, behind it and in the reorder buffer are all different, of this generation and
  not out; those that are out are with the guest or scheduled, never both; and the count is
  of the buffer and of what is out since the decoder was opened.  Timestamps tell chunks of
  one generation apart, so that a fed chunk's frame is a new one.  What the reorder buffer
  takes in is a recursion over the samples; the set of lengths for which it does what it
  should holds 0 and every successor (`SetInduction`).
* *CallVideo*.  The picture last taken is not older than the one last encoded, and a
  keyframe asked for stays forced until one is made, failures included (`CallInv`).
* *AndroidVideo*.  `BufferInv`: an output buffer is out only while a current frame names it;
  frames of before a reset, or of codecs before this one, stay.  Such a frame may give back
  a buffer that another one names, so the converse, and that no two name one, hold while
  `dec.kept` is false.  `PlaceInv` says that nothing is newer than the turn, and that slots,
  surfaces and self-view know only each other.  `Seated`: whoever has his slot to himself and
  was placed under this turn is where his rectangle maps to - which another one's move
  cannot change, as it moves another slot.  `Housed`: everybody has his slot, which is
  lost with the first decoder that is dropped with a surface's (`HousedIsKept`); `PlacesInv`
  puts the two together.  The quarter turns are lemmas on rectangles (`Seen`): what is mapped
  to the panel and turned back is what was asked for.

Only model-checked, and why:

* liveness: `AcceptedIsHeard`, `DeathsReachTheArbiter`, `OrdersSettle`, `LoopServesTheGuest`,
  `NobodyIsLeftWaiting`, `VideoGoesOn` and that ringers stop.  Fairness and ENABLED are
  out of the prover's reach.
* the violations of the six runs above, which are counterexamples.

## 5. Not modelled

Left out for good: what a draw call paints (Skia), bitstreams and pixel conversion, binder
bindings and parcels, one-shot arbiter clients and stateless device services.  They keep
no state another actor can disturb.

Within the modelled parts: the text of requests and replies, logging, the splash, the
GL import of a video frame, the camera's own pipeline, the layout of shared memory, the
capability tables of audio, the silence pump that only `--probe-call-stall` starts, archives and signatures in the installer, orientations
above seven (masked with 7 by the renderer, so such a flip would stay due for ever; the
arbiter sends none), the wrap of the 32-bit callback handle, the crash marker, and the probes of
the command line.

Worth adding next: an installer that runs beside a loader of the same app, with the
properties that survive it.
