------------------------------- MODULE Zygote -------------------------------
(***************************************************************************)
(* The launcher process of wandr-host (src/src/zygote.rs).                 *)
(*                                                                         *)
(* Two threads of one process share child_pids() and exit_subscribers():   *)
(*   - the accept loop (serve / handle_one / handle_kill), strictly        *)
(*     sequential, forks a child per LAUNCH and signals children on KILL;  *)
(*   - the reaper (spawn_reaper), which blocks in wait(2), removes the pid *)
(*     it got from child_pids() and broadcasts EXITED to the subscribers.  *)
(* The kernel's process table, the children's own life and the arbiters on *)
(* the other end of the sockets are the environment.                       *)
(*                                                                         *)
(* A lock is held for one statement at a time, so each locked statement is *)
(* one action and everything between two of them may interleave.           *)
(***************************************************************************)
EXTENDS FiniteSets

CONSTANTS
    Pids,          \* process ids the kernel can hand out
    Subscribers,   \* arbiters: they launch, kill and subscribe to exits
    NoPid,         \* "no pid": neither thread is working on one
    ZygoteDies,    \* TRUE: the zygote may crash (and be started again)
    PromptReuse    \* TRUE: the kernel may recycle a pid while one of the two
                   \* zygote threads still holds it in a local variable.
                   \* Pids are handed out cyclically, so FALSE says only that
                   \* the pid space does not wrap within one such window.

ASSUME NoPidAssumption == NoPid \notin Pids
ASSUME FlagsAssumption == PromptReuse \in BOOLEAN /\ ZygoteDies \in BOOLEAN

VARIABLES
    proc,       \* kernel: state of each pid
    socks,      \* pids with a wandr-host-<pid>.sock file on disk
    up,         \* the zygote process is running
    childPids,  \* child_pids()
    subs,       \* exit_subscribers()
    accept,     \* accept loop: where it is and the pid it works on
    reaper,     \* reaper thread: where it is and the pid it works on
    untracked,  \* pids with a reap that was logged with "tracked=false"
    fds,        \* per pid: subscriber streams the process has a copy of
    link,       \* arbiters that have a stream open and have seen no EOF
    registry    \* per arbiter: the pids it takes for running apps

vars == <<proc, socks, up, childPids, subs, accept, reaper, untracked,
          fds, link, registry>>

arbiter == <<link, registry>>

-----------------------------------------------------------------------------
(* "boot": forked, SIGTERM still has its default action;  "run": handlers  *)
(* installed;  "stop": SHUTDOWN is set;  "zombie": exited, not waited for; *)
(* "orphan": a child that outlived its zygote;  "foreign": any process     *)
(* that is not a child of the zygote.                                      *)
Alive  == {"boot", "run", "stop"}
Procs  == Alive \union {"free", "zombie", "orphan", "foreign"}

AcceptPCs == {"idle", "insert", "ack", "kill"}
ReaperPCs == {"wait", "remove", "broadcast"}
Idle      == [pc |-> "idle", pid |-> NoPid, client |-> NoPid]
Waiting   == [pc |-> "wait", pid |-> NoPid]

\* A pid whose process is this zygote's to wait for.
Own(p) == proc[p] \in Alive \union {"zombie"}

\* A local variable of a zygote thread still names p.
Held(p) == accept.pid = p \/ reaper.pid = p

\* fork(2) and the rest of the system take a free pid.
Available(p) == proc[p] = "free" /\ (PromptReuse \/ ~Held(p))

TypeOK ==
    /\ proc \in [Pids -> Procs]
    /\ socks \subseteq Pids
    /\ up \in BOOLEAN
    /\ childPids \subseteq Pids
    /\ subs \subseteq Subscribers
    /\ accept \in [pc : AcceptPCs, pid : Pids \union {NoPid},
                   client : Subscribers \union {NoPid}]
    /\ reaper \in [pc : ReaperPCs, pid : Pids \union {NoPid}]
    /\ untracked \subseteq Pids
    /\ fds \in [Pids -> SUBSET Subscribers]
    /\ link \subseteq Subscribers
    /\ registry \in [Subscribers -> SUBSET Pids]

Init ==
    /\ proc = [p \in Pids |-> "free"]
    /\ socks = {}
    /\ up = TRUE
    /\ childPids = {}
    /\ subs = {}
    /\ accept = Idle
    /\ reaper = Waiting
    /\ untracked = {}
    /\ fds = [p \in Pids |-> {}]
    /\ link = {}
    /\ registry = [s \in Subscribers |-> {}]

-----------------------------------------------------------------------------
(* The accept loop.                                                        *)

\* LAUNCH*: fork.  The child exists from here on; its pid is still only in
\* the accept loop's local variable.  It closes the listen socket and the
\* client's stream, and keeps its copy of every stream in exit_subscribers().
Fork(p, s) ==
    /\ up /\ accept.pc = "idle" /\ Available(p)
    /\ proc' = [proc EXCEPT ![p] = "boot"]
    /\ fds' = [fds EXCEPT ![p] = subs \intersect link]
    /\ accept' = [pc |-> "insert", pid |-> p, client |-> s]
    /\ UNCHANGED <<socks, up, childPids, subs, reaper, untracked, arbiter>>

\* The parent branch of handle_one: child_pids().insert(child_pid).
Insert ==
    /\ up /\ accept.pc = "insert"
    /\ childPids' = childPids \union {accept.pid}
    /\ accept' = [accept EXCEPT !.pc = "ack"]
    /\ UNCHANGED <<proc, socks, up, subs, reaper, untracked, fds, arbiter>>

\* "OK <pid>" to the client; an arbiter that still listens reads the line at
\* once and adds the app to its registry.
Ack(listens) ==
    /\ up /\ accept.pc = "ack"
    /\ registry' = IF listens
                   THEN [registry EXCEPT ![accept.client] = @ \union {accept.pid}]
                   ELSE registry
    /\ accept' = Idle
    /\ UNCHANGED <<proc, socks, up, childPids, subs, reaper, untracked, fds, link>>

\* Mutant: the ownership check of KILL is missing.
MutantKillUnchecked(p) ==
    /\ up /\ accept.pc = "idle"
    /\ accept' = [pc |-> "kill", pid |-> p, client |-> NoPid]
    /\ UNCHANGED <<proc, socks, up, childPids, subs, reaper, untracked, fds, arbiter>>

\* handle_kill, first half: the ownership check under the lock, which is
\* released before the signal is sent.  A pid that is not owned is refused.
KillCheck(p) ==
    /\ up /\ accept.pc = "idle"
    /\ p \in childPids
    /\ accept' = [pc |-> "kill", pid |-> p, client |-> NoPid]
    /\ UNCHANGED <<proc, socks, up, childPids, subs, reaper, untracked, fds, arbiter>>

\* What kill(2) does to the process that has the pid now.  A process that is
\* not a wandr-host child has no SIGTERM handler of ours and dies of it.
AfterSignal(state, sig) ==
    CASE state \in {"run", "stop"} -> IF sig = "TERM" THEN "stop" ELSE "zombie"
      [] state = "boot"            -> "zombie"
      [] state = "foreign"         -> "free"
      [] OTHER                     -> state

\* Mutant: KILL forgets the pid at once instead of leaving it to the reaper.
MutantKillForgets(sig) ==
    /\ up /\ accept.pc = "kill"
    /\ proc' = [proc EXCEPT ![accept.pid] = AfterSignal(@, sig)]
    /\ childPids' = childPids \ {accept.pid}
    /\ accept' = Idle
    /\ UNCHANGED <<socks, up, subs, reaper, untracked, fds, arbiter>>

\* handle_kill, second half: kill(pid, sig) and the reply.
KillSend(sig) ==
    /\ up /\ accept.pc = "kill"
    /\ proc' = [proc EXCEPT ![accept.pid] = AfterSignal(@, sig)]
    /\ fds' = [fds EXCEPT ![accept.pid] =
                 IF AfterSignal(proc[accept.pid], sig) \in Alive THEN @ ELSE {}]
    /\ accept' = Idle
    /\ UNCHANGED <<socks, up, childPids, subs, reaper, untracked, arbiter>>

\* SUBSCRIBE_EXITS: the stream is moved into exit_subscribers().  (An exit
\* between the "OK subscribed" line and the push is lost to this stream, like
\* one just before the command.)
Subscribe(s) ==
    /\ up /\ accept.pc = "idle" /\ s \notin link
    /\ link' = link \union {s}
    /\ subs' = subs \union {s}
    /\ UNCHANGED <<proc, socks, up, childPids, accept, reaper, untracked, fds, registry>>

-----------------------------------------------------------------------------
(* The reaper.                                                             *)

\* wait(2) returns: from here on the pid is the kernel's to recycle.
ReaperWait(p) ==
    /\ up /\ reaper.pc = "wait" /\ proc[p] = "zombie"
    /\ proc' = [proc EXCEPT ![p] = "free"]
    /\ reaper' = [pc |-> "remove", pid |-> p]
    /\ UNCHANGED <<socks, up, childPids, subs, accept, untracked, fds, arbiter>>

\* Mutant: the reaper looks the pid up and leaves it in the set.
MutantReaperKeeps ==
    /\ up /\ reaper.pc = "remove"
    /\ untracked' = IF reaper.pid \in childPids THEN untracked
                    ELSE untracked \union {reaper.pid}
    /\ reaper' = [reaper EXCEPT !.pc = "broadcast"]
    /\ UNCHANGED <<proc, socks, up, childPids, subs, accept, fds, arbiter>>

\* Mutant: a tracked death is not announced.
MutantReaperSilent ==
    /\ up /\ reaper.pc = "remove"
    /\ childPids' = childPids \ {reaper.pid}
    /\ untracked' = IF reaper.pid \in childPids THEN untracked
                    ELSE untracked \union {reaper.pid}
    /\ reaper' = IF reaper.pid \in childPids THEN Waiting
                 ELSE [reaper EXCEPT !.pc = "broadcast"]
    /\ UNCHANGED <<proc, socks, up, subs, accept, fds, arbiter>>

\* child_pids().remove(&pid), and the "tracked=" field of the log line.
ReaperRemove ==
    /\ up /\ reaper.pc = "remove"
    /\ childPids' = childPids \ {reaper.pid}
    /\ untracked' = IF reaper.pid \in childPids THEN untracked
                    ELSE untracked \union {reaper.pid}
    /\ reaper' = [reaper EXCEPT !.pc = "broadcast"]
    /\ UNCHANGED <<proc, socks, up, subs, accept, fds, arbiter>>

\* broadcast_exit: every live subscriber gets EXITED and drops the pid (an
\* unknown one is ignored); a stream whose write fails leaves the list.
ReaperBroadcast ==
    /\ up /\ reaper.pc = "broadcast"
    /\ subs' = subs \intersect link
    /\ registry' = [s \in Subscribers |->
                       IF s \in subs \intersect link THEN registry[s] \ {reaper.pid}
                       ELSE registry[s]]
    /\ reaper' = Waiting
    /\ UNCHANGED <<proc, socks, up, childPids, accept, untracked, fds, link>>

-----------------------------------------------------------------------------
(* The children: standalone::run_with_engine, as far as the zygote sees it.*)

CloseFds(p) == fds' = [fds EXCEPT ![p] = {}]

\* lifecycle_standalone::install_signal_handlers.
ChildInstallHandlers(p) ==
    /\ proc[p] = "boot"
    /\ proc' = [proc EXCEPT ![p] = "run"]
    /\ UNCHANGED <<socks, up, childPids, subs, accept, reaper, untracked, fds, arbiter>>

\* ime_inbound::spawn_listener: unlink, then bind wandr-host-<pid>.sock.
ChildBind(p) ==
    /\ proc[p] \in {"run", "stop", "orphan"} /\ p \notin socks
    /\ socks' = socks \union {p}
    /\ UNCHANGED <<proc, up, childPids, subs, accept, reaper, untracked, fds, arbiter>>

\* The render loop sees SHUTDOWN, unlinks the socket and leaves cleanly.
ChildExitCleanly(p) ==
    /\ proc[p] = "stop"
    /\ proc' = [proc EXCEPT ![p] = "zombie"]
    /\ socks' = socks \ {p}
    /\ CloseFds(p)
    /\ UNCHANGED <<up, childPids, subs, accept, reaper, untracked, arbiter>>

\* Load failure, trap, panic, LMK, OOM: the socket file stays behind.
ChildDie(p) ==
    /\ proc[p] \in Alive
    /\ proc' = [proc EXCEPT ![p] = "zombie"]
    /\ CloseFds(p)
    /\ UNCHANGED <<socks, up, childPids, subs, accept, reaper, untracked, arbiter>>

-----------------------------------------------------------------------------
(* The rest of the system.                                                 *)

\* Another process is given a free pid, or one goes away.
ForeignStart(p) ==
    /\ Available(p)
    /\ proc' = [proc EXCEPT ![p] = "foreign"]
    /\ UNCHANGED <<socks, up, childPids, subs, accept, reaper, untracked, fds, arbiter>>

ForeignExit(p) ==
    /\ proc[p] = "foreign"
    /\ proc' = [proc EXCEPT ![p] = "free"]
    /\ UNCHANGED <<socks, up, childPids, subs, accept, reaper, untracked, fds, arbiter>>

\* A child that outlived its zygote ends, cleanly or not.
OrphanExit(p, clean) ==
    /\ proc[p] = "orphan"
    /\ proc' = [proc EXCEPT ![p] = "free"]
    /\ socks' = IF clean THEN socks \ {p} ELSE socks
    /\ CloseFds(p)
    /\ UNCHANGED <<up, childPids, subs, accept, reaper, untracked, arbiter>>

\* An arbiter dies: its streams break and its registry is gone with it.
ArbiterGone(s) ==
    /\ s \in link
    /\ link' = link \ {s}
    /\ registry' = [registry EXCEPT ![s] = {}]
    /\ fds' = [p \in Pids |-> fds[p] \ {s}]
    /\ UNCHANGED <<proc, socks, up, childPids, subs, accept, reaper, untracked>>

\* An arbiter reads EOF once the last copy of its stream is closed, and may
\* subscribe again.
ArbiterSeesEof(s) ==
    /\ s \in link \ subs
    /\ \A p \in Pids : s \notin fds[p]
    /\ link' = link \ {s}
    /\ UNCHANGED <<proc, socks, up, childPids, subs, accept, reaper, untracked, fds, registry>>

\* The zygote dies: its sets are lost, init adopts and reaps its children.
Crash ==
    /\ ZygoteDies /\ up
    /\ up' = FALSE
    /\ proc' = [p \in Pids |-> CASE proc[p] \in Alive -> "orphan"
                                 [] proc[p] = "zombie" -> "free"
                                 [] OTHER -> proc[p]]
    /\ childPids' = {} /\ subs' = {} /\ untracked' = {}
    /\ accept' = Idle /\ reaper' = Waiting
    /\ UNCHANGED <<socks, fds, arbiter>>

\* Mutant: the sweep asks child_pids() instead of the kernel.
MutantSweepUntracked ==
    /\ ~up
    /\ up' = TRUE
    /\ socks' = socks \intersect childPids
    /\ UNCHANGED <<proc, childPids, subs, accept, reaper, untracked, fds, arbiter>>

\* serve(), up to the listen socket: sweep_stale_host_sockets() removes the
\* socket of every pid that fails pid_alive (no process at all has it).
Startup ==
    /\ ~up
    /\ up' = TRUE
    /\ socks' = {p \in socks : proc[p] # "free"}
    /\ UNCHANGED <<proc, childPids, subs, accept, reaper, untracked, fds, arbiter>>

-----------------------------------------------------------------------------
AcceptLoop ==
    \/ \E p \in Pids, s \in Subscribers : Fork(p, s)
    \/ Insert
    \/ \E listens \in BOOLEAN : Ack(listens)
    \/ \E p \in Pids : KillCheck(p)
    \/ \E sig \in {"TERM", "KILL"} : KillSend(sig)
    \/ \E s \in Subscribers : Subscribe(s)

Reaper ==
    \/ \E p \in Pids : ReaperWait(p)
    \/ ReaperRemove
    \/ ReaperBroadcast

Child(p) ==
    \/ ChildInstallHandlers(p)
    \/ ChildBind(p)
    \/ ChildExitCleanly(p)
    \/ ChildDie(p)

System ==
    \/ \E p \in Pids : ForeignStart(p) \/ ForeignExit(p)
    \/ \E p \in Pids, clean \in BOOLEAN : OrphanExit(p, clean)
    \/ \E s \in Subscribers : ArbiterGone(s) \/ ArbiterSeesEof(s)
    \/ Crash
    \/ Startup

Next == AcceptLoop \/ Reaper \/ (\E p \in Pids : Child(p)) \/ System

Spec == Init /\ [][Next]_vars

\* Both zygote threads keep running.  wait(2) scans the children in order,
\* so no zombie waits behind others for ever; the accept loop finishes the
\* command it has begun.  Nothing is assumed of children, arbiters or the
\* rest of the system.
Fairness ==
    /\ WF_vars(ReaperRemove \/ ReaperBroadcast)
    /\ \A p \in Pids : SF_vars(ReaperWait(p))
    /\ WF_vars(Insert \/ \E listens \in BOOLEAN : Ack(listens))
FairSpec == Spec /\ Fairness

-----------------------------------------------------------------------------
(* Safety.                                                                 *)

\* Every running child can be killed: its pid is in child_pids(), or is the
\* one the accept loop is about to insert.  No reap, broadcast or kill of
\* another pid ever takes a live child out of the set.
LiveChildrenKillable ==
    ~PromptReuse =>
        \A p \in Pids : proc[p] \in Alive =>
            p \in childPids \/ (accept.pc = "insert" /\ accept.pid = p)

\* child_pids() names a process that is not the zygote's only while the
\* reaper is about to remove it, or when the reaper had already looked for
\* it in vain and logged tracked=false.  (The last log line of that pid may
\* say tracked=true again: a second early death takes out the stale entry and
\* is itself inserted afterwards.)
StaleEntriesWereLogged ==
    \A p \in childPids :
        Own(p) \/ (reaper.pc = "remove" /\ reaper.pid = p) \/ p \in untracked

\* A subscriber stream the zygote no longer serves is held open at most by
\* children of an earlier zygote: no broadcast, reconnect or restart leaves a
\* stream that a child of this zygote keeps from reading EOF.
LostStreamsAreOrphansOnly ==
    \A s \in link \ subs : up =>
        \A p \in Pids : s \in fds[p] => proc[p] = "orphan"

-----------------------------------------------------------------------------
(* Action properties.                                                      *)

KillStep == accept.pc = "kill" /\ accept'.pc = "idle" /\ up'

\* A KILL reaches a process that is not a child only through an entry whose
\* reap was logged tracked=false.
SignalsStayInFamily ==
    [][KillStep /\ ~PromptReuse /\ proc[accept.pid] \in {"foreign", "orphan"}
         => accept.pid \in untracked]_vars

\* The startup sweep never takes the control socket of a running host, also
\* not of one that outlived an earlier zygote.
SweepSparesLiveHosts ==
    [][\A p \in socks \ socks' : ~up => proc[p] = "free" \/ proc'[p] = "free"]_vars

-----------------------------------------------------------------------------
(* Liveness.                                                               *)

\* A registered app that dies is taken out of the registry of every arbiter
\* that stays subscribed, however the accept loop is loaded.
DeathsReachTheArbiter ==
    \A p \in Pids, s \in Subscribers :
        (p \in registry[s] /\ proc[p] = "zombie" /\ s \in subs)
            ~> (p \notin registry[s] \/ s \notin subs)

-----------------------------------------------------------------------------
(* What the comments promise and the code does not keep.                   *)

\* zygote.rs:36-39, the KILL check is there so that only ONE OF OUR OWN
\* children is signalled, never a process whose pid merely matches.
OnlyOwnChildrenSignalled ==
    [][KillStep => proc[accept.pid] # "foreign"]_vars
=============================================================================
