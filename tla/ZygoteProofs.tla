---------------------------- MODULE ZygoteProofs ----------------------------
(***************************************************************************)
(* Proofs about Zygote, for any sets of pids and subscribers.              *)
(*                                                                         *)
(* The inductive invariant IInv adds to the properties what the two        *)
(* threads' local variables may hold, and what is known of the pid the     *)
(* accept loop has forked and not yet inserted.                            *)
(***************************************************************************)
EXTENDS Zygote, TLAPS

\* A thread that is past its first step holds a pid.
LocalsOK ==
    /\ accept.pc # "idle" => accept.pid \in Pids
    /\ accept.pc \in {"insert", "ack"} => accept.client \in Subscribers
    /\ accept.pc = "idle" => accept.pid = NoPid
    /\ reaper.pc # "wait" => reaper.pid \in Pids
    /\ reaper.pc = "wait" => reaper.pid = NoPid

\* A zygote that is down has no threads, no set and no children.
DownOK ==
    ~up => /\ accept = Idle
           /\ reaper = Waiting
           /\ childPids = {}
           /\ \A p \in Pids : ~Own(p)

\* Without prompt reuse, the pid the reaper holds belongs to no process.
ReapedIsFree ==
    ~PromptReuse => \A p \in Pids : reaper.pid = p => proc[p] = "free"

\* The pid waiting to be inserted is a child's, or its reap has been logged
\* as untracked, or is about to be; an older entry for it is a stale one.
ForkedOK ==
    \A p \in Pids : accept.pc = "insert" /\ accept.pid = p =>
        /\ \/ Own(p)
           \/ p \in untracked
           \/ reaper.pc = "remove" /\ reaper.pid = p /\ p \notin childPids
        /\ p \in childPids =>
              p \in untracked \/ (reaper.pc = "remove" /\ reaper.pid = p)

\* The pid a KILL was allowed for is still a child's, free, or a stale entry.
KillTargetOK ==
    ~PromptReuse =>
        \A p \in Pids : accept.pc = "kill" /\ accept.pid = p =>
            Own(p) \/ proc[p] = "free" \/ p \in untracked

\* Who may hold a copy of a subscriber's stream.
FdsOK ==
    \A p \in Pids, s \in Subscribers : s \in fds[p] =>
        /\ s \in link
        /\ proc[p] \in Alive \union {"orphan"}
        /\ proc[p] \in Alive => s \in subs

IInv ==
    /\ TypeOK
    /\ LocalsOK
    /\ DownOK
    /\ ReapedIsFree
    /\ LiveChildrenKillable
    /\ ForkedOK
    /\ StaleEntriesWereLogged
    /\ KillTargetOK
    /\ FdsOK

-----------------------------------------------------------------------------
(* The initial states.                                                     *)
LEMMA InitIInv == Init => IInv
  BY NoPidAssumption
  DEF Init, IInv, TypeOK, LocalsOK, DownOK, ReapedIsFree, LiveChildrenKillable,
      ForkedOK, StaleEntriesWereLogged, KillTargetOK, FdsOK, Own, Alive, Procs,
      Idle, Waiting, AcceptPCs, ReaperPCs

(* Every step keeps the type invariant and the shape of the locals.        *)
LEMMA StepTypeOK == TypeOK /\ LocalsOK /\ DownOK /\ [Next]_vars => TypeOK' /\ LocalsOK' /\ DownOK'
<1> SUFFICES ASSUME TypeOK, LocalsOK, DownOK, [Next]_vars
             PROVE  TypeOK' /\ LocalsOK' /\ DownOK'
  OBVIOUS
<1> USE NoPidAssumption
    DEF TypeOK, LocalsOK, DownOK, Own, Alive, Procs, Idle, Waiting, AcceptPCs,
        ReaperPCs, arbiter, CloseFds, Available
<1>1. ASSUME NEW p \in Pids, NEW s \in Subscribers, Fork(p, s)
      PROVE  TypeOK' /\ LocalsOK' /\ DownOK'
  BY <1>1 DEF Fork
<1>2. CASE Insert
  BY <1>2 DEF Insert
<1>3. ASSUME NEW listens \in BOOLEAN, Ack(listens)
      PROVE  TypeOK' /\ LocalsOK' /\ DownOK'
  BY <1>3 DEF Ack
<1>4. ASSUME NEW p \in Pids, KillCheck(p)
      PROVE  TypeOK' /\ LocalsOK' /\ DownOK'
  BY <1>4 DEF KillCheck
<1>5. ASSUME NEW sig \in {"TERM", "KILL"}, KillSend(sig)
      PROVE  TypeOK' /\ LocalsOK' /\ DownOK'
  BY <1>5 DEF KillSend, AfterSignal
<1>6. ASSUME NEW s \in Subscribers, Subscribe(s)
      PROVE  TypeOK' /\ LocalsOK' /\ DownOK'
  BY <1>6 DEF Subscribe
<1>7. ASSUME NEW p \in Pids, ReaperWait(p)
      PROVE  TypeOK' /\ LocalsOK' /\ DownOK'
  BY <1>7 DEF ReaperWait
<1>8. CASE ReaperRemove
  BY <1>8 DEF ReaperRemove
<1>9. CASE ReaperBroadcast
  BY <1>9 DEF ReaperBroadcast
<1>10. ASSUME NEW p \in Pids, Child(p)
       PROVE  TypeOK' /\ LocalsOK' /\ DownOK'
  BY <1>10 DEF Child, ChildInstallHandlers, ChildBind, ChildExitCleanly, ChildDie
<1>11. ASSUME NEW p \in Pids, ForeignStart(p) \/ ForeignExit(p)
       PROVE  TypeOK' /\ LocalsOK' /\ DownOK'
  BY <1>11 DEF ForeignStart, ForeignExit
<1>12. ASSUME NEW p \in Pids, NEW clean \in BOOLEAN, OrphanExit(p, clean)
       PROVE  TypeOK' /\ LocalsOK' /\ DownOK'
  BY <1>12 DEF OrphanExit
<1>13. ASSUME NEW s \in Subscribers, ArbiterGone(s) \/ ArbiterSeesEof(s)
       PROVE  TypeOK' /\ LocalsOK' /\ DownOK'
  BY <1>13 DEF ArbiterGone, ArbiterSeesEof
<1>14. CASE Crash
  BY <1>14 DEF Crash
<1>15. CASE Startup
  BY <1>15 DEF Startup
<1>16. CASE UNCHANGED vars
  BY <1>16 DEF vars
<1> QED
  BY <1>1, <1>2, <1>3, <1>4, <1>5, <1>6, <1>7, <1>8, <1>9, <1>10, <1>11,
     <1>12, <1>13, <1>14, <1>15, <1>16
  DEF Next, AcceptLoop, Reaper, System

(* No step takes a live child out of reach of KILL. *)
LEMMA StepKillable ==
  IInv /\ TypeOK' /\ LocalsOK' /\ [Next]_vars => ReapedIsFree' /\ LiveChildrenKillable' /\ KillTargetOK'
<1> SUFFICES ASSUME IInv, TypeOK', LocalsOK', [Next]_vars
             PROVE  ReapedIsFree' /\ LiveChildrenKillable' /\ KillTargetOK'
  OBVIOUS
<1> USE NoPidAssumption
    DEF IInv, TypeOK, LocalsOK, Own, Alive, Procs, Idle, Waiting, AcceptPCs,
        ReaperPCs, arbiter, CloseFds, Available, Held,
        DownOK, ReapedIsFree, LiveChildrenKillable, KillTargetOK, StaleEntriesWereLogged
<1>1. ASSUME NEW p \in Pids, NEW s \in Subscribers, Fork(p, s)
      PROVE  ReapedIsFree' /\ LiveChildrenKillable' /\ KillTargetOK'
  BY <1>1 DEF Fork
<1>2. CASE Insert
  BY <1>2 DEF Insert
<1>3. ASSUME NEW listens \in BOOLEAN, Ack(listens)
      PROVE  ReapedIsFree' /\ LiveChildrenKillable' /\ KillTargetOK'
  BY <1>3 DEF Ack
<1>4. ASSUME NEW p \in Pids, KillCheck(p)
      PROVE  ReapedIsFree' /\ LiveChildrenKillable' /\ KillTargetOK'
  BY <1>4 DEF KillCheck
<1>5. ASSUME NEW sig \in {"TERM", "KILL"}, KillSend(sig)
      PROVE  ReapedIsFree' /\ LiveChildrenKillable' /\ KillTargetOK'
  BY <1>5 DEF KillSend, AfterSignal
<1>6. ASSUME NEW s \in Subscribers, Subscribe(s)
      PROVE  ReapedIsFree' /\ LiveChildrenKillable' /\ KillTargetOK'
  BY <1>6 DEF Subscribe
<1>7. ASSUME NEW p \in Pids, ReaperWait(p)
      PROVE  ReapedIsFree' /\ LiveChildrenKillable' /\ KillTargetOK'
  BY <1>7 DEF ReaperWait
<1>8. CASE ReaperRemove
  BY <1>8 DEF ReaperRemove
<1>9. CASE ReaperBroadcast
  BY <1>9 DEF ReaperBroadcast
<1>10. ASSUME NEW p \in Pids, Child(p)
       PROVE  ReapedIsFree' /\ LiveChildrenKillable' /\ KillTargetOK'
  BY <1>10 DEF Child, ChildInstallHandlers, ChildBind, ChildExitCleanly, ChildDie
<1>11. ASSUME NEW p \in Pids, ForeignStart(p) \/ ForeignExit(p)
       PROVE  ReapedIsFree' /\ LiveChildrenKillable' /\ KillTargetOK'
  BY <1>11 DEF ForeignStart, ForeignExit
<1>12. ASSUME NEW p \in Pids, NEW clean \in BOOLEAN, OrphanExit(p, clean)
       PROVE  ReapedIsFree' /\ LiveChildrenKillable' /\ KillTargetOK'
  BY <1>12 DEF OrphanExit
<1>13. ASSUME NEW s \in Subscribers, ArbiterGone(s) \/ ArbiterSeesEof(s)
       PROVE  ReapedIsFree' /\ LiveChildrenKillable' /\ KillTargetOK'
  BY <1>13 DEF ArbiterGone, ArbiterSeesEof
<1>14. CASE Crash
  BY <1>14 DEF Crash
<1>15. CASE Startup
  BY <1>15 DEF Startup
<1>16. CASE UNCHANGED vars
  BY <1>16 DEF vars
<1> QED
  BY <1>1, <1>2, <1>3, <1>4, <1>5, <1>6, <1>7, <1>8,
     <1>9, <1>10, <1>11, <1>12, <1>13, <1>14, <1>15, <1>16
  DEF Next, AcceptLoop, Reaper, System

(* An entry goes stale only by way of a logged untracked reap. *)
LEMMA StepStale ==
  IInv /\ TypeOK' /\ LocalsOK' /\ [Next]_vars => ForkedOK' /\ StaleEntriesWereLogged'
<1> SUFFICES ASSUME IInv, TypeOK', LocalsOK', [Next]_vars
             PROVE  ForkedOK' /\ StaleEntriesWereLogged'
  OBVIOUS
<1> USE NoPidAssumption
    DEF IInv, TypeOK, LocalsOK, Own, Alive, Procs, Idle, Waiting, AcceptPCs,
        ReaperPCs, arbiter, CloseFds, Available, Held,
        DownOK, ForkedOK, StaleEntriesWereLogged
<1>1. ASSUME NEW p \in Pids, NEW s \in Subscribers, Fork(p, s)
      PROVE  ForkedOK' /\ StaleEntriesWereLogged'
  BY <1>1 DEF Fork
<1>2. CASE Insert
  BY <1>2 DEF Insert
<1>3. ASSUME NEW listens \in BOOLEAN, Ack(listens)
      PROVE  ForkedOK' /\ StaleEntriesWereLogged'
  BY <1>3 DEF Ack
<1>4. ASSUME NEW p \in Pids, KillCheck(p)
      PROVE  ForkedOK' /\ StaleEntriesWereLogged'
  BY <1>4 DEF KillCheck
<1>5. ASSUME NEW sig \in {"TERM", "KILL"}, KillSend(sig)
      PROVE  ForkedOK' /\ StaleEntriesWereLogged'
  BY <1>5 DEF KillSend, AfterSignal
<1>6. ASSUME NEW s \in Subscribers, Subscribe(s)
      PROVE  ForkedOK' /\ StaleEntriesWereLogged'
  BY <1>6 DEF Subscribe
<1>7. ASSUME NEW p \in Pids, ReaperWait(p)
      PROVE  ForkedOK' /\ StaleEntriesWereLogged'
  BY <1>7 DEF ReaperWait
<1>8. CASE ReaperRemove
  BY <1>8 DEF ReaperRemove
<1>9. CASE ReaperBroadcast
  BY <1>9 DEF ReaperBroadcast
<1>10. ASSUME NEW p \in Pids, Child(p)
       PROVE  ForkedOK' /\ StaleEntriesWereLogged'
  BY <1>10 DEF Child, ChildInstallHandlers, ChildBind, ChildExitCleanly, ChildDie
<1>11. ASSUME NEW p \in Pids, ForeignStart(p) \/ ForeignExit(p)
       PROVE  ForkedOK' /\ StaleEntriesWereLogged'
  BY <1>11 DEF ForeignStart, ForeignExit
<1>12. ASSUME NEW p \in Pids, NEW clean \in BOOLEAN, OrphanExit(p, clean)
       PROVE  ForkedOK' /\ StaleEntriesWereLogged'
  BY <1>12 DEF OrphanExit
<1>13. ASSUME NEW s \in Subscribers, ArbiterGone(s) \/ ArbiterSeesEof(s)
       PROVE  ForkedOK' /\ StaleEntriesWereLogged'
  BY <1>13 DEF ArbiterGone, ArbiterSeesEof
<1>14. CASE Crash
  BY <1>14 DEF Crash
<1>15. CASE Startup
  BY <1>15 DEF Startup
<1>16. CASE UNCHANGED vars
  BY <1>16 DEF vars
<1> QED
  BY <1>1, <1>2, <1>3, <1>4, <1>5, <1>6, <1>7, <1>8,
     <1>9, <1>10, <1>11, <1>12, <1>13, <1>14, <1>15, <1>16
  DEF Next, AcceptLoop, Reaper, System

(* Copies of subscriber streams. *)
LEMMA StepFds ==
  IInv /\ TypeOK' /\ LocalsOK' /\ [Next]_vars => FdsOK'
<1> SUFFICES ASSUME IInv, TypeOK', LocalsOK', [Next]_vars
             PROVE  FdsOK'
  OBVIOUS
<1> USE NoPidAssumption
    DEF IInv, TypeOK, LocalsOK, Own, Alive, Procs, Idle, Waiting, AcceptPCs,
        ReaperPCs, arbiter, CloseFds, Available, Held,
        FdsOK
<1>1. ASSUME NEW p \in Pids, NEW s \in Subscribers, Fork(p, s)
      PROVE  FdsOK'
  BY <1>1 DEF Fork
<1>2. CASE Insert
  BY <1>2 DEF Insert
<1>3. ASSUME NEW listens \in BOOLEAN, Ack(listens)
      PROVE  FdsOK'
  BY <1>3 DEF Ack
<1>4. ASSUME NEW p \in Pids, KillCheck(p)
      PROVE  FdsOK'
  BY <1>4 DEF KillCheck
<1>5. ASSUME NEW sig \in {"TERM", "KILL"}, KillSend(sig)
      PROVE  FdsOK'
  BY <1>5 DEF KillSend, AfterSignal
<1>6. ASSUME NEW s \in Subscribers, Subscribe(s)
      PROVE  FdsOK'
  BY <1>6 DEF Subscribe
<1>7. ASSUME NEW p \in Pids, ReaperWait(p)
      PROVE  FdsOK'
  BY <1>7 DEF ReaperWait
<1>8. CASE ReaperRemove
  BY <1>8 DEF ReaperRemove
<1>9. CASE ReaperBroadcast
  BY <1>9 DEF ReaperBroadcast
<1>10. ASSUME NEW p \in Pids, Child(p)
       PROVE  FdsOK'
  BY <1>10 DEF Child, ChildInstallHandlers, ChildBind, ChildExitCleanly, ChildDie
<1>11. ASSUME NEW p \in Pids, ForeignStart(p) \/ ForeignExit(p)
       PROVE  FdsOK'
  BY <1>11 DEF ForeignStart, ForeignExit
<1>12. ASSUME NEW p \in Pids, NEW clean \in BOOLEAN, OrphanExit(p, clean)
       PROVE  FdsOK'
  BY <1>12 DEF OrphanExit
<1>13. ASSUME NEW s \in Subscribers, ArbiterGone(s) \/ ArbiterSeesEof(s)
       PROVE  FdsOK'
  BY <1>13 DEF ArbiterGone, ArbiterSeesEof
<1>14. CASE Crash
  BY <1>14 DEF Crash
<1>15. CASE Startup
  BY <1>15 DEF Startup
<1>16. CASE UNCHANGED vars
  BY <1>16 DEF vars
<1> QED
  BY <1>1, <1>2, <1>3, <1>4, <1>5, <1>6, <1>7, <1>8,
     <1>9, <1>10, <1>11, <1>12, <1>13, <1>14, <1>15, <1>16
  DEF Next, AcceptLoop, Reaper, System

(* The invariant is inductive. *)
LEMMA StepIInv == IInv /\ [Next]_vars => IInv'
<1> SUFFICES ASSUME IInv, [Next]_vars PROVE IInv'
  OBVIOUS
<1>1. TypeOK' /\ LocalsOK' /\ DownOK'
  BY StepTypeOK DEF IInv
<1>2. ReapedIsFree' /\ LiveChildrenKillable' /\ KillTargetOK'
  BY <1>1, StepKillable
<1>3. ForkedOK' /\ StaleEntriesWereLogged'
  BY <1>1, StepStale
<1>4. FdsOK'
  BY <1>1, StepFds
<1> QED
  BY <1>1, <1>2, <1>3, <1>4 DEF IInv

LEMMA SpecIInv == Spec => []IInv
  BY InitIInv, StepIInv, PTL DEF Spec

-----------------------------------------------------------------------------
(* The variables keep their types for any pids and subscribers. *)
THEOREM TypeCorrect == Spec => []TypeOK
  BY SpecIInv, PTL DEF IInv

(* While pids are not recycled under a thread's hands, every running child
   of the zygote is one KILL accepts, or is being inserted. *)
THEOREM KillableAlways == Spec => []LiveChildrenKillable
  BY SpecIInv, PTL DEF IInv

(* However pids are recycled, child_pids() names a process that is not a
   child only across an untracked reap or just before its removal. *)
THEOREM StaleOnlyIfLogged == Spec => []StaleEntriesWereLogged
  BY SpecIInv, PTL DEF IInv

(* Only children of an earlier zygote keep a lost subscriber from its EOF. *)
THEOREM LostStreams == Spec => []LostStreamsAreOrphansOnly
<1>1. IInv => LostStreamsAreOrphansOnly
  BY DEF IInv, FdsOK, TypeOK, LostStreamsAreOrphansOnly
<1> QED
  BY <1>1, SpecIInv, PTL

(* A KILL reaches a foreign process only through an entry logged untracked. *)
THEOREM KillsStayInFamily == Spec => SignalsStayInFamily
<1>1. IInv /\ [Next]_vars =>
        [KillStep /\ ~PromptReuse /\ proc[accept.pid] \in {"foreign", "orphan"}
           => accept.pid \in untracked]_vars
  BY DEF IInv, LocalsOK, KillTargetOK, KillStep, Own, Alive
<1> QED
  BY <1>1, SpecIInv, PTL DEF Spec, SignalsStayInFamily

(* The startup sweep takes only sockets whose process is gone: no step of a
   system without a zygote takes the socket of one that goes on. *)
THEOREM SweepTakesTheDead == Spec => SweepSparesLiveHosts
<1>1. ASSUME IInv, [Next]_vars, NEW p \in socks \ socks', ~up
      PROVE  proc[p] = "free" \/ proc'[p] = "free"
  <2> p \in Pids /\ proc \in [Pids -> Procs]
    BY <1>1 DEF IInv, TypeOK
  <2>1. CASE Startup
    BY <1>1, <2>1 DEF Startup
  <2>2. ASSUME NEW q \in Pids, NEW clean \in BOOLEAN, OrphanExit(q, clean)
        PROVE  proc'[p] = "free"
    BY <1>1, <2>2 DEF OrphanExit
  <2>3. ASSUME NEW q \in Pids PROVE ~ChildExitCleanly(q)
    BY <1>1 DEF IInv, DownOK, Own, Alive, ChildExitCleanly
  <2>4. Startup \/ \E q \in Pids, clean \in BOOLEAN : OrphanExit(q, clean)
    BY <1>1, <2>3 DEF Next, AcceptLoop, Reaper, Child, System, Fork, Insert, Ack, KillCheck,
       KillSend, Subscribe, ReaperWait, ReaperRemove, ReaperBroadcast, ChildInstallHandlers,
       ChildBind, ChildDie, ForeignStart, ForeignExit, ArbiterGone, ArbiterSeesEof, Crash, vars
  <2> QED
    BY <2>1, <2>2, <2>4
<1>2. IInv /\ [Next]_vars =>
        [\A p \in socks \ socks' : ~up => proc[p] = "free" \/ proc'[p] = "free"]_vars
  BY <1>1
<1> QED
  BY <1>2, SpecIInv, PTL DEF Spec, SweepSparesLiveHosts
=============================================================================
