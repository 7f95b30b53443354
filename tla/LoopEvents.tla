----------------------------- MODULE LoopEvents -----------------------------
(***************************************************************************)
(* What reaches the guest of a standalone host: the arbiter's lines        *)
(* (ime_inbound.rs), touches and keys (input.rs) and the delayed callbacks *)
(* (scheduler_impl.rs), as the listener thread and the stages of the       *)
(* turn's iteration (standalone.rs) deliver them.                          *)
(*                                                                         *)
(* Queued lines are numbered.  Every call into the guest may schedule or   *)
(* cancel a callback, and may trap: a trapped instance refuses every later *)
(* call, and only the dispatch of a frame ends the host for it.            *)
(***************************************************************************)
EXTENDS Integers, Sequences, FiniteSets

CONSTANTS
    Conns,        \* connections of the arbiter
    MaxCallbacks, \* bound: callbacks scheduled; handles are given in order
    MaxDelay,     \* the longest delay of one, in naps
    MaxLines,     \* bound: lines sent
    MaxInputs,    \* bound: touches and keys
    IdleCap       \* iterations after which a visible host draws (IDLE_CAP_MS)

ConstantsOK == {MaxCallbacks, MaxDelay, MaxLines, MaxInputs, IdleCap} \subseteq Nat

VARIABLES
    conn,     \* per connection: its state, lines not read, hung up by the peer
    backlog,  \* connections not accepted, in their order
    gate,     \* TOUCH_SUPPRESSED
    queue,    \* the numbers of the queued lines
    lines,    \* how many were sent, queued and handled
    channel,  \* touches and keys the loop has not polled; a touch knows its gate
    made,     \* how many were made; whether the guest got a touch made blanked;
              \* the touches it got since the panel was blanked last
    timers,   \* SchedulerState: heap with the time left, handles, cancelled, next
    revoked,  \* history: callbacks cancelled while they were pending
    fired,    \* history: callbacks the guest was called for
    turn,     \* at: the stage; its batches; whether the first input is past
              \* the gate; iterations without a frame
    host      \* "runs", "trapped", "exited"; whether in the background

vars == <<conn, backlog, gate, queue, lines, channel, made, timers, revoked, fired, turn, host>>
-----------------------------------------------------------------------------
Handles == 1..MaxCallbacks
Running == host.state # "exited"
At(stage) == Running /\ turn.at = stage

Init ==
    /\ conn = [c \in Conns |-> [state |-> "new", unread |-> 0, hungUp |-> FALSE]]
    /\ backlog = <<>> /\ gate = FALSE /\ queue = <<>>
    /\ lines = [sent |-> 0, queued |-> 0, handled |-> 0]
    /\ channel = <<>> /\ made = [inputs |-> 0, leaked |-> FALSE, slipped |-> 0]
    /\ timers = [heap |-> {}, handles |-> {}, cancelled |-> {}, next |-> 1]
    /\ revoked = {} /\ fired = {}
    /\ turn = [at |-> "input", inputs |-> <<>>, past |-> FALSE, batch |-> <<>>, due |-> <<>>, idle |-> 0]
    /\ host = [state |-> "runs", background |-> FALSE]
-----------------------------------------------------------------------------
(* The arbiter's side: it connects, sends lines and hangs up.                *)
Connect(c) ==
    /\ conn[c].state = "new"
    /\ conn' = [conn EXCEPT ![c].state = "waiting"]
    /\ backlog' = Append(backlog, c)
    /\ UNCHANGED <<gate, queue, lines, channel, made, timers, revoked, fired, turn, host>>

Send(c) ==
    /\ conn[c].state \in {"waiting", "served"} /\ ~conn[c].hungUp /\ lines.sent < MaxLines
    /\ conn' = [conn EXCEPT ![c].unread = @ + 1]
    /\ lines' = [lines EXCEPT !.sent = @ + 1]
    /\ UNCHANGED <<backlog, gate, queue, channel, made, timers, revoked, fired, turn, host>>

HangUp(c) ==
    /\ conn[c].state \in {"waiting", "served"} /\ ~conn[c].hungUp
    /\ conn' = [conn EXCEPT ![c].hungUp = TRUE]
    /\ UNCHANGED <<backlog, gate, queue, lines, channel, made, timers, revoked, fired, turn, host>>

(* The listener of spawn_listener: one connection at a time, to its end.     *)
Serving == {c \in Conns : conn[c].state = "served"}

Accept ==
    /\ Running /\ Serving = {} /\ backlog # <<>>
    /\ conn' = [conn EXCEPT ![Head(backlog)].state = "served"]
    /\ backlog' = Tail(backlog)
    /\ UNCHANGED <<gate, queue, lines, channel, made, timers, revoked, fired, turn, host>>

Eof(c) ==
    /\ Running /\ c \in Serving /\ conn[c].hungUp /\ conn[c].unread = 0
    /\ conn' = [conn EXCEPT ![c].state = "done"]
    /\ UNCHANGED <<backlog, gate, queue, lines, channel, made, timers, revoked, fired, turn, host>>

(* parse_and_queue: most verbs queue an event, input-suppress sets the gate   *)
(* at once, and what is malformed or unknown is dropped.                      *)
ReadLine(c) ==
    /\ Running /\ c \in Serving /\ conn[c].unread > 0
    /\ conn' = [conn EXCEPT ![c].unread = @ - 1]
    /\ \/ /\ lines' = [lines EXCEPT !.queued = @ + 1]
          /\ queue' = Append(queue, lines.queued + 1)
          /\ UNCHANGED <<gate, made>>
       \/ /\ gate' \in BOOLEAN /\ UNCHANGED <<queue, lines>>
          /\ made' = IF gate' /\ ~gate THEN [made EXCEPT !.slipped = 0] ELSE made
    /\ UNCHANGED <<backlog, channel, timers, revoked, fired, turn, host>>

(* The user's touch, or a hardware key.                                       *)
Input(kind) ==
    /\ Running /\ made.inputs < MaxInputs
    /\ made' = [made EXCEPT !.inputs = @ + 1]
    /\ channel' = Append(channel, [kind |-> kind, blank |-> gate])
    /\ UNCHANGED <<conn, backlog, gate, queue, lines, timers, revoked, fired, turn, host>>

(* The arbiter's signal moves the app to the background and back.             *)
SetRole(background) ==
    /\ Running /\ host.background # background
    /\ host' = [host EXCEPT !.background = background]
    /\ UNCHANGED <<conn, backlog, gate, queue, lines, channel, made, timers, revoked, fired, turn>>
-----------------------------------------------------------------------------
(* schedule_delayed: a new handle, in both tables.                            *)
Schedule(delay) ==
    /\ timers.next \in Handles
    /\ timers' = [timers EXCEPT
           !.heap = @ \cup {[handle |-> timers.next, left |-> delay]},
           !.handles = @ \cup {timers.next}, !.next = @ + 1]
    /\ UNCHANGED revoked

\* Mutant: the handle is marked whether or not it is still pending.
MutantCancel(h) ==
    /\ timers' = [timers EXCEPT !.handles = @ \ {h}, !.cancelled = @ \cup {h}]
    /\ revoked' = revoked \cup ({h} \cap timers.handles)

(* cancel: a pending handle is marked, its heap entry is left for the drain.  *)
Cancel(h) ==
    /\ timers' = IF h \in timers.handles
                 THEN [timers EXCEPT !.handles = @ \ {h}, !.cancelled = @ \cup {h}]
                 ELSE timers
    /\ revoked' = revoked \cup ({h} \cap timers.handles)

(* One call into the guest: refused once it has trapped, else it may use the   *)
(* scheduler, or trap.                                                        *)
GuestCall ==
    \/ UNCHANGED <<timers, revoked, host>>
    \/ /\ host.state = "runs" /\ UNCHANGED host
       /\ (\E d \in 0..MaxDelay : Schedule(d)) \/ (\E h \in 1..(timers.next - 1) : Cancel(h))
    \/ /\ host.state = "runs" /\ host' = [host EXCEPT !.state = "trapped"]
       /\ UNCHANGED <<timers, revoked>>
-----------------------------------------------------------------------------
(* The iteration: poll_input takes what there is ...                          *)
PollInput ==
    /\ At("input") /\ turn.inputs = <<>> /\ channel # <<>>
    /\ turn' = [turn EXCEPT !.inputs = channel, !.idle = IdleCap]
    /\ channel' = <<>>
    /\ UNCHANGED <<conn, backlog, gate, queue, lines, made, timers, revoked, fired, host>>

\* Mutant: the gate is looked at once, when the input is made.
MutantPassInput ==
    /\ At("input") /\ turn.inputs # <<>> /\ ~turn.past
    /\ LET e == Head(turn.inputs) IN
       turn' = IF e.kind = "touch" /\ e.blank THEN [turn EXCEPT !.inputs = Tail(@)]
               ELSE [turn EXCEPT !.past = TRUE]
    /\ UNCHANGED <<conn, backlog, gate, queue, lines, channel, made, timers, revoked, fired, host>>

(* ... and each is dispatched: the gate is looked at for a touch, ...          *)
PassInput ==
    /\ At("input") /\ turn.inputs # <<>> /\ ~turn.past
    /\ turn' = IF Head(turn.inputs).kind = "touch" /\ gate
               THEN [turn EXCEPT !.inputs = Tail(@)]
               ELSE [turn EXCEPT !.past = TRUE]
    /\ UNCHANGED <<conn, backlog, gate, queue, lines, channel, made, timers, revoked, fired, host>>

(* ... and the guest is called, whatever the listener has set since.           *)
DispatchInput ==
    /\ At("input") /\ turn.inputs # <<>> /\ turn.past
    /\ turn' = [turn EXCEPT !.inputs = Tail(@), !.past = FALSE]
    /\ GuestCall
    /\ LET e == Head(turn.inputs) IN
       made' = IF e.kind # "touch" THEN made
               ELSE [made EXCEPT !.leaked = @ \/ e.blank, !.slipped = IF gate THEN @ + 1 ELSE @]
    /\ UNCHANGED <<conn, backlog, gate, queue, lines, channel, fired>>

(* drain_queue: all that is queued now, once the input is done.               *)
DrainQueue ==
    /\ At("input") /\ turn.inputs = <<>>
    /\ turn' = [turn EXCEPT !.at = "inbound", !.batch = queue,
                            !.idle = IF queue = <<>> THEN @ ELSE IdleCap]
    /\ queue' = <<>>
    /\ UNCHANGED <<conn, backlog, gate, lines, channel, made, timers, revoked, fired, host>>

(* One event of the batch: an applier of the host or a handler of the guest.  *)
HandleLine ==
    /\ At("inbound") /\ turn.batch # <<>>
    /\ turn' = [turn EXCEPT !.batch = Tail(@)]
    /\ lines' = [lines EXCEPT !.handled = Head(turn.batch)]
    /\ GuestCall
    /\ UNCHANGED <<conn, backlog, gate, queue, channel, made, fired>>

Popped == {e \in timers.heap : e.left <= 0}
HandlesOf(entries) == {e.handle : e \in entries}

(* drain_due: of the entries popped, those neither cancelled nor unknown.     *)
Live(entries) == {e \in entries : e.handle \in timers.handles \ timers.cancelled}

\* The orders in which entries leave the heap: by deadline, ties open.
Orders(entries) ==
    {s \in [1..Cardinality(entries) -> entries] :
        \A i, j \in DOMAIN s : i < j => s[i] # s[j] /\ s[i].left <= s[j].left}

DrainTimers ==
    /\ At("inbound") /\ turn.batch = <<>>
    /\ \E s \in Orders(Live(Popped)) :
         turn' = [turn EXCEPT !.at = "timers", !.due = [i \in DOMAIN s |-> s[i].handle],
                              !.idle = IF s = <<>> THEN @ ELSE IdleCap]
    /\ timers' = [timers EXCEPT !.heap = @ \ Popped,
                                !.cancelled = @ \ HandlesOf(Popped),
                                !.handles = @ \ HandlesOf(Live(Popped))]
    /\ UNCHANGED <<conn, backlog, gate, queue, lines, channel, made, revoked, fired, host>>

(* on-scheduled-callback for each of the batch.                               *)
Fire ==
    /\ At("timers") /\ turn.due # <<>>
    /\ turn' = [turn EXCEPT !.due = Tail(@)]
    /\ fired' = IF host.state = "runs" THEN fired \cup {Head(turn.due)} ELSE fired
    /\ GuestCall
    /\ UNCHANGED <<conn, backlog, gate, queue, lines, channel, made>>

(* bg-tick when it is due, whatever the role; its failure is only a delay.     *)
BgTick ==
    /\ At("timers") /\ turn.due = <<>>
    /\ turn' = [turn EXCEPT !.at = "frame"]
    /\ GuestCall
    /\ UNCHANGED <<conn, backlog, gate, queue, lines, channel, made, fired>>

(* The frame of a visible host, due or wanted; a trapped instance cannot be    *)
(* entered and ends the host.                                                 *)
Frame ==
    /\ At("frame") /\ ~host.background
    /\ turn' = [turn EXCEPT !.at = "nap", !.idle = 0]
    /\ IF host.state = "trapped"
       THEN host' = [host EXCEPT !.state = "exited"] /\ UNCHANGED <<timers, revoked>>
       ELSE GuestCall
    /\ UNCHANGED <<conn, backlog, gate, queue, lines, channel, made, fired>>

NoFrame ==
    /\ At("frame") /\ (host.background \/ turn.idle < IdleCap)
    /\ turn' = [turn EXCEPT !.at = "nap", !.idle = IF host.background THEN @ ELSE @ + 1]
    /\ UNCHANGED <<conn, backlog, gate, queue, lines, channel, made, timers, revoked, fired, host>>

(* The nap, and round again.                                                  *)
Nap ==
    /\ At("nap")
    /\ turn' = [turn EXCEPT !.at = "input"]
    /\ timers' = [timers EXCEPT !.heap = {[e EXCEPT !.left = @ - 1] : e \in timers.heap}]
    /\ UNCHANGED <<conn, backlog, gate, queue, lines, channel, made, revoked, fired, host>>

(* The signal to stop, looked at when an iteration begins.                     *)
Shutdown ==
    /\ At("input") /\ turn.inputs = <<>>
    /\ host' = [host EXCEPT !.state = "exited"]
    /\ UNCHANGED <<conn, backlog, gate, queue, lines, channel, made, timers, revoked, fired, turn>>

Iterate ==
    \/ PollInput \/ PassInput \/ DispatchInput \/ DrainQueue \/ HandleLine
    \/ DrainTimers \/ Fire \/ BgTick \/ Frame \/ NoFrame \/ Nap

Listen == Accept \/ \E c \in Conns : ReadLine(c) \/ Eof(c)
HangsUp == \E c \in Conns : HangUp(c)

Next ==
    \/ \E c \in Conns : Connect(c) \/ Send(c)
    \/ HangsUp \/ Listen
    \/ Input("touch") \/ Input("key")
    \/ \E b \in BOOLEAN : SetRole(b)
    \/ Iterate \/ Shutdown

Spec == Init /\ [][Next]_vars

\* The two threads run; the arbiter closes what it opened.
FairSpec == Spec /\ WF_vars(Iterate) /\ WF_vars(Listen) /\ WF_vars(HangsUp)
-----------------------------------------------------------------------------
(* Types.                                                                     *)
TypeOK ==
    /\ conn \in [Conns -> [state : {"new", "waiting", "served", "done"},
                           unread : 0..MaxLines, hungUp : BOOLEAN]]
    /\ backlog \in Seq(Conns) /\ gate \in BOOLEAN /\ queue \in Seq(1..MaxLines)
    /\ lines \in [sent : 0..MaxLines, queued : 0..MaxLines, handled : 0..MaxLines]
    /\ channel \in Seq([kind : {"touch", "key"}, blank : BOOLEAN])
    /\ made \in [inputs : 0..MaxInputs, leaked : BOOLEAN, slipped : 0..MaxInputs]
    /\ \A e \in timers.heap : e.handle \in Handles /\ e.left \in (-1)..MaxDelay
    /\ timers.next \in 1..(MaxCallbacks + 1)
    /\ {revoked, fired, timers.handles, timers.cancelled} \subseteq SUBSET Handles
    /\ turn.past \in BOOLEAN
    /\ turn.at \in {"input", "inbound", "timers", "frame", "nap"} /\ turn.idle \in 0..IdleCap
    /\ host \in [state : {"runs", "trapped", "exited"}, background : BOOLEAN]

(* Every queued line is handled once and in the order read, over batches and   *)
(* connections: what is handled, in the batch and in the queue is gapless.    *)
LinesInOrder ==
    LET open == turn.batch \o queue IN
    /\ Len(open) = lines.queued - lines.handled
    /\ \A i \in 1..Len(open) : open[i] = lines.handled + i

(* The tables of the scheduler agree: a heap entry is live or cancelled, one   *)
(* of the two, and no mark outlives its entry; and a callback cancelled while *)
(* it was pending never fires.                                                *)
CallbacksAccounted ==
    /\ HandlesOf(timers.heap) = timers.handles \cup timers.cancelled
    /\ timers.handles \cap timers.cancelled = {}
    /\ revoked \cap fired = {}

(* Once the arbiter has the panel blanked at most one touch still reaches the   *)
(* guest, the one whose dispatch was past the gate: not what the loop had      *)
(* taken up with it, nor what came in before.                                 *)
BlankPanelIsInert == gate => made.slipped <= 1

(* A line sent is handled and a pending callback fires or is cancelled in the  *)
(* end, unless the host has exited or its guest trapped: one arbiter          *)
(* connection does not starve the next.                                       *)
DeliveredInTheEnd ==
    /\ []<>(\/ lines.handled = lines.queued /\ \A c \in DOMAIN conn : conn[c].unread = 0
           \/ ~Running)
    /\ \A h \in Handles :
         h \in timers.handles ~> h \in fired \cup revoked \/ host.state # "runs"

(* A visible host whose guest has trapped exits, and can be started again.     *)
TrappedHostExits == host.state = "trapped" ~> ~Running \/ host.background

(* "a cheek/ear touch can't trigger taps on the invisible UI": no touch made   *)
(* while the panel is blanked reaches the guest, later either.                *)
EarTouchesAreDropped == ~made.leaked
=============================================================================
